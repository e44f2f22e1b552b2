---------------------------- MODULE SocksSession ----------------------------
(* One session of socks_server.cpp: the child that handle_accept forks for a    *)
(* SOCKS client.  It reads a request, asks the firewall, connects to the        *)
(* destination (CONNECT) or waits for it (BIND), answers the client and then    *)
(* relays.  The relay is two loops of callbacks, one for each direction, each   *)
(* with one buffer: read some, write all of it, read again.  A loop stops at    *)
(* its first error or end of input; nothing is closed until both have stopped   *)
(* and io_service::run returns.                                                 *)
(*                                                                              *)
(* Sessions share nothing but socks.conf, which can be changed at any time and  *)
(* is read again for each request.  A client sends its request in one piece     *)
(* and data only when it was granted, as console.cpp does.  Data are numbered   *)
(* pieces.                                                                      *)
EXTENDS Integers, Sequences, SequencesExt

CONSTANTS
    Addresses,  \* destinations: sequences of four numbers
    Confs,      \* contents of socks.conf: sets of rules
    MaxSent     \* how many pieces an end sends: bounds the input

Commands == {"CONNECT", "BIND", "other"}

ASSUME AddressesAssumption == Addresses \subseteq [1..4 -> Nat]
ASSUME ConfsAssumption ==
    \A conf \in Confs : \A r \in conf :
        /\ r.command \in Commands \ {"other"}
        /\ DOMAIN r.pattern = 1..4
ASSUME MaxSentAssumption == MaxSent \in Nat

Star == -1                       \* the * of a pattern
Ends == {"client", "server"}    \* the ends of socket_client and socket_server
Requests == [command : Commands, version : {4, 5}, dstip : Addresses]

VARIABLES
    conf,       \* socks.conf
    stage,      \* what the process waits for
    request,    \* the request that was read
    checked,    \* history: the rules that it was checked against
    reply,      \* history: the codes of the replies to the client
    sent,       \* the number of pieces each end has sent
    wire,       \* wire[e]: what e has sent and the relay has not read
    buffer,     \* buffer[e]: what was read from e and is being written
    loop,       \* loop[e]: the loop that reads from e
    got,        \* history: got[e]: the pieces that reached e
    fin,        \* e has sent all it wants to (shutdown or close)
    closed,     \* e has closed its socket
    reset       \* and has answered with a reset

dialog == <<request, checked, reply>>
relay == <<sent, wire, buffer, loop, got>>
ends == <<fin, closed, reset>>
vars == <<conf, stage, dialog, relay, ends>>

Peer(e) == IF e = "client" THEN "server" ELSE "client"

-----------------------------------------------------------------------------
\* Mutant of Matches: a part that differs does not end the loop.
MatchesAnywhere(pattern, ip) ==
    \E i \in 1..4 : pattern[i] = Star \/ (i = 4 /\ pattern[i] = ip[i])

\* the loop over the parts: a * permits, a part that differs breaks
Matches(pattern, ip) ==
    \E i \in 1..4 :
        /\ \A j \in 1..(i - 1) : pattern[j] \in {Star, ip[j]}
        /\ pattern[i] = Star \/ (i = 4 /\ pattern[i] = ip[i])

firewall_check(r) ==
    \E rule \in conf : rule.command = r.command /\ Matches(rule.pattern, r.dstip)

-----------------------------------------------------------------------------
Init ==
    /\ conf \in Confs
    /\ stage = "request"
    /\ request \in Requests
    /\ checked = {} /\ reply = <<>>
    /\ sent = [e \in Ends |-> 0]
    /\ wire = [e \in Ends |-> <<>>]
    /\ buffer = [e \in Ends |-> <<>>]
    /\ loop = [e \in Ends |-> "off"]
    /\ got = [e \in Ends |-> <<>>]
    /\ fin = [e \in Ends |-> FALSE]
    /\ closed = [e \in Ends |-> FALSE]
    /\ reset = [e \in Ends |-> FALSE]

\* somebody edits socks.conf while the request is on its way
Reconfigure ==
    /\ stage = "request" /\ conf' \in Confs
    /\ UNCHANGED <<stage, dialog, relay, ends>>

\* do_reply: a client that is gone gets nothing
Reply(code) == reply' = IF closed["client"] THEN reply ELSE Append(reply, code)

End == stage' = "ended" /\ UNCHANGED <<relay, ends>>

\* do_reply(false) and exit
Reject == Reply(91) /\ End

\* the two loops start to read
StartRelay ==
    /\ stage' = "relay"
    /\ loop' = [e \in Ends |-> "reading"]
    /\ UNCHANGED <<sent, wire, buffer, got, ends>>

\* handle_parse; the name of a destination cannot be resolved, or the command is
\* neither: the process ends without a reply
handle_parse ==
    /\ stage = "request"
    /\ checked' = conf
    /\ LET granted == firewall_check(request) /\ request.version = 4 IN
        \/ /\ request.command = "CONNECT" /\ granted
           /\ stage' = "connecting"
           /\ UNCHANGED <<reply, relay, ends>>
        \/ /\ request.command = "BIND" /\ granted
           /\ stage' = "listening"
           /\ Reply(90)
           /\ UNCHANGED <<relay, ends>>
        \/ request.command # "other" /\ ~granted /\ Reject
        \/ request.command # "BIND" /\ End /\ UNCHANGED reply
    /\ UNCHANGED <<conf, request>>

\* the client goes away before it has asked for anything
NoRequest ==
    /\ stage = "request" /\ fin["client"]
    /\ End
    /\ UNCHANGED <<conf, dialog>>

\* async_connect is done
do_connect ==
    /\ stage = "connecting"
    /\ \/ Reply(90) /\ StartRelay
       \/ Reject
    /\ UNCHANGED <<conf, request, checked>>

\* accept returns: the destination has connected
BindAccept ==
    /\ stage = "listening"
    /\ Reply(90) /\ StartRelay
    /\ UNCHANGED <<conf, request, checked>>

\* the client is gone: remote_endpoint or write throws, main catches it and ends
Throw ==
    /\ stage \in {"connecting", "listening"} /\ closed["client"]
    /\ End
    /\ UNCHANGED <<conf, dialog>>

-----------------------------------------------------------------------------
\* Mutant of Read: the next read is started with the write, on the same buffer.
ReadEarly(e) ==
    /\ stage = "relay" /\ loop[e] \in {"reading", "writing"}
    /\ \E k \in 1..Len(wire[e]) :
        /\ buffer' = [buffer EXCEPT ![e] = SubSeq(wire[e], 1, k)]
        /\ wire' = [wire EXCEPT ![e] = SubSeq(@, k + 1, Len(@))]
    /\ loop' = [loop EXCEPT ![e] = "writing"]
    /\ UNCHANGED <<conf, stage, dialog, sent, got, ends>>

\* do_read_from_client, do_read_from_server: some of what has arrived
Read(e) ==
    /\ stage = "relay" /\ loop[e] = "reading"
    /\ \E k \in 1..Len(wire[e]) :
        /\ buffer' = [buffer EXCEPT ![e] = SubSeq(wire[e], 1, k)]
        /\ wire' = [wire EXCEPT ![e] = SubSeq(@, k + 1, Len(@))]
    /\ loop' = [loop EXCEPT ![e] = "writing"]
    /\ UNCHANGED <<conf, stage, dialog, sent, got, ends>>

\* Mutant of ReadEnd: both loops stop when one end has finished.
ReadEndStopsBoth(e) ==
    /\ stage = "relay" /\ loop[e] = "reading"
    /\ \/ fin[e] /\ wire[e] = <<>>
       \/ reset[e]
    /\ loop' = [d \in Ends |-> "stopped"]
    /\ UNCHANGED <<conf, stage, dialog, sent, wire, buffer, got, ends>>

\* Mutant of ReadEnd: the handler does not look at the error and reads again.
ReadEndGoesOn(e) ==
    /\ stage = "relay" /\ loop[e] = "reading"
    /\ \/ fin[e] /\ wire[e] = <<>>
       \/ reset[e]
    /\ UNCHANGED vars

\* the handler gets eof or an error: this loop stops
ReadEnd(e) ==
    /\ stage = "relay" /\ loop[e] = "reading"
    /\ \/ fin[e] /\ wire[e] = <<>>
       \/ reset[e]
    /\ loop' = [loop EXCEPT ![e] = "stopped"]
    /\ UNCHANGED <<conf, stage, dialog, sent, wire, buffer, got, ends>>

\* Mutant of Written: the rest of a short write is forgotten.
WrittenOnce(e) ==
    /\ buffer' = [buffer EXCEPT ![e] = Tail(@)]
    /\ loop' = [loop EXCEPT ![e] = "reading"]

\* what a write leaves to do, and what the loop does next
Written(e) ==
    /\ buffer' = [buffer EXCEPT ![e] = Tail(@)]
    /\ loop' = [loop EXCEPT ![e] = IF Len(buffer[e]) = 1 THEN "reading" ELSE @]

\* do_write_to_server, do_write_to_client: async_write, one piece after the other
Write(e) ==
    /\ stage = "relay" /\ loop[e] = "writing" /\ ~closed[Peer(e)]
    /\ got' = [got EXCEPT ![Peer(e)] = Append(@, Head(buffer[e]))]
    /\ Written(e)
    /\ UNCHANGED <<conf, stage, dialog, sent, wire, ends>>

\* the first write to a socket that was closed is still accepted
WriteLost(e) ==
    /\ stage = "relay" /\ loop[e] = "writing" /\ closed[Peer(e)] /\ ~reset[Peer(e)]
    /\ reset' = [reset EXCEPT ![Peer(e)] = TRUE]
    /\ Written(e)
    /\ UNCHANGED <<conf, stage, dialog, sent, wire, got, fin, closed>>

WriteFails(e) ==
    /\ stage = "relay" /\ loop[e] = "writing" /\ reset[Peer(e)]
    /\ buffer' = [buffer EXCEPT ![e] = <<>>]
    /\ loop' = [loop EXCEPT ![e] = "stopped"]
    /\ UNCHANGED <<conf, stage, dialog, sent, wire, got, ends>>

\* no callback is left: run returns, main returns, and the sockets are closed
RunReturns ==
    /\ stage = "relay" /\ \A e \in Ends : loop[e] = "stopped"
    /\ End
    /\ UNCHANGED <<conf, dialog>>

-----------------------------------------------------------------------------
\* the ends: a client, and the destination once there is a connection to it
Talks(e) == ~closed[e] /\ (e = "server" => stage = "relay")

SendPiece(e) ==
    /\ Talks(e) /\ stage = "relay" /\ ~fin[e] /\ sent[e] < MaxSent
    /\ sent' = [sent EXCEPT ![e] = @ + 1]
    /\ wire' = [wire EXCEPT ![e] = Append(@, sent[e] + 1)]
    /\ UNCHANGED <<conf, stage, dialog, buffer, loop, got, ends>>

Shutdown(e) ==
    /\ Talks(e) /\ ~fin[e]
    /\ fin' = [fin EXCEPT ![e] = TRUE]
    /\ UNCHANGED <<conf, stage, dialog, relay, closed, reset>>

\* a socket with unread data is reset when it is closed
Close(e) ==
    /\ Talks(e)
    /\ fin' = [fin EXCEPT ![e] = TRUE]
    /\ closed' = [closed EXCEPT ![e] = TRUE]
    /\ \E r \in BOOLEAN : reset' = [reset EXCEPT ![e] = r]
    /\ UNCHANGED <<conf, stage, dialog, relay>>

Loop(e) == Read(e) \/ ReadEnd(e) \/ Write(e) \/ WriteLost(e) \/ WriteFails(e)

Next ==
    \/ Reconfigure
    \/ handle_parse \/ NoRequest \/ do_connect \/ BindAccept \/ Throw
    \/ RunReturns
    \/ \E e \in Ends : Loop(e) \/ SendPiece(e) \/ Shutdown(e) \/ Close(e)

(* The process is scheduled and gets to the callbacks of both directions, and   *)
(* an end that has not closed its socket reads what arrives.  A client need not *)
(* ask, a destination need not connect, and no end has to finish.               *)
Fairness == WF_vars(RunReturns) /\ \A e \in Ends : WF_vars(Loop(e))

Spec == Init /\ [][Next]_vars /\ Fairness

-----------------------------------------------------------------------------
Stages == {"request", "connecting", "listening", "relay", "ended"}
Pieces == Seq(1..MaxSent)

(* Shapes; a loop has something in its buffer exactly while it writes.          *)
TypeOK ==
    /\ conf \in Confs /\ stage \in Stages /\ request \in Requests
    /\ checked \in Confs \cup {{}} /\ reply \in Seq({90, 91}) /\ Len(reply) <= 2
    /\ sent \in [Ends -> 0..MaxSent]
    /\ wire \in [Ends -> Pieces] /\ buffer \in [Ends -> Pieces]
    /\ got \in [Ends -> Pieces]
    /\ loop \in [Ends -> {"off", "reading", "writing", "stopped"}]
    /\ \A e \in Ends : (buffer[e] # <<>>) <=> (loop[e] = "writing")
    /\ fin \in [Ends -> BOOLEAN] /\ closed \in [Ends -> BOOLEAN]
    /\ reset \in [Ends -> BOOLEAN]
    /\ \A e \in Ends : (reset[e] => closed[e]) /\ (closed[e] => fin[e])

(* What an end has sent is, in order, what reached the other end, what is in    *)
(* the buffer and what is still on the wire, as long as the other end has not   *)
(* closed its socket: the one buffer of a direction is never read into while it *)
(* is written, and the two directions do not mix.                               *)
DataIsConserved ==
    \A e \in Ends :
        /\ IsPrefix(got[Peer(e)], [k \in 1..sent[e] |-> k])
        /\ closed[Peer(e)] \/
            got[Peer(e)] \o buffer[e] \o wire[e] = [k \in 1..sent[e] |-> k]

(* "permit c 140.113.*.*": when the stars of a pattern are its last parts, a    *)
(* request gets past the firewall only if a rule for its command has a pattern  *)
(* that agrees with the destination in every other part.  The destination is    *)
(* the address in the request.  A request with a name (SOCKS4A) has 0.0.0.x     *)
(* there; the code connects to what the name resolves to, about which no rule   *)
(* is asked and nothing is said here.                                           *)
StarsLast(pattern) ==
    \A i, j \in 1..4 : (i < j /\ pattern[i] = Star) => pattern[j] = Star
Agrees(pattern, ip) == \A i \in 1..4 : pattern[i] \in {Star, ip[i]}
Permits(rules, r) ==
    \E rule \in rules : rule.command = r.command /\ Agrees(rule.pattern, r.dstip)
OnlyPermitted ==
    /\ stage \in {"connecting", "listening", "relay"}
    /\ \A rule \in checked : StarsLast(rule.pattern)
    => Permits(checked, request)

(* "Download files larger than 1GB completely": once the destination has sent   *)
(* everything, the client gets everything, also when it has itself finished     *)
(* sending, unless it closes its socket or the connection is reset.             *)
DownloadCompletes ==
    (stage = "relay" /\ fin["server"])
        ~> (Len(got["client"]) = sent["server"] \/ closed["client"] \/ reset["server"])

(* When both ends have closed their sockets the process of the session ends: no *)
(* loop waits for the other and none goes on for ever.                          *)
SessionEnds ==
    (stage = "relay" /\ closed["client"] /\ closed["server"]) ~> stage = "ended"
=============================================================================
