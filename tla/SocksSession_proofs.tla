------------------------- MODULE SocksSession_proofs -------------------------
(* What the firewall of socks_server.cpp lets through, and what its relay does  *)
(* with the data, for all rules, destinations and amounts of data.  The loop of *)
(* firewall_check permits at the first * that it meets; that is what a pattern  *)
(* says only when its stars come last.  The relay has one buffer for each       *)
(* direction: its loops pass the data on without a loss because a buffer is     *)
(* empty whenever something is read into it.                                    *)
EXTENDS SocksSession, SequenceTheorems, TLAPS

(* A rule permits every destination that its pattern agrees with.               *)
LEMMA AgreesMatches ==
    ASSUME NEW pattern, NEW ip, Agrees(pattern, ip)
    PROVE  Matches(pattern, ip)
<1>1. \A i \in 1..4 : pattern[i] = Star \/ pattern[i] = ip[i]
  BY DEF Agrees
<1>2. 4 \in 1..4 /\ \A j \in 1..(4 - 1) : j \in 1..4
  OBVIOUS
<1>. QED
  BY <1>1, <1>2 DEF Matches

(* And no other, when the stars of the pattern are its last parts.              *)
LEMMA MatchesAgrees ==
    ASSUME NEW pattern, NEW ip, StarsLast(pattern), Matches(pattern, ip)
    PROVE  Agrees(pattern, ip)
<1>1. PICK i \in 1..4 :
        /\ \A j \in 1..(i - 1) : pattern[j] \in {Star, ip[j]}
        /\ pattern[i] = Star \/ (i = 4 /\ pattern[i] = ip[i])
  BY DEF Matches
<1>2. SUFFICES ASSUME NEW k \in 1..4
               PROVE  pattern[k] \in {Star, ip[k]}
  BY DEF Agrees
<1>3. CASE k < i
  BY <1>1, <1>3
<1>4. CASE k = i
  BY <1>1, <1>4
<1>5. CASE i < k
  <2>1. pattern[i] = Star
    BY <1>1, <1>5
  <2>. QED
    BY <2>1, <1>5 DEF StarsLast
<1>. QED
  BY <1>3, <1>4, <1>5

(* The rules that a request was checked against let it through.                 *)
Passed ==
    \E rule \in checked :
        rule.command = request.command /\ Matches(rule.pattern, request.dstip)
IInv == stage \in {"connecting", "listening", "relay"} => Passed

LEMMA InitInv == Init => IInv
BY DEF Init, IInv

(* A process gets past handle_parse only through the firewall, and the rules    *)
(* it was checked against do not change any more.                               *)
LEMMA NextInv == IInv /\ [Next]_vars => IInv'
<1>. SUFFICES ASSUME IInv, [Next]_vars
              PROVE  IInv'
  OBVIOUS
<1>1. CASE handle_parse
  <2>1. CASE stage' = "ended"
    BY <2>1 DEF IInv
  <2>2. CASE stage' # "ended"
    <3>1. firewall_check(request) /\ checked' = conf /\ request' = request
      BY <1>1, <2>2 DEF handle_parse, Reject, End
    <3>. QED
      BY <3>1 DEF IInv, Passed, firewall_check
  <2>. QED
    BY <2>1, <2>2
<1>2. CASE Reconfigure \/ NoRequest \/ Throw \/ RunReturns
  BY <1>2 DEF IInv, Passed, Reconfigure, NoRequest, Throw, RunReturns, End, dialog
<1>3. CASE do_connect \/ BindAccept
  <2>1. Passed
    BY <1>3 DEF IInv, do_connect, BindAccept
  <2>. QED
    BY <1>3, <2>1 DEF IInv, Passed, do_connect, BindAccept
<1>4. ASSUME NEW e \in Ends,
             Loop(e) \/ SendPiece(e) \/ Shutdown(e) \/ Close(e)
      PROVE  IInv'
  BY <1>4 DEF IInv, Passed, Loop, Read, ReadEnd, Write, WriteLost, WriteFails,
              SendPiece, Shutdown, Close, dialog
<1>5. CASE UNCHANGED vars
  BY <1>5 DEF IInv, Passed, vars, dialog
<1>. QED
  BY <1>1, <1>2, <1>3, <1>4, <1>5 DEF Next

(* No request gets past the firewall unless a rule permits its destination,     *)
(* whatever is done to socks.conf before and after it is read.                  *)
THEOREM FirewallIsRight == Spec => []OnlyPermitted
<1>1. IInv => OnlyPermitted
  BY MatchesAgrees DEF IInv, Passed, OnlyPermitted, Permits
<1>. QED
  BY <1>1, InitInv, NextInv, PTL DEF Spec

-----------------------------------------------------------------------------
(* The relay.  Nothing is answered before the request was checked, a BIND that  *)
(* is granted is answered twice, and the loops do not run before the relay.     *)
Answers ==
    /\ stage \in {"request", "connecting"} => Len(reply) = 0
    /\ stage = "listening" => Len(reply) <= 1
NotYet == stage \in {"request", "connecting", "listening"} => \A e \in Ends : loop[e] = "off"

RInv == TypeOK /\ Answers /\ NotYet /\ DataIsConserved

(* The pieces that an end has sent.                                             *)
All(n) == [k \in 1..n |-> k]

LEMMA AllIs ==
    ASSUME NEW n \in 0..MaxSent
    PROVE  All(n) \in Pieces /\ Len(All(n)) = n /\ \A k \in 1..n : All(n)[k] = k
<1>1. n \in Nat /\ \A k \in 1..n : k \in 1..MaxSent
  BY MaxSentAssumption
<1>2. All(n) \in [1..n -> 1..MaxSent]
  BY <1>1 DEF All
<1>3. All(n) \in Pieces
  BY <1>1 DEF All, Pieces
<1>4. DOMAIN All(n) = 1..n
  BY DEF All
<1>5. Len(All(n)) = n
  BY <1>1, <1>3, <1>4, LenProperties DEF Pieces
<1>. QED
  BY <1>3, <1>5 DEF All

(* One more piece is the next number.                                           *)
LEMMA AllAppend ==
    ASSUME NEW n \in 0..MaxSent, n < MaxSent
    PROVE  n + 1 \in 1..MaxSent /\ Append(All(n), n + 1) = All(n + 1)
<1>1. n \in Nat /\ n + 1 \in 0..MaxSent /\ n + 1 \in 1..MaxSent
  BY MaxSentAssumption
<1>2. All(n) \in Pieces /\ Len(All(n)) = n /\ \A k \in 1..n : All(n)[k] = k
  BY AllIs
<1>3. All(n + 1) \in Pieces /\ Len(All(n + 1)) = n + 1 /\ \A k \in 1..(n + 1) : All(n + 1)[k] = k
  BY <1>1, AllIs
<1>4. /\ Append(All(n), n + 1) \in Pieces /\ Len(Append(All(n), n + 1)) = n + 1
      /\ \A k \in 1..n : Append(All(n), n + 1)[k] = k
      /\ Append(All(n), n + 1)[n + 1] = n + 1
  BY <1>1, <1>2, AppendProperties DEF Pieces
<1>5. \A k \in 1..(n + 1) : Append(All(n), n + 1)[k] = All(n + 1)[k]
  BY <1>1, <1>3, <1>4
<1>. QED
  BY <1>1, <1>3, <1>4, <1>5, SeqEqual DEF Pieces

(* What is a part of all that was sent is a prefix of it, then and later.       *)
LEMMA PartIsPrefix ==
    ASSUME NEW n \in 0..MaxSent, NEW g \in Pieces, NEW t \in Pieces, g \o t = All(n)
    PROVE  IsPrefix(g, All(n))
<1>1. Len(g) \in Nat /\ Len(t) \in Nat /\ Len(g) + Len(t) = n
  <2>1. Len(g) \in Nat /\ Len(t) \in Nat
    BY LenProperties DEF Pieces
  <2>2. Len(g \o t) = Len(g) + Len(t)
    BY ConcatProperties DEF Pieces
  <2>3. Len(All(n)) = n
    BY AllIs
  <2>. QED
    BY <2>1, <2>2, <2>3
<1>2. CASE Len(g) = 0
  <2>1. SubSeq(g, 1, 0) = <<>> /\ SubSeq(All(n), 1, 0) = <<>>
    BY SubSeqEmpty
  <2>. QED
    BY <1>1, <1>2, <2>1, AllIs DEF IsPrefix
<1>3. CASE Len(g) > 0
  <2>1. SubSeq(g \o t, 1, Len(g)) = SubSeq(g, 1, Len(g))
    BY <1>1, <1>3, SubSeqOfConcat1 DEF Pieces
  <2>. QED
    BY <1>1, <2>1, AllIs DEF IsPrefix
<1>. QED
  BY <1>1, <1>2, <1>3

LEMMA PrefixStays ==
    ASSUME NEW n \in 0..MaxSent, n < MaxSent, NEW g \in Pieces, IsPrefix(g, All(n))
    PROVE  IsPrefix(g, All(n + 1))
<1>1. Len(g) \in Nat /\ Len(g) <= n /\ SubSeq(g, 1, Len(g)) = SubSeq(All(n), 1, Len(g))
  BY AllIs, LenProperties DEF IsPrefix, Pieces
<1>2. n + 1 \in 0..MaxSent /\ Append(All(n), n + 1) = All(n + 1) /\ n + 1 \in 1..MaxSent
  BY AllAppend, MaxSentAssumption
<1>3. Append(All(n), n + 1) = All(n) \o <<n + 1>>
  BY <1>2, AllIs, AppendIsConcat DEF Pieces
<1>4. CASE Len(g) = 0
  BY <1>1, <1>2, <1>4, AllIs, SubSeqEmpty DEF IsPrefix
<1>5. CASE Len(g) > 0
  <2>1. <<n + 1>> \in Pieces
    BY <1>2 DEF Pieces
  <2>2. 1 \in 1..Len(All(n)) /\ Len(g) \in 1..Len(All(n)) /\ All(n) \in Pieces
    BY <1>1, <1>5, AllIs
  <2>3. SubSeq(All(n) \o <<n + 1>>, 1, Len(g)) = SubSeq(All(n), 1, Len(g))
    BY <2>1, <2>2, SubSeqOfConcat1 DEF Pieces
  <2>4. Len(All(n + 1)) = n + 1
    BY <1>2, AllIs
  <2>. QED
    BY <1>1, <1>2, <1>3, <2>3, <2>4 DEF IsPrefix
<1>. QED
  BY <1>1, <1>4, <1>5

LEMMA Associative ==
    ASSUME NEW a \in Pieces, NEW b \in Pieces, NEW c \in Pieces
    PROVE  (a \o b) \o c = a \o (b \o c)
<1> DEFINE T == Seq(1..MaxSent)
<1>1. a \in T /\ b \in T /\ c \in T
  BY DEF Pieces
<1>2. \A x, y, z \in T : (x \o y) \o z = x \o (y \o z)
  BY ConcatAssociative
<1> HIDE DEF T
<1>. QED
  BY <1>1, <1>2, Zenon

(* Part of what is on the wire is read into the empty buffer.                   *)
LEMMA ReadMoves ==
    ASSUME NEW g \in Pieces, NEW w \in Pieces, NEW k \in 1..Len(w)
    PROVE  /\ SubSeq(w, 1, k) \in Pieces /\ SubSeq(w, 1, k) # <<>>
           /\ SubSeq(w, k + 1, Len(w)) \in Pieces
           /\ g \o SubSeq(w, 1, k) \o SubSeq(w, k + 1, Len(w)) = g \o <<>> \o w
<1>1. Len(w) \in Nat /\ k \in Nat /\ \A i \in 1..Len(w) : w[i] \in 1..MaxSent
  <2>1. Len(w) \in Nat
    BY LenProperties DEF Pieces
  <2>2. ASSUME NEW i \in 1..Len(w) PROVE w[i] \in 1..MaxSent
    BY ElementOfSeq DEF Pieces
  <2>. QED
    BY <2>1, <2>2
<1>2. \A i \in 1..k : w[i] \in 1..MaxSent
  BY <1>1
<1>3. \A i \in (k + 1)..Len(w) : w[i] \in 1..MaxSent
  BY <1>1
<1>4. SubSeq(w, 1, k) \in Pieces /\ Len(SubSeq(w, 1, k)) = k
  BY <1>1, <1>2, SubSeqProperties DEF Pieces
<1>5. SubSeq(w, k + 1, Len(w)) \in Pieces
  BY <1>1, <1>3, SubSeqProperties DEF Pieces
<1>6. SubSeq(w, 1, k) # <<>>
  BY <1>1, <1>4, EmptySeq
<1>7. SubSeq(w, 1, k) \o SubSeq(w, k + 1, Len(w)) = w
  <2>1. SubSeq(w, 1, k) \o SubSeq(w, k + 1, Len(w)) = SubSeq(w, 1, Len(w))
    <3>1. w \in Seq(1..MaxSent) /\ 1 \in 1..(Len(w) + 1) /\ k \in (1 - 1)..Len(w)
      BY <1>1 DEF Pieces
    <3>2. Len(w) \in k..Len(w)
      BY <1>1
    <3>. QED
      BY <3>1, <3>2, ConcatAdjacentSubSeq, Zenon
  <2>2. SubSeq(w, 1, Len(w)) = w
    BY SubSeqFull DEF Pieces
  <2>. QED
    BY <2>1, <2>2
<1>8. g \o <<>> = g
  BY ConcatEmptySeq DEF Pieces
<1>9. (g \o SubSeq(w, 1, k)) \o SubSeq(w, k + 1, Len(w)) = g \o w
  <2>1. (g \o SubSeq(w, 1, k)) \o SubSeq(w, k + 1, Len(w))
          = g \o (SubSeq(w, 1, k) \o SubSeq(w, k + 1, Len(w)))
    BY <1>4, <1>5, Associative, Zenon
  <2>. QED
    BY <2>1, <1>7
<1>. QED
  BY <1>4, <1>5, <1>6, <1>8, <1>9

(* The first piece of the buffer is written.                                    *)
LEMMA WriteMoves ==
    ASSUME NEW g \in Pieces, NEW b \in Pieces, b # <<>>
    PROVE  /\ Head(b) \in 1..MaxSent /\ Tail(b) \in Pieces
           /\ Tail(b) # <<>> <=> Len(b) # 1
           /\ Append(g, Head(b)) \in Pieces
           /\ Append(g, Head(b)) \o Tail(b) = g \o b
<1>1. /\ Head(b) \in 1..MaxSent /\ Tail(b) \in Pieces
      /\ Len(Tail(b)) = Len(b) - 1 /\ Len(b) \in Nat
  <2>1. Len(b) \in Nat
    BY LenProperties DEF Pieces
  <2>. QED
    BY <2>1, HeadTailProperties DEF Pieces
<1>2. Tail(b) # <<>> <=> Len(b) # 1
  <2>1. Len(<<>>) = 0 /\ (Tail(b) # <<>> => Len(Tail(b)) \in Nat \ {0})
    BY <1>1, EmptySeq DEF Pieces
  <2>2. Tail(b) = <<>> <=> Len(Tail(b)) = 0
    BY <2>1
  <2>. QED
    BY <1>1, <2>2
<1>3. Append(g, Head(b)) \in Pieces /\ Append(g, Head(b)) = g \o <<Head(b)>>
  <2>1. Append(g, Head(b)) \in Pieces
    BY <1>1, AppendProperties DEF Pieces
  <2>2. Append(g, Head(b)) = g \o <<Head(b)>>
    BY <1>1, AppendIsConcat DEF Pieces
  <2>. QED
    BY <2>1, <2>2
<1>4. <<Head(b)>> \in Pieces
  BY <1>1 DEF Pieces
<1>5. <<Head(b)>> \o Tail(b) = b
  <2>1. Len(b) \in 1..Len(b) /\ 1 \in 1..Len(b)
    BY <1>1, EmptySeq DEF Pieces
  <2>2. SubSeq(b, 1, Len(b)) = <<b[1]>> \o SubSeq(b, 2, Len(b))
    BY <2>1, SubSeqRecursiveFirst DEF Pieces
  <2>3. SubSeq(b, 1, Len(b)) = b /\ Tail(b) = SubSeq(b, 2, Len(b)) /\ Head(b) = b[1]
    BY SubSeqFull, TailIsSubSeq DEF Pieces
  <2>. QED
    BY <2>2, <2>3
<1>6. (g \o <<Head(b)>>) \o Tail(b) = g \o b
  BY <1>1, <1>4, <1>5, ConcatAssociative DEF Pieces
<1>. QED
  BY <1>1, <1>2, <1>3, <1>6

(* One more piece is sent.                                                      *)
LEMMA SendMoves ==
    ASSUME NEW g \in Pieces, NEW b \in Pieces, NEW w \in Pieces, NEW x \in 1..MaxSent
    PROVE  /\ Append(w, x) \in Pieces
           /\ g \o b \o Append(w, x) = Append(g \o b \o w, x)
<1>1. <<x>> \in Pieces /\ Append(w, x) \in Pieces /\ Append(w, x) = w \o <<x>>
  BY AppendProperties, AppendIsConcat DEF Pieces
<1>2. g \o b \in Pieces /\ (g \o b) \o w \in Pieces
  BY ConcatProperties DEF Pieces
<1>3. Append((g \o b) \o w, x) = ((g \o b) \o w) \o <<x>>
  BY <1>2, AppendIsConcat DEF Pieces
<1>. QED
  BY <1>1, <1>2, <1>3, ConcatAssociative DEF Pieces

-----------------------------------------------------------------------------
(* The way of the data of one end.                                              *)
Flow(e) ==
    /\ IsPrefix(got[Peer(e)], All(sent[e]))
    /\ closed[Peer(e)] \/ got[Peer(e)] \o buffer[e] \o wire[e] = All(sent[e])

LEMMA Flows == DataIsConserved <=> \A e \in Ends : Flow(e)
BY DEF DataIsConserved, Flow, All

LEMMA FlowsThen == (\A e \in Ends : Flow(e)') => DataIsConserved'
BY DEF DataIsConserved, Flow, All

LEMMA EndsAre ==
    \A e \in Ends : /\ Peer(e) \in Ends /\ Peer(e) # e /\ Peer(Peer(e)) = e
                    /\ \A d \in Ends : d # e => d = Peer(e) /\ Peer(d) = e
BY DEF Ends, Peer

LEMMA TypesOf ==
    ASSUME TypeOK
    PROVE  \A e \in Ends :
             /\ sent[e] \in 0..MaxSent /\ got[e] \in Pieces
             /\ buffer[e] \in Pieces /\ wire[e] \in Pieces
BY DEF TypeOK

LEMMA RelayInitInv == Init => RInv
<1>. SUFFICES ASSUME Init PROVE RInv
  OBVIOUS
<1>1. <<>> \in Pieces /\ <<>> \in Seq({90, 91}) /\ Len(<<>>) = 0
  BY EmptySeq DEF Pieces
<1>2. 0 \in 0..MaxSent
  BY MaxSentAssumption
<1>3. TypeOK
  BY <1>1, <1>2 DEF Init, TypeOK, Stages
<1>4. Answers /\ NotYet
  BY <1>1 DEF Init, Answers, NotYet
<1>5. ASSUME NEW e \in Ends PROVE Flow(e)
  <2>1. got[Peer(e)] = <<>> /\ buffer[e] = <<>> /\ wire[e] = <<>> /\ sent[e] = 0
    BY EndsAre DEF Init
  <2>2. All(0) \in Pieces /\ Len(All(0)) = 0
    BY <1>2, AllIs
  <2>3. All(0) = <<>>
    BY <2>2, EmptySeq DEF Pieces
  <2>4. <<>> \o <<>> = <<>>
    BY <1>1, ConcatEmptySeq
  <2>5. IsPrefix(<<>>, All(0))
    BY <1>1, <1>2, <2>3, <2>4, PartIsPrefix
  <2>. QED
    BY <2>1, <2>3, <2>4, <2>5 DEF Flow
<1>. QED
  BY <1>3, <1>4, <1>5, Flows DEF RInv

(* A step that moves no data leaves its order alone.                            *)
LEMMA Quiet ==
    ASSUME RInv, UNCHANGED <<sent, wire, buffer, got>>,
           \A e \in Ends : closed[e] => closed'[e]
    PROVE  DataIsConserved'
BY EndsAre DEF RInv, DataIsConserved

LEMMA ReplyIs ==
    ASSUME TypeOK, NEW code \in {90, 91}, Reply(code)
    PROVE  /\ reply' \in Seq({90, 91}) /\ Len(reply) \in Nat /\ Len(reply') \in Nat
           /\ Len(reply') <= Len(reply) + 1
<1>1. reply \in Seq({90, 91}) /\ Len(reply) \in Nat
  BY LenProperties DEF TypeOK
<1>2. /\ Append(reply, code) \in Seq({90, 91}) /\ Len(Append(reply, code)) = Len(reply) + 1
  BY <1>1, AppendProperties
<1>3. reply' = reply \/ reply' = Append(reply, code)
  BY DEF Reply
<1>. QED
  BY <1>1, <1>2, <1>3

(* The dialog with the client.                                                  *)
LEMMA DialogInv ==
    ASSUME RInv,
           Reconfigure \/ handle_parse \/ NoRequest \/ do_connect \/ BindAccept \/ Throw
               \/ RunReturns
    PROVE  RInv'
<1>1. TypeOK /\ Answers /\ NotYet
  BY DEF RInv
<1>2. UNCHANGED <<request, sent, wire, buffer, got, fin, closed, reset>>
  BY DEF Reconfigure, handle_parse, NoRequest, do_connect, BindAccept, Throw, RunReturns,
         End, Reject, StartRelay, dialog, relay, ends
<1>3. conf' \in Confs /\ checked' \in Confs \cup {{}}
  BY <1>1 DEF TypeOK, Reconfigure, handle_parse, NoRequest, do_connect, BindAccept, Throw,
              RunReturns, dialog
<1>4. Len(reply) \in Nat
  BY <1>1, LenProperties DEF TypeOK
<1>5. /\ stage' \in Stages /\ reply' \in Seq({90, 91}) /\ Len(reply') <= 2
      /\ Answers'
  <2>1. CASE Reconfigure
    BY <1>1, <2>1 DEF TypeOK, Answers, Reconfigure, dialog
  <2>2. CASE NoRequest \/ Throw \/ RunReturns
    BY <1>1, <2>2 DEF TypeOK, Answers, Stages, NoRequest, Throw, RunReturns, End, dialog
  <2>3. CASE do_connect
    <3>1. stage = "connecting" /\ Len(reply) = 0
      BY <1>1, <2>3 DEF do_connect, Answers
    <3>2. stage' \in {"relay", "ended"} /\ (Reply(90) \/ Reply(91))
      BY <2>3 DEF do_connect, StartRelay, Reject, End
    <3>. QED
      BY <1>1, <3>1, <3>2, ReplyIs DEF Stages, Answers
  <2>4. CASE BindAccept
    <3>1. Len(reply) <= 1
      BY <1>1, <2>4 DEF BindAccept, Answers
    <3>2. stage' = "relay" /\ Reply(90)
      BY <2>4 DEF BindAccept, StartRelay
    <3>. QED
      BY <1>1, <1>4, <3>1, <3>2, ReplyIs DEF Stages, Answers
  <2>5. CASE handle_parse
    <3>1. stage = "request" /\ Len(reply) = 0
      BY <1>1, <2>5 DEF handle_parse, Answers
    <3>2. CASE reply' = reply /\ stage' \in {"connecting", "ended"}
      BY <1>1, <3>1, <3>2 DEF TypeOK, Stages, Answers
    <3>3. CASE (Reply(90) \/ Reply(91)) /\ stage' \in {"listening", "ended"}
      BY <1>1, <3>1, <3>3, ReplyIs DEF Stages, Answers
    <3>. QED
      BY <2>5, <3>2, <3>3 DEF handle_parse, Reject, End
  <2>. QED
    BY <2>1, <2>2, <2>3, <2>4, <2>5
<1>6. \/ loop' = loop /\ (stage' \in {"request", "connecting", "listening"}
                             => stage \in {"request", "connecting", "listening"})
      \/ /\ loop' = [e \in Ends |-> "reading"] /\ stage' = "relay"
         /\ stage \in {"connecting", "listening"}
  BY DEF Reconfigure, handle_parse, NoRequest, do_connect, BindAccept, Throw, RunReturns,
         End, Reject, StartRelay, relay
<1>7. NotYet'
  BY <1>1, <1>6 DEF NotYet
<1>8. loop' \in [Ends -> {"off", "reading", "writing", "stopped"}]
  BY <1>1, <1>6 DEF TypeOK
<1>9. \A e \in Ends : (buffer'[e] # <<>>) <=> (loop'[e] = "writing")
  <2>1. \A e \in Ends : (buffer[e] # <<>>) <=> (loop[e] = "writing")
    BY <1>1 DEF TypeOK
  <2>2. CASE loop' = loop
    BY <1>2, <2>1, <2>2
  <2>3. CASE loop' = [e \in Ends |-> "reading"] /\ stage \in {"connecting", "listening"}
    <3>1. \A e \in Ends : loop[e] = "off"
      BY <1>1, <2>3 DEF NotYet
    <3>2. \A e \in Ends : buffer[e] = <<>> /\ loop'[e] = "reading"
      BY <2>1, <2>3, <3>1
    <3>. QED
      BY <1>2, <3>2
  <2>. QED
    BY <1>6, <2>2, <2>3
<1>10. TypeOK'
  BY <1>1, <1>2, <1>3, <1>5, <1>8, <1>9 DEF TypeOK
<1>. QED
  BY <1>2, <1>5, <1>7, <1>10, Quiet DEF RInv

-----------------------------------------------------------------------------
(* What a step of the relay or of an end has to show.                           *)
LEMMA Frame ==
    ASSUME RInv, UNCHANGED <<conf, stage, dialog>>,
           sent' \in [Ends -> 0..MaxSent],
           wire' \in [Ends -> Pieces], buffer' \in [Ends -> Pieces], got' \in [Ends -> Pieces],
           loop' \in [Ends -> {"off", "reading", "writing", "stopped"}],
           loop' = loop \/ stage = "relay",
           \A e \in Ends : (buffer'[e] # <<>>) <=> (loop'[e] = "writing"),
           fin' \in [Ends -> BOOLEAN], closed' \in [Ends -> BOOLEAN],
           reset' \in [Ends -> BOOLEAN],
           \A e \in Ends : (reset'[e] => closed'[e]) /\ (closed'[e] => fin'[e]),
           DataIsConserved'
    PROVE  RInv'
<1>1. UNCHANGED <<request, checked, reply>>
  BY DEF dialog
<1>2. TypeOK'
  BY <1>1 DEF RInv, TypeOK
<1>3. Answers' /\ NotYet'
  BY <1>1 DEF RInv, Answers, NotYet
<1>. QED
  BY <1>2, <1>3 DEF RInv

LEMMA ReadInv ==
    ASSUME RInv, NEW e \in Ends, Read(e)
    PROVE  RInv'
<1> USE DEF TypeOK
<1>1. TypeOK /\ \A d \in Ends : Flow(d)
  BY Flows DEF RInv
<1>2. PICK k \in 1..Len(wire[e]) :
        /\ buffer' = [buffer EXCEPT ![e] = SubSeq(wire[e], 1, k)]
        /\ wire' = [wire EXCEPT ![e] = SubSeq(wire[e], k + 1, Len(wire[e]))]
  BY DEF Read
<1>3. /\ stage = "relay" /\ loop[e] = "reading" /\ loop' = [loop EXCEPT ![e] = "writing"]
      /\ UNCHANGED <<conf, stage, dialog, sent, got, ends>>
  BY DEF Read
<1>4. wire[e] \in Pieces /\ got[Peer(e)] \in Pieces /\ buffer[e] = <<>>
  BY <1>1, <1>3, EndsAre
<1>5. /\ SubSeq(wire[e], 1, k) \in Pieces /\ SubSeq(wire[e], 1, k) # <<>>
      /\ SubSeq(wire[e], k + 1, Len(wire[e])) \in Pieces
      /\ got[Peer(e)] \o SubSeq(wire[e], 1, k) \o SubSeq(wire[e], k + 1, Len(wire[e]))
            = got[Peer(e)] \o buffer[e] \o wire[e]
  <2>1. wire[e] \in Pieces /\ got[Peer(e)] \in Pieces /\ k \in 1..Len(wire[e])
    BY <1>2, <1>4
  <2>. QED
    BY <1>4, <2>1, ReadMoves, Zenon
<1>6. /\ buffer' \in [Ends -> Pieces] /\ wire' \in [Ends -> Pieces]
      /\ loop' \in [Ends -> {"off", "reading", "writing", "stopped"}]
  BY <1>1, <1>2, <1>3, <1>5
<1>7. /\ buffer'[e] = SubSeq(wire[e], 1, k) /\ loop'[e] = "writing"
      /\ wire'[e] = SubSeq(wire[e], k + 1, Len(wire[e]))
      /\ \A d \in Ends : d # e => wire'[d] = wire[d] /\ buffer'[d] = buffer[d] /\ loop'[d] = loop[d]
  BY <1>1, <1>2, <1>3
<1>8. \A d \in Ends : (buffer'[d] # <<>>) <=> (loop'[d] = "writing")
  BY <1>1, <1>5, <1>7
<1>9. ASSUME NEW d \in Ends PROVE Flow(d)'
  <2>1. CASE d = e
    <3>1. got'[Peer(e)] \o buffer'[e] \o wire'[e] = got[Peer(e)] \o buffer[e] \o wire[e]
      BY <1>3, <1>5, <1>7
    <3>2. got'[Peer(e)] = got[Peer(e)] /\ sent'[e] = sent[e] /\ closed'[Peer(e)] = closed[Peer(e)]
      BY <1>3 DEF ends
    <3>. QED
      BY <1>1, <2>1, <3>1, <3>2 DEF Flow
  <2>2. CASE d # e
    BY <1>1, <1>3, <1>7, <2>2 DEF Flow, ends
  <2>. QED
    BY <2>1, <2>2
<1>10. DataIsConserved'
  BY <1>9, FlowsThen
<1>11. UNCHANGED <<fin, closed, reset>>
  BY <1>3 DEF ends
<1>. QED
  BY <1>1, <1>3, <1>6, <1>8, <1>10, <1>11, Frame

(* A write, by what it does to the buffer.                                      *)
LEMMA WrittenIs ==
    ASSUME TypeOK, NEW e \in Ends, loop[e] = "writing", Written(e)
    PROVE  /\ buffer[e] \in Pieces /\ buffer[e] # <<>>
           /\ buffer' \in [Ends -> Pieces] /\ buffer'[e] = Tail(buffer[e])
           /\ \A d \in Ends : d # e => buffer'[d] = buffer[d]
           /\ loop' \in [Ends -> {"off", "reading", "writing", "stopped"}]
           /\ \A d \in Ends : (buffer'[d] # <<>>) <=> (loop'[d] = "writing")
<1> USE DEF TypeOK
<1>1. buffer[e] \in Pieces /\ buffer[e] # <<>>
  OBVIOUS
<1>2. Tail(buffer[e]) \in Pieces /\ (Tail(buffer[e]) # <<>> <=> Len(buffer[e]) # 1)
  BY <1>1, WriteMoves
<1>3. /\ buffer' = [buffer EXCEPT ![e] = Tail(buffer[e])]
      /\ loop' = [loop EXCEPT ![e] = IF Len(buffer[e]) = 1 THEN "reading" ELSE loop[e]]
  BY DEF Written
<1>4. /\ buffer' \in [Ends -> Pieces] /\ buffer'[e] = Tail(buffer[e])
      /\ \A d \in Ends : d # e => buffer'[d] = buffer[d]
  BY <1>2, <1>3
<1>5. /\ loop' \in [Ends -> {"off", "reading", "writing", "stopped"}]
      /\ loop'[e] = IF Len(buffer[e]) = 1 THEN "reading" ELSE "writing"
      /\ \A d \in Ends : d # e => loop'[d] = loop[d]
  BY <1>3
<1>6. ASSUME NEW d \in Ends PROVE (buffer'[d] # <<>>) <=> (loop'[d] = "writing")
  <2>1. CASE d = e
    BY <1>2, <1>4, <1>5, <2>1
  <2>2. CASE d # e
    BY <1>4, <1>5, <2>2
  <2>. QED
    BY <2>1, <2>2
<1>. QED
  BY <1>1, <1>4, <1>5, <1>6

LEMMA WriteInv ==
    ASSUME RInv, NEW e \in Ends, Write(e)
    PROVE  RInv'
<1>1. TypeOK /\ \A d \in Ends : Flow(d)
  BY Flows DEF RInv
<1>2. /\ stage = "relay" /\ loop[e] = "writing" /\ ~closed[Peer(e)] /\ Written(e)
      /\ got' = [got EXCEPT ![Peer(e)] = Append(got[Peer(e)], Head(buffer[e]))]
      /\ UNCHANGED <<conf, stage, dialog, sent, wire, fin, closed, reset>>
  BY DEF Write, ends
<1>3. /\ buffer[e] \in Pieces /\ buffer[e] # <<>>
      /\ buffer' \in [Ends -> Pieces] /\ buffer'[e] = Tail(buffer[e])
      /\ \A d \in Ends : d # e => buffer'[d] = buffer[d]
      /\ loop' \in [Ends -> {"off", "reading", "writing", "stopped"}]
      /\ \A d \in Ends : (buffer'[d] # <<>>) <=> (loop'[d] = "writing")
  BY <1>1, <1>2, WrittenIs
<1>4. got[Peer(e)] \in Pieces /\ Peer(e) \in Ends /\ got \in [Ends -> Pieces]
  BY <1>1, EndsAre DEF TypeOK
<1>5. /\ Append(got[Peer(e)], Head(buffer[e])) \in Pieces /\ Tail(buffer[e]) \in Pieces
      /\ Append(got[Peer(e)], Head(buffer[e])) \o Tail(buffer[e]) = got[Peer(e)] \o buffer[e]
  BY <1>3, <1>4, WriteMoves
<1>6. /\ got' \in [Ends -> Pieces]
      /\ got'[Peer(e)] = Append(got[Peer(e)], Head(buffer[e]))
      /\ \A d \in Ends : d # Peer(e) => got'[d] = got[d]
  BY <1>2, <1>4, <1>5
<1>7. ASSUME NEW d \in Ends PROVE Flow(d)'
  <2>1. CASE d = e
    <3>1. got[Peer(e)] \o buffer[e] \o wire[e] = All(sent[e])
      BY <1>1, <1>2 DEF Flow
    <3>2. got'[Peer(e)] \o buffer'[e] \o wire[e] = All(sent[e])
      BY <1>3, <1>5, <1>6, <3>1
    <3>3. /\ sent[e] \in 0..MaxSent /\ wire[e] \in Pieces /\ buffer'[e] \in Pieces
          /\ got'[Peer(e)] \in Pieces
      BY <1>1, <1>3, <1>5, <1>6, TypesOf
    <3>4. /\ buffer'[e] \o wire[e] \in Pieces
          /\ got'[Peer(e)] \o (buffer'[e] \o wire[e]) = All(sent[e])
      <4>1. buffer'[e] \o wire[e] \in Pieces
        BY <3>3, ConcatProperties DEF Pieces
      <4>2. (got'[Peer(e)] \o buffer'[e]) \o wire[e] = got'[Peer(e)] \o (buffer'[e] \o wire[e])
        BY <3>3, Associative
      <4>. QED
        BY <3>2, <4>1, <4>2
    <3>5. IsPrefix(got'[Peer(e)], All(sent[e]))
      BY <3>3, <3>4, PartIsPrefix
    <3>. QED
      BY <1>2, <2>1, <3>2, <3>5 DEF Flow
  <2>2. CASE d # e
    <3>1. Peer(d) # Peer(e) /\ Peer(d) \in Ends
      BY <2>2, EndsAre
    <3>2. got'[Peer(d)] = got[Peer(d)] /\ buffer'[d] = buffer[d]
      BY <1>3, <1>6, <2>2, <3>1
    <3>. QED
      BY <1>1, <1>2, <3>2 DEF Flow
  <2>. QED
    BY <2>1, <2>2
<1>8. DataIsConserved'
  BY <1>7, FlowsThen
<1>. QED
  BY <1>1, <1>2, <1>3, <1>6, <1>8, Frame DEF TypeOK

(* What is written to a socket that was closed is lost, and this direction ends.*)
LEMMA LostInv ==
    ASSUME RInv, NEW e \in Ends, WriteLost(e) \/ WriteFails(e)
    PROVE  RInv'
<1>1. TypeOK /\ \A d \in Ends : Flow(d)
  BY Flows DEF RInv
<1>2. /\ stage = "relay" /\ loop[e] = "writing" /\ closed[Peer(e)]
      /\ UNCHANGED <<conf, stage, dialog, sent, wire, got, fin, closed>>
  BY <1>1, EndsAre DEF WriteLost, WriteFails, ends, TypeOK
<1>3. /\ buffer' \in [Ends -> Pieces]
      /\ \A d \in Ends : d # e => buffer'[d] = buffer[d]
      /\ loop' \in [Ends -> {"off", "reading", "writing", "stopped"}]
      /\ \A d \in Ends : (buffer'[d] # <<>>) <=> (loop'[d] = "writing")
  <2>1. CASE WriteLost(e)
    BY <1>1, <1>2, <2>1, WrittenIs DEF WriteLost
  <2>2. CASE WriteFails(e)
    <3>1. <<>> \in Pieces
      BY EmptySeq DEF Pieces
    <3>2. buffer' = [buffer EXCEPT ![e] = <<>>] /\ loop' = [loop EXCEPT ![e] = "stopped"]
      BY <2>2 DEF WriteFails
    <3>. QED
      BY <1>1, <3>1, <3>2 DEF TypeOK
  <2>. QED
    BY <2>1, <2>2
<1>4. /\ reset' \in [Ends -> BOOLEAN]
      /\ \A d \in Ends : reset'[d] => reset[d] \/ d = Peer(e)
  BY <1>1 DEF WriteLost, WriteFails, ends, TypeOK
<1>5. \A d \in Ends : (reset'[d] => closed'[d]) /\ (closed'[d] => fin'[d])
  BY <1>1, <1>2, <1>4 DEF TypeOK
<1>6. DataIsConserved'
  <2>1. ASSUME NEW d \in Ends PROVE Flow(d)'
    <3>1. CASE d = e
      BY <1>1, <1>2, <3>1 DEF Flow
    <3>2. CASE d # e
      BY <1>1, <1>2, <1>3, <3>2 DEF Flow
    <3>. QED
      BY <3>1, <3>2
  <2>. QED
    BY <2>1, FlowsThen
<1>. QED
  BY <1>1, <1>2, <1>3, <1>4, <1>5, <1>6, Frame DEF TypeOK

LEMMA ReadEndInv ==
    ASSUME RInv, NEW e \in Ends, ReadEnd(e)
    PROVE  RInv'
<1>1. TypeOK
  BY DEF RInv
<1>2. /\ stage = "relay" /\ loop[e] = "reading" /\ loop' = [loop EXCEPT ![e] = "stopped"]
      /\ UNCHANGED <<conf, stage, dialog, sent, wire, buffer, got, fin, closed, reset>>
  BY DEF ReadEnd, ends
<1>3. /\ loop' \in [Ends -> {"off", "reading", "writing", "stopped"}]
      /\ \A d \in Ends : (buffer'[d] # <<>>) <=> (loop'[d] = "writing")
  BY <1>1, <1>2 DEF TypeOK
<1>4. DataIsConserved'
  BY <1>2, Quiet
<1>. QED
  BY <1>1, <1>2, <1>3, <1>4, Frame DEF TypeOK

LEMMA SendInv ==
    ASSUME RInv, NEW e \in Ends, SendPiece(e)
    PROVE  RInv'
<1>1. TypeOK /\ \A d \in Ends : Flow(d)
  BY Flows DEF RInv
<1>2. /\ sent[e] < MaxSent
      /\ sent' = [sent EXCEPT ![e] = sent[e] + 1]
      /\ wire' = [wire EXCEPT ![e] = Append(wire[e], sent[e] + 1)]
      /\ UNCHANGED <<conf, stage, dialog, buffer, loop, got, fin, closed, reset>>
  BY DEF SendPiece, ends
<1>3. /\ sent[e] \in 0..MaxSent /\ wire[e] \in Pieces /\ buffer[e] \in Pieces
      /\ got[Peer(e)] \in Pieces
  BY <1>1, EndsAre, TypesOf
<1>4. /\ sent[e] + 1 \in 1..MaxSent /\ sent[e] + 1 \in 0..MaxSent
      /\ Append(All(sent[e]), sent[e] + 1) = All(sent[e] + 1)
  BY <1>2, <1>3, AllAppend, MaxSentAssumption
<1>5. /\ Append(wire[e], sent[e] + 1) \in Pieces
      /\ got[Peer(e)] \o buffer[e] \o Append(wire[e], sent[e] + 1)
            = Append(got[Peer(e)] \o buffer[e] \o wire[e], sent[e] + 1)
  BY <1>3, <1>4, SendMoves
<1>6. /\ sent' \in [Ends -> 0..MaxSent] /\ wire' \in [Ends -> Pieces]
      /\ sent'[e] = sent[e] + 1 /\ wire'[e] = Append(wire[e], sent[e] + 1)
      /\ \A d \in Ends : d # e => sent'[d] = sent[d] /\ wire'[d] = wire[d]
  BY <1>1, <1>2, <1>4, <1>5 DEF TypeOK
<1>7. ASSUME NEW d \in Ends PROVE Flow(d)'
  <2>1. CASE d = e
    <3>1. IsPrefix(got[Peer(e)], All(sent[e] + 1))
      BY <1>1, <1>2, <1>3, PrefixStays DEF Flow
    <3>2. closed[Peer(e)] \/ got[Peer(e)] \o buffer[e] \o wire'[e] = All(sent[e] + 1)
      BY <1>1, <1>4, <1>5, <1>6 DEF Flow
    <3>. QED
      BY <1>2, <1>6, <2>1, <3>1, <3>2 DEF Flow
  <2>2. CASE d # e
    BY <1>1, <1>2, <1>6, <2>2 DEF Flow
  <2>. QED
    BY <2>1, <2>2
<1>8. DataIsConserved'
  BY <1>7, FlowsThen
<1>. QED
  BY <1>1, <1>2, <1>6, <1>8, Frame DEF TypeOK

LEMMA FinishInv ==
    ASSUME RInv, NEW e \in Ends, Shutdown(e) \/ Close(e)
    PROVE  RInv'
<1>1. TypeOK
  BY DEF RInv
<1>2. UNCHANGED <<conf, stage, dialog, sent, wire, buffer, loop, got>>
  BY DEF Shutdown, Close, relay
<1>3. /\ fin' = [fin EXCEPT ![e] = TRUE]
      /\ \/ closed' = closed /\ reset' = reset
         \/ closed' = [closed EXCEPT ![e] = TRUE] /\ \E r \in BOOLEAN : reset' = [reset EXCEPT ![e] = r]
  BY DEF Shutdown, Close
<1>4. /\ fin' \in [Ends -> BOOLEAN] /\ closed' \in [Ends -> BOOLEAN] /\ reset' \in [Ends -> BOOLEAN]
  BY <1>1, <1>3 DEF TypeOK
<1>5. \A d \in Ends : (reset'[d] => closed'[d]) /\ (closed'[d] => fin'[d])
  BY <1>1, <1>3, Zenon DEF TypeOK
<1>6. \A d \in Ends : closed[d] => closed'[d]
  BY <1>1, <1>3, Zenon DEF TypeOK
<1>7. DataIsConserved'
  BY <1>2, <1>6, Quiet
<1>. QED
  BY <1>1, <1>2, <1>4, <1>5, <1>7, Frame DEF TypeOK

LEMMA RelayNextInv == RInv /\ [Next]_vars => RInv'
<1>. SUFFICES ASSUME RInv, [Next]_vars PROVE RInv'
  OBVIOUS
<1>1. CASE Reconfigure \/ handle_parse \/ NoRequest \/ do_connect \/ BindAccept \/ Throw
               \/ RunReturns
  BY <1>1, DialogInv
<1>2. ASSUME NEW e \in Ends, Loop(e) \/ SendPiece(e) \/ Shutdown(e) \/ Close(e)
      PROVE  RInv'
  BY <1>2, ReadInv, ReadEndInv, WriteInv, LostInv, SendInv, FinishInv DEF Loop
<1>3. CASE UNCHANGED vars
  <2>1. UNCHANGED <<conf, stage, dialog, sent, wire, buffer, loop, got, fin, closed, reset>>
    BY <1>3 DEF vars, relay, ends
  <2>2. DataIsConserved'
    BY <2>1, Quiet
  <2>3. TypeOK
    BY DEF RInv
  <2>. QED
    BY <2>1, <2>2, <2>3, Frame DEF TypeOK
<1>. QED
  BY <1>1, <1>2, <1>3 DEF Next

(* The loops of the relay write exactly while they have something in their      *)
(* buffer, and a client gets at most two replies, whatever its request is.      *)
THEOREM SessionTypes == Spec => []TypeOK
<1>1. RInv => TypeOK
  BY DEF RInv
<1>. QED
  BY <1>1, RelayInitInv, RelayNextInv, PTL DEF Spec

(* The relay neither loses, repeats nor reorders data, for any amount of them   *)
(* and however the reads and the writes of the two directions interleave: as    *)
(* long as an end has its socket open, what has reached it, what is in the      *)
(* buffer and what is on the wire is what the other end has sent.               *)
THEOREM RelayIsFaithful == Spec => []DataIsConserved
<1>1. RInv => DataIsConserved
  BY DEF RInv
<1>. QED
  BY <1>1, RelayInitInv, RelayNextInv, PTL DEF Spec
-----------------------------------------------------------------------------
(* What one direction still has to do: a piece on the wire is read and written, *)
(* a piece in the buffer is written, and a read that is under way returns.      *)
Reads(e) == IF loop[e] = "reading" THEN 1 ELSE 0
Cost(w, b, r) == 3 * w + 2 * b + r
Work(e) == Cost(Len(wire[e]), Len(buffer[e]), Reads(e))

RunsDown ==
    \A e \in Ends :
        /\ Work(e) \in Nat
        /\ Loop(e) => Work(e)' < Work(e) /\ \A d \in Ends \ {e} : Work(d)' = Work(d)
        /\ stage = "relay" /\ fin[e] => Work(e)' <= Work(e)

LEMMA Costs ==
    /\ \A w, b \in Nat, r \in 0..1 : Cost(w, b, r) \in Nat
    /\ \A w \in Nat : \A k \in 1..w : Cost(w - k, k, 0) < Cost(w, 0, 1)
    /\ \A w, b \in Nat, r \in 0..1 : b > 0 => Cost(w, b - 1, r) < Cost(w, b, 0)
    /\ \A w, b \in Nat : b > 0 => Cost(w, 0, 0) < Cost(w, b, 0)
    /\ \A w, b \in Nat : Cost(w, b, 0) < Cost(w, b, 1)
BY DEF Cost

LEMMA Lengths ==
    ASSUME TypeOK, NEW e \in Ends
    PROVE  /\ Len(wire[e]) \in Nat /\ Len(buffer[e]) \in Nat
           /\ loop[e] = "writing" => Len(buffer[e]) > 0
           /\ loop[e] # "writing" => Len(buffer[e]) = 0
           /\ Reads(e) \in 0..1 /\ Work(e) \in Nat
<1>1. wire[e] \in Pieces /\ buffer[e] \in Pieces
  BY DEF TypeOK
<1>2. Len(wire[e]) \in Nat /\ Len(buffer[e]) \in Nat
  BY <1>1, LenProperties DEF Pieces
<1>3. Len(buffer[e]) = 0 <=> buffer[e] = <<>>
  BY <1>1, EmptySeq DEF Pieces
<1>4. Reads(e) \in 0..1
  BY DEF Reads
<1>5. Work(e) \in Nat
  BY <1>2, <1>4, Costs DEF Work
<1>. QED
  BY <1>2, <1>3, <1>4, <1>5 DEF TypeOK

(* A read moves pieces from the wire to the buffer.                             *)
LEMMA ReadWork ==
    ASSUME TypeOK, NEW e \in Ends, Read(e)
    PROVE  Work(e)' < Work(e)
<1>1. PICK k \in 1..Len(wire[e]) :
        /\ buffer' = [buffer EXCEPT ![e] = SubSeq(wire[e], 1, k)]
        /\ wire' = [wire EXCEPT ![e] = SubSeq(wire[e], k + 1, Len(wire[e]))]
  BY DEF Read
<1>2. loop[e] = "reading" /\ loop' = [loop EXCEPT ![e] = "writing"]
  BY DEF Read
<1>3. wire[e] \in Pieces
  BY DEF TypeOK
<1>4. Len(wire[e]) \in Nat /\ Len(buffer[e]) = 0 /\ k \in Nat /\ k >= 1 /\ k <= Len(wire[e])
  BY <1>2, Lengths
<1>5. /\ buffer'[e] = SubSeq(wire[e], 1, k) /\ loop'[e] = "writing"
      /\ wire'[e] = SubSeq(wire[e], k + 1, Len(wire[e]))
  BY <1>1, <1>2 DEF TypeOK
<1>6. \A i \in 1..Len(wire[e]) : wire[e][i] \in 1..MaxSent
  BY <1>3, ElementOfSeq DEF Pieces
<1>7. Len(buffer'[e]) = k
  <2>1. \A i \in 1..k : wire[e][i] \in 1..MaxSent
    BY <1>4, <1>6
  <2>. QED
    BY <1>4, <1>5, <2>1, SubSeqProperties
<1>8. Len(wire'[e]) = Len(wire[e]) - k
  <2>1. \A i \in (k + 1)..Len(wire[e]) : wire[e][i] \in 1..MaxSent
    BY <1>4, <1>6
  <2>. QED
    BY <1>4, <1>5, <2>1, SubSeqProperties
<1>9. Reads(e) = 1 /\ Reads(e)' = 0
  BY <1>2, <1>5 DEF Reads
<1>. QED
  BY <1>4, <1>7, <1>8, <1>9, Costs DEF Work

(* A write takes a piece from the buffer, and may start another read.           *)
LEMMA WrittenWork ==
    ASSUME TypeOK, NEW e \in Ends, loop[e] = "writing", Written(e), wire' = wire
    PROVE  Work(e)' < Work(e)
<1>1. buffer[e] \in Pieces /\ buffer[e] # <<>> /\ buffer'[e] = Tail(buffer[e])
  BY WrittenIs
<1>2. Len(buffer'[e]) = Len(buffer[e]) - 1
  BY <1>1, HeadTailProperties DEF Pieces
<1>3. Len(wire[e]) \in Nat /\ Len(buffer[e]) \in Nat /\ Len(buffer[e]) > 0
  BY Lengths
<1>4. Reads(e) = 0 /\ Reads(e)' \in 0..1
  BY DEF Reads
<1>. QED
  BY <1>2, <1>3, <1>4, Costs DEF Work

(* A write that fails drops the buffer.                                         *)
LEMMA FailsWork ==
    ASSUME TypeOK, NEW e \in Ends, WriteFails(e)
    PROVE  Work(e)' < Work(e)
<1>1. loop[e] = "writing" /\ wire' = wire /\ buffer'[e] = <<>> /\ loop'[e] = "stopped"
  BY DEF WriteFails, TypeOK
<1>2. Len(wire[e]) \in Nat /\ Len(buffer[e]) \in Nat /\ Len(buffer[e]) > 0
  BY <1>1, Lengths
<1>3. Len(buffer'[e]) = 0
  BY <1>1, EmptySeq
<1>4. Reads(e) = 0 /\ Reads(e)' = 0
  BY <1>1 DEF Reads
<1>. QED
  BY <1>1, <1>2, <1>3, <1>4, Costs DEF Work

LEMMA ReadEndWork ==
    ASSUME TypeOK, NEW e \in Ends, ReadEnd(e)
    PROVE  Work(e)' < Work(e)
<1>1. loop[e] = "reading" /\ wire' = wire /\ buffer' = buffer /\ loop'[e] = "stopped"
  BY DEF ReadEnd, TypeOK
<1>2. Len(wire[e]) \in Nat /\ Len(buffer[e]) \in Nat
  BY Lengths
<1>3. Reads(e) = 1 /\ Reads(e)' = 0
  BY <1>1 DEF Reads
<1>. QED
  BY <1>1, <1>2, <1>3, Costs DEF Work

(* A step of one direction brings it closer to its end and is none of the other.*)
LEMMA LoopWork ==
    ASSUME TypeOK, NEW e \in Ends, Loop(e)
    PROVE  Work(e)' < Work(e) /\ \A d \in Ends \ {e} : Work(d)' = Work(d)
<1>1. Work(e)' < Work(e)
  BY ReadWork, WrittenWork, FailsWork, ReadEndWork DEF Loop, Write, WriteLost
<1>2. ASSUME NEW d \in Ends \ {e} PROVE Work(d)' = Work(d)
  <2>1. wire'[d] = wire[d] /\ buffer'[d] = buffer[d] /\ loop'[d] = loop[d]
    BY DEF Loop, Read, ReadEnd, Write, WriteLost, WriteFails, Written, TypeOK
  <2>. QED
    BY <2>1 DEF Work, Reads
<1>. QED
  BY <1>1, <1>2

LEMMA WorkThen ==
    ASSUME TypeOK', NEW e \in Ends
    PROVE  Work(e)' \in Nat
<1>1. wire'[e] \in Pieces /\ buffer'[e] \in Pieces
  BY DEF TypeOK
<1>2. Len(wire'[e]) \in Nat /\ Len(buffer'[e]) \in Nat
  BY <1>1, LenProperties DEF Pieces
<1>3. Reads(e)' \in 0..1
  BY DEF Reads
<1>. QED
  BY <1>2, <1>3, Costs DEF Work

(* Nobody adds to the work of a direction whose end has finished.               *)
LEMMA FinishedWork ==
    ASSUME TypeOK, TypeOK', [Next]_vars, NEW e \in Ends, stage = "relay", fin[e]
    PROVE  Work(e)' <= Work(e)
<1>1. Work(e) \in Nat
  BY Lengths
<1>2. CASE \E d \in Ends : Loop(d)
  <2>1. PICK d \in Ends : Loop(d)
    BY <1>2
  <2>2. CASE d = e
    <3>1. Work(e)' < Work(e)
      BY <2>1, <2>2, LoopWork
    <3>2. Work(e)' \in Nat
      BY WorkThen
    <3>. QED
      BY <1>1, <3>1, <3>2
  <2>3. CASE d # e
    BY <1>1, <2>1, <2>3, LoopWork
  <2>. QED
    BY <2>2, <2>3
<1>3. CASE \E d \in Ends : SendPiece(d)
  <2>1. wire'[e] = wire[e] /\ buffer' = buffer /\ loop' = loop
    BY <1>3 DEF SendPiece, TypeOK
  <2>. QED
    BY <1>1, <2>1 DEF Work, Reads
<1>4. CASE UNCHANGED <<wire, buffer, loop>>
  BY <1>1, <1>4 DEF Work, Reads
<1>5. CASE \E d \in Ends : Shutdown(d) \/ Close(d)
  BY <1>4, <1>5 DEF Shutdown, Close, relay
<1>6. CASE Reconfigure \/ handle_parse \/ NoRequest \/ do_connect \/ BindAccept \/ Throw
               \/ RunReturns
  BY <1>4, <1>6 DEF Reconfigure, handle_parse, NoRequest, do_connect, BindAccept, Throw,
                    RunReturns, End, relay
<1>. QED
  BY <1>2, <1>3, <1>4, <1>5, <1>6 DEF Next, vars, relay

(* "Download files larger than 1GB": a session does not go on for ever.  What   *)
(* a direction has to do is a number, each of its callbacks makes it smaller    *)
(* without giving the other direction anything to do, and when its end has      *)
(* finished sending nothing makes it larger: after at most that many callbacks  *)
(* the loop has stopped.                                                        *)
THEOREM RelayRunsDown == Spec => [][RunsDown]_vars
<1>1. TypeOK /\ TypeOK' /\ [Next]_vars => [RunsDown]_vars
  BY LoopWork, FinishedWork, Lengths DEF RunsDown
<1>. QED
  BY <1>1, SessionTypes, PTL DEF Spec
-----------------------------------------------------------------------------
(* A loop stops because its end has finished and everything has been written,   *)
(* or for an error.                                                             *)
Delivered(e) == fin[e] /\ got[Peer(e)] = All(sent[e])
StoppedIsDone ==
    \A e \in Ends : loop[e] = "stopped" => reset[e] \/ closed[Peer(e)] \/ Delivered(e)

DInv == RInv /\ StoppedIsDone

(* What is true of a direction that has stopped stays so.                       *)
LEMMA StaysDone ==
    ASSUME TypeOK, StoppedIsDone, NEW e \in Ends,
           loop'[e] = "stopped" => loop[e] = "stopped",
           closed[Peer(e)] => closed'[Peer(e)], reset[e] => reset'[e], fin[e] => fin'[e],
           fin[e] => sent'[e] = sent[e],
           got'[Peer(e)] = got[Peer(e)] \/ loop[e] # "stopped"
    PROVE  loop'[e] = "stopped" => reset'[e] \/ closed'[Peer(e)] \/ Delivered(e)'
BY DEF StoppedIsDone, Delivered

(* Nothing takes back that an end has finished, closed or reset.                *)
LEMMA Final ==
    ASSUME TypeOK, [Next]_vars, NEW e \in Ends
    PROVE  /\ fin[e] => fin'[e]
           /\ closed[e] => closed'[e]
           /\ reset[e] => reset'[e]
           /\ fin[e] => sent'[e] = sent[e]
<1>1. reset[e] => closed[e]
  BY DEF TypeOK
<1>2. CASE Reconfigure \/ handle_parse \/ NoRequest \/ do_connect \/ BindAccept \/ Throw
               \/ RunReturns \/ UNCHANGED vars
  BY <1>2 DEF Reconfigure, handle_parse, NoRequest, do_connect, BindAccept, Throw, RunReturns,
              End, Reject, StartRelay, relay, ends, vars
<1>3. ASSUME NEW d \in Ends, Read(d) \/ ReadEnd(d) \/ Write(d) \/ WriteFails(d)
      PROVE  UNCHANGED <<sent, fin, closed, reset>>
  BY <1>3 DEF Read, ReadEnd, Write, WriteFails, ends
<1>4. ASSUME NEW d \in Ends, WriteLost(d)
      PROVE  UNCHANGED <<sent, fin, closed>> /\ (reset[e] => reset'[e])
  BY <1>4, Zenon DEF WriteLost, TypeOK
<1>5. ASSUME NEW d \in Ends, SendPiece(d)
      PROVE  UNCHANGED <<fin, closed, reset>> /\ (fin[e] => sent'[e] = sent[e])
  BY <1>5 DEF SendPiece, ends, TypeOK
<1>6. ASSUME NEW d \in Ends, Shutdown(d)
      PROVE  UNCHANGED <<sent, closed, reset>> /\ (fin[e] => fin'[e])
  <2>1. UNCHANGED <<sent, closed, reset>> /\ fin' = [fin EXCEPT ![d] = TRUE]
    BY <1>6 DEF Shutdown, relay
  <2>. QED
    BY <2>1, Zenon DEF TypeOK
<1>7. ASSUME NEW d \in Ends, Close(d)
      PROVE  sent' = sent /\ (fin[e] => fin'[e]) /\ (closed[e] => closed'[e])
             /\ (reset[e] => reset'[e])
  <2>1. /\ sent' = sent /\ ~closed[d]
        /\ fin' = [fin EXCEPT ![d] = TRUE] /\ closed' = [closed EXCEPT ![d] = TRUE]
        /\ \E r \in BOOLEAN : reset' = [reset EXCEPT ![d] = r]
    BY <1>7 DEF Close, Talks, relay
  <2>2. (fin[e] => fin'[e]) /\ (closed[e] => closed'[e])
    BY <2>1, Zenon DEF TypeOK
  <2>3. reset[e] => e # d
    BY <1>1, <2>1
  <2>4. reset[e] => reset'[e]
    BY <2>1, <2>3, Zenon DEF TypeOK
  <2>. QED
    BY <2>1, <2>2, <2>4
<1>. QED
  BY <1>2, <1>3, <1>4, <1>5, <1>6, <1>7 DEF Next, Loop

LEMMA StoppedInitInv == Init => DInv
BY RelayInitInv DEF Init, DInv, StoppedIsDone

LEMMA StoppedNextInv == DInv /\ [Next]_vars => DInv'
<1>. SUFFICES ASSUME DInv, [Next]_vars PROVE DInv'
  OBVIOUS
<1>1. RInv /\ TypeOK /\ StoppedIsDone /\ RInv'
  BY RelayNextInv DEF DInv, RInv
<1>2. ASSUME NEW e \in Ends
      PROVE  /\ fin[e] => fin'[e] /\ sent'[e] = sent[e]
             /\ closed[Peer(e)] => closed'[Peer(e)]
             /\ reset[e] => reset'[e]
  BY <1>1, Final, EndsAre
<1>. SUFFICES ASSUME NEW e \in Ends, loop'[e] = "stopped"
              PROVE  reset'[e] \/ closed'[Peer(e)] \/ Delivered(e)'
  BY <1>1 DEF DInv, StoppedIsDone
<1>3. CASE loop[e] # "stopped"
  <2>1. ReadEnd(e) \/ WriteFails(e)
    <3>1. ASSUME NEW d \in Ends, Read(d) \/ Write(d) \/ WriteLost(d)
          PROVE  FALSE
      BY <1>1, <1>3, <3>1 DEF Read, Write, WriteLost, Written, TypeOK
    <3>2. ASSUME NEW d \in Ends, SendPiece(d) \/ Shutdown(d) \/ Close(d)
          PROVE  FALSE
      BY <1>3, <3>2 DEF SendPiece, Shutdown, Close, relay
    <3>3. CASE Reconfigure \/ handle_parse \/ NoRequest \/ do_connect \/ BindAccept \/ Throw
                   \/ RunReturns \/ UNCHANGED vars
      BY <1>3, <3>3 DEF Reconfigure, handle_parse, NoRequest, do_connect, BindAccept, Throw,
                        RunReturns, End, Reject, StartRelay, relay, vars
    <3>4. ASSUME NEW d \in Ends, ReadEnd(d) \/ WriteFails(d)
          PROVE  d = e
      BY <1>1, <1>3, <3>4 DEF ReadEnd, WriteFails, TypeOK
    <3>. QED
      BY <3>1, <3>2, <3>3, <3>4 DEF Next, Loop
  <2>2. CASE WriteFails(e)
    <3>1. reset[Peer(e)] /\ closed' = closed
      BY <2>2 DEF WriteFails, ends
    <3>. QED
      BY <1>1, <3>1, EndsAre DEF TypeOK
  <2>3. CASE ReadEnd(e) /\ ~reset[e]
    <3>1. /\ fin[e] /\ wire[e] = <<>> /\ loop[e] = "reading"
          /\ UNCHANGED <<sent, got, fin, closed>>
      BY <2>3 DEF ReadEnd, ends
    <3>2. buffer[e] = <<>> /\ got[Peer(e)] \in Pieces
      BY <1>1, <3>1, EndsAre DEF TypeOK
    <3>3. closed[Peer(e)] \/ got[Peer(e)] \o buffer[e] \o wire[e] = All(sent[e])
      BY <1>1, Flows DEF RInv, Flow
    <3>4. got[Peer(e)] \o buffer[e] \o wire[e] = got[Peer(e)]
      BY <3>1, <3>2, ConcatEmptySeq DEF Pieces
    <3>. QED
      BY <3>1, <3>3, <3>4 DEF Delivered
  <2>4. CASE ReadEnd(e) /\ reset[e]
    BY <1>2, <2>4
  <2>. QED
    BY <2>1, <2>2, <2>3, <2>4
<1>4. CASE loop[e] = "stopped"
  <2>1. got'[Peer(e)] = got[Peer(e)]
    <3>1. ASSUME NEW d \in Ends, Write(d)
          PROVE  got'[Peer(e)] = got[Peer(e)]
      <4>1. d # e
        BY <1>4, <3>1 DEF Write
      <4>2. Peer(d) # Peer(e)
        BY <4>1, EndsAre
      <4>. QED
        BY <1>1, <3>1, <4>2, EndsAre DEF Write, TypeOK
    <3>2. ASSUME NEW d \in Ends, Read(d) \/ ReadEnd(d) \/ WriteLost(d) \/ WriteFails(d)
                     \/ SendPiece(d) \/ Shutdown(d) \/ Close(d)
          PROVE  got' = got
      BY <3>2 DEF Read, ReadEnd, WriteLost, WriteFails, SendPiece, Shutdown, Close, relay
    <3>3. CASE Reconfigure \/ handle_parse \/ NoRequest \/ do_connect \/ BindAccept \/ Throw
                   \/ RunReturns \/ UNCHANGED vars
      BY <3>3 DEF Reconfigure, handle_parse, NoRequest, do_connect, BindAccept, Throw,
                  RunReturns, End, Reject, StartRelay, relay, vars
    <3>. QED
      BY <3>1, <3>2, <3>3 DEF Next, Loop
  <2>. QED
    BY <1>1, <1>2, <1>4, <2>1, StaysDone
<1>. QED
  BY <1>3, <1>4

(* A direction never stops early: when its loop has stopped, and neither is its *)
(* receiver gone nor its sender reset, the sender has finished and everything   *)
(* that it ever sent has arrived, also when the other direction ended long ago. *)
THEOREM StoppedMeansDelivered == Spec => []StoppedIsDone
<1>1. DInv => StoppedIsDone
  BY DEF DInv
<1>. QED
  BY <1>1, StoppedInitInv, StoppedNextInv, PTL DEF Spec
=============================================================================
