------------------------------- MODULE Mailbox -------------------------------
(* How the processes of np_multi_proc.cpp bring yells, tells and announcements  *)
(* to each other's clients.  Every user has, in shared memory, a box with a row *)
(* of slots for each sender.  A sender copies the text into the first slot of   *)
(* its row that is empty (its first byte is 0) and sends SIGUSR1; the handler   *)
(* of the receiver goes through the whole box, prints what it finds and clears  *)
(* it.  Nothing is locked, and a signal that comes while one is pending is one  *)
(* signal.                                                                      *)
(*                                                                              *)
(* broadcast copies with strncpy and the size of a slot plus one: the padding   *)
(* ends on the first byte of the next slot in memory.  tell copies with strcpy. *)
(* All users here are logged in and stay; texts are shorter than a slot.        *)
EXTENDS Integers, Sequences, FiniteSets

CONSTANTS
    Users,      \* the ids of the users: 1..30 in the code
    Senders,    \* the users that send anything: all of them, or fewer in a run
    NSlots,     \* MAX_MESSAGE_NUMBER: 9 in the code
    MaxSends    \* how many messages are sent: bounds the input

ASSUME UsersAssumption ==
    Users \subseteq Nat /\ IsFiniteSet(Users) /\ Senders \subseteq Users
ASSUME BoundsAssumption == NSlots \in Nat \ {0} /\ MaxSends \in Nat

Slots == 0..(NSlots - 1)
Cells == Users \X Slots         \* <<sender, slot>> in the box of a receiver
Messages == 1..MaxSends
NoMessage == 0

VARIABLES
    message,    \* message[r][c]: the text whose first bytes are in the cell, or 0
    whole,      \* whole[r][c]: and all of it is there
    sends,      \* what a process is sending: text, kind, receivers left, slot, step
    pending,    \* SIGUSR1 is pending for the process
    reads,      \* the cells the handler of a process has still to look at
    printing,   \* the cell the handler has printed and not cleared, or <<>>
    sent,       \* history: the kind and the receivers of every text sent so far
    printed     \* history: the texts printed to each client, in order

vars == <<message, whole, sends, pending, reads, printing, sent, printed>>

Quiet == [text |-> NoMessage, kind |-> "none", to |-> {}, slot |-> 0, step |-> "idle"]

InHandler(u) == reads[u] # {} \/ printing[u] # <<>>

\* the order of the loops of the handler, and of memory
Before(c, d) == c[1] < d[1] \/ (c[1] = d[1] /\ c[2] < d[2])
NextInMemory(c) ==
    {d \in Cells : Before(c, d) /\ ~\E e \in Cells : Before(c, e) /\ Before(e, d)}

-----------------------------------------------------------------------------
Init ==
    /\ message = [r \in Users |-> [c \in Cells |-> NoMessage]]
    /\ whole = [r \in Users |-> [c \in Cells |-> FALSE]]
    /\ sends = [u \in Users |-> Quiet]
    /\ pending = [u \in Users |-> FALSE]
    /\ reads = [u \in Users |-> {}]
    /\ printing = [u \in Users |-> <<>>]
    /\ sent = <<>>
    /\ printed = [u \in Users |-> <<>>]

handler == <<reads, printing, printed>>
box == <<message, whole>>

Send(u, kind, to) ==
    /\ sends[u].step = "idle" /\ ~InHandler(u) /\ Len(sent) < MaxSends
    /\ sent' = Append(sent, [kind |-> kind, to |-> to])
    /\ sends' = [sends EXCEPT ![u] = [text |-> Len(sent) + 1, kind |-> kind, to |-> to,
                                      slot |-> 0, step |-> "scan"]]
    /\ UNCHANGED <<box, pending, handler>>

\* the line `yell`, and name, login and logout: one user after the other
broadcast(u) == Send(u, "broadcast", Users)

\* the line `tell r`
tell(u, r) == Send(u, "tell", {r})

Receiver(u) == CHOOSE r \in sends[u].to : \A s \in sends[u].to : r <= s
Cell(u) == <<u, sends[u].slot>>

\* sender u, outside of its handler, is at a step of its loop
At(u, step) == sends[u].step = step /\ ~InHandler(u)

\* the loops go on with the next receiver
Onward(u) ==
    IF sends[u].to = {Receiver(u)} THEN Quiet
    ELSE [sends[u] EXCEPT !.to = @ \ {Receiver(u)}, !.slot = 0, !.step = "scan"]

\* Mutant of SlotTaken: the last slot of the row has a next one.
SlotTakenPast(u) ==
    /\ At(u, "scan") /\ message[Receiver(u)][Cell(u)] # NoMessage
    /\ sends' = [sends EXCEPT ![u] =
                    IF sends[u].slot + 1 \in 0..NSlots
                    THEN [sends[u] EXCEPT !.slot = sends[u].slot + 1] ELSE Onward(u)]
    /\ UNCHANGED <<box, pending, handler, sent>>

\* the slot is taken: the next one is tried; when all are taken nothing is sent
SlotTaken(u) ==
    /\ At(u, "scan") /\ message[Receiver(u)][Cell(u)] # NoMessage
    /\ sends' = [sends EXCEPT ![u] =
                    IF sends[u].slot + 1 \in Slots
                    THEN [sends[u] EXCEPT !.slot = sends[u].slot + 1] ELSE Onward(u)]
    /\ UNCHANGED <<box, pending, handler, sent>>

\* the first bytes are copied: the slot is not empty any more
CopyFirst(u) ==
    /\ At(u, "scan") /\ message[Receiver(u)][Cell(u)] = NoMessage
    /\ message' = [message EXCEPT ![Receiver(u)][Cell(u)] = sends[u].text]
    /\ whole' = [whole EXCEPT ![Receiver(u)][Cell(u)] = FALSE]
    /\ sends' = [sends EXCEPT ![u].step = "copy"]
    /\ UNCHANGED <<pending, handler, sent>>

\* the other bytes; behind a first byte that was cleared meanwhile nobody sees them
CopyRest(u) ==
    /\ At(u, "copy")
    /\ whole' = [whole EXCEPT ![Receiver(u)][Cell(u)] =
                                message[Receiver(u)][Cell(u)] # NoMessage]
    /\ sends' = [sends EXCEPT ![u].step = IF sends[u].kind = "broadcast"
                                          THEN "pad" ELSE "kill"]
    /\ UNCHANGED <<message, pending, handler, sent>>

\* strncpy: the last zero of the padding.  Behind the box lies the id of the next
\* user, a zero for 30 senders; it is left out
Pad(u) ==
    /\ At(u, "pad")
    /\ message' = [message EXCEPT ![Receiver(u)] =
                    [c \in Cells |-> IF c \in NextInMemory(Cell(u)) THEN NoMessage
                                     ELSE @[c]]]
    /\ whole' = [whole EXCEPT ![Receiver(u)] =
                    [c \in Cells |-> @[c] /\ c \notin NextInMemory(Cell(u))]]
    /\ sends' = [sends EXCEPT ![u].step = "kill"]
    /\ UNCHANGED <<pending, handler, sent>>

\* Mutant of Kill: the receiver is signalled for the first slot of the row only.
KillOnce(u) ==
    /\ At(u, "kill") /\ Receiver(u) # u
    /\ pending' = [pending EXCEPT ![Receiver(u)] = @ \/ sends[u].slot = 0]
    /\ sends' = [sends EXCEPT ![u] = Onward(u)]
    /\ UNCHANGED <<box, handler, sent>>

Kill(u) ==
    /\ At(u, "kill") /\ Receiver(u) # u
    /\ pending' = [pending EXCEPT ![Receiver(u)] = TRUE]
    /\ sends' = [sends EXCEPT ![u] = Onward(u)]
    /\ UNCHANGED <<box, handler, sent>>

\* the handler of a process that signals itself runs before kill returns
KillSelf(u) ==
    /\ At(u, "kill") /\ Receiver(u) = u
    /\ pending' = [pending EXCEPT ![u] = FALSE]
    /\ reads' = [reads EXCEPT ![u] = Cells]
    /\ sends' = [sends EXCEPT ![u] = Onward(u)]
    /\ UNCHANGED <<box, printing, sent, printed>>

-----------------------------------------------------------------------------
\* the signal is delivered; it stays blocked until the handler returns
handler_sig(u) ==
    /\ pending[u] /\ ~InHandler(u)
    /\ pending' = [pending EXCEPT ![u] = FALSE]
    /\ reads' = [reads EXCEPT ![u] = Cells]
    /\ UNCHANGED <<box, sends, printing, sent, printed>>

FirstOf(u) == CHOOSE c \in reads[u] : \A d \in reads[u] : c = d \/ Before(c, d)

PassEmpty(u) ==
    /\ reads[u] # {} /\ printing[u] = <<>>
    /\ message[u][FirstOf(u)] = NoMessage
    /\ reads' = [reads EXCEPT ![u] = @ \ {FirstOf(u)}]
    /\ UNCHANGED <<box, sends, pending, printing, sent, printed>>

\* what is there is printed, however much of the text it is
PrintCell(u) ==
    LET c == FirstOf(u) IN
    /\ reads[u] # {} /\ printing[u] = <<>> /\ message[u][c] # NoMessage
    /\ printed' = [printed EXCEPT ![u] =
                    Append(@, [text |-> message[u][c], whole |-> whole[u][c]])]
    /\ printing' = [printing EXCEPT ![u] = c]
    /\ reads' = [reads EXCEPT ![u] = @ \ {c}]
    /\ UNCHANGED <<box, sends, pending, sent>>

\* Mutant of ClearCell: the text stays in its slot.
ClearNothing(u) ==
    /\ printing[u] # <<>>
    /\ printing' = [printing EXCEPT ![u] = <<>>]
    /\ UNCHANGED <<box, sends, pending, reads, sent, printed>>

\* memset
ClearCell(u) ==
    /\ printing[u] # <<>>
    /\ message' = [message EXCEPT ![u][printing[u]] = NoMessage]
    /\ whole' = [whole EXCEPT ![u][printing[u]] = FALSE]
    /\ printing' = [printing EXCEPT ![u] = <<>>]
    /\ UNCHANGED <<sends, pending, reads, sent, printed>>

Sender(u) == 
    \/ SlotTaken(u) \/ CopyFirst(u) \/ CopyRest(u) \/ Pad(u)
    \/ Kill(u) \/ KillSelf(u)
Handler(u) == handler_sig(u) \/ PassEmpty(u) \/ PrintCell(u) \/ ClearCell(u)

Next ==
    \/ \E u \in Senders : broadcast(u) \/ \E r \in Users : tell(u, r)
    \/ \E u \in Users : Sender(u) \/ Handler(u)

Spec == Init /\ [][Next]_vars

-----------------------------------------------------------------------------
Steps == {"idle", "scan", "copy", "pad", "kill"}

(* Shapes; an empty cell is never whole, and a sender that has something to do  *)
(* has a receiver.                                                              *)
TypeOK ==
    /\ message \in [Users -> [Cells -> Messages \cup {NoMessage}]]
    /\ whole \in [Users -> [Cells -> BOOLEAN]]
    /\ sends \in [Users -> [text : Messages \cup {NoMessage}, slot : Slots,
                            kind : {"none", "broadcast", "tell"},
                            to : SUBSET Users, step : Steps]]
    /\ \A u \in Users : sends[u].to = {} <=> sends[u].step = "idle"
    /\ pending \in [Users -> BOOLEAN]
    /\ reads \in [Users -> SUBSET Cells]
    /\ printing \in [Users -> Cells \cup {<<>>}]
    /\ sent \in Seq([kind : {"broadcast", "tell"}, to : SUBSET Users])
    /\ Len(sent) <= MaxSends
    /\ printed \in [Users -> Seq([text : Messages, whole : BOOLEAN])]
    /\ \A r \in Users : \A c \in Cells : whole[r][c] => message[r][c] # NoMessage

(* No text is forgotten in a box: whatever is in a cell, a signal is pending,   *)
(* or the handler has not come to the cell or is about to clear it, or the      *)
(* sender has still to signal.  Signals may be merged and come at any moment of *)
(* the handler and of the copying.                                              *)
NoMailForgotten ==
    \A r \in Users : \A c \in Cells : message[r][c] # NoMessage =>
        \/ pending[r]
        \/ c \in reads[r] \/ printing[r] = c
        \/ /\ sends[c[1]].step \in {"copy", "pad", "kill"}
           /\ Receiver(c[1]) = r /\ sends[c[1]].slot = c[2]

(* A client never gets the same text twice (print and clear are two steps, and  *)
(* the handler may be entered again in between by nobody).                      *)
PrintedOnce ==
    \A u \in Users : \A k, l \in 1..Len(printed[u]) :
        printed[u][k].text = printed[u][l].text => k = l

(* "All the users(including yourself) will get the message": when nobody is     *)
(* sending, and nothing but yells was sent, every text was printed whole to     *)
(* every client, or waits in its box.                                           *)
Got(r, m) ==
    \/ \E k \in 1..Len(printed[r]) : printed[r][k] = [text |-> m, whole |-> TRUE]
    \/ \E c \in Cells : message[r][c] = m /\ whole[r][c]
EveryYellArrives ==
    /\ \A u \in Users : sends[u].step = "idle"
    /\ \A m \in DOMAIN sent : sent[m].kind = "broadcast"
    => \A m \in DOMAIN sent : \A r \in Users : Got(r, m)
=============================================================================
