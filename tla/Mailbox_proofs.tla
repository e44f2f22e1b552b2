--------------------------- MODULE Mailbox_proofs ---------------------------
(* The boxes for any number of users, slots and messages.  NoMailForgotten is   *)
(* inductive as it stands: whatever empties, fills or passes a cell leaves one  *)
(* of its four reasons.  PrintedOnce is not: a text must also be new to a       *)
(* receiver that it has still to be copied to (AwaitedIsNew), be in one cell of *)
(* a box at most (OneCell), and not be printed while it waits there (BoxIsNew). *)
(* The padding of strncpy disturbs none of it: it only empties cells.           *)
EXTENDS Mailbox, SequenceTheorems, WellFoundedInduction, TLAPS

First(S) == CHOOSE r \in S : \A s \in S : r <= s
SendStates == [text : Messages \cup {NoMessage}, slot : Slots,
               kind : {"none", "broadcast", "tell"}, to : SUBSET Users, step : Steps]
Prints == [text : Messages, whole : BOOLEAN]

(* The texts being sent are of lines that were typed, and of different ones.    *)
TextsAreOwn ==
    /\ \A u \in Users : sends[u].step # "idle" => sends[u].text \in 1..Len(sent)
    /\ \A u, v \in Users :
        /\ sends[u].step # "idle" /\ sends[v].step # "idle"
        /\ sends[u].text = sends[v].text
        => u = v

(* Nothing is in a box, or on a terminal, that nobody has typed.                *)
TextsWereSent ==
    \A r \in Users :
        /\ \A c \in Cells : message[r][c] <= Len(sent)
        /\ \A k \in 1..Len(printed[r]) : printed[r][k].text <= Len(sent)

InBox(r, m) == \E c \in Cells : message[r][c] = m
IsPrinted(r, m) == \E k \in 1..Len(printed[r]) : printed[r][k].text = m

(* The sender has still to copy its text into the box of r.                     *)
Copied(u, r) == sends[u].step \in {"copy", "pad", "kill"} /\ First(sends[u].to) = r
Awaits(u, r) == r \in sends[u].to /\ ~Copied(u, r)

AwaitedIsNew ==
    \A u, r \in Users :
        Awaits(u, r) => ~InBox(r, sends[u].text) /\ ~IsPrinted(r, sends[u].text)

OneCell ==
    \A r \in Users : \A c, d \in Cells :
        message[r][c] = message[r][d] /\ message[r][c] # NoMessage => c = d

BoxIsNew ==
    \A r \in Users : \A c \in Cells :
        message[r][c] # NoMessage /\ printing[r] # c => ~IsPrinted(r, message[r][c])

Texts ==
    /\ TextsAreOwn /\ TextsWereSent /\ AwaitedIsNew
    /\ OneCell /\ BoxIsNew /\ PrintedOnce

-----------------------------------------------------------------------------
(* The helpers that choose: the receiver that comes first, the next cell.       *)
LEMMA Smallest ==
    ASSUME NEW S \in SUBSET Nat, S # {}
    PROVE  \E r \in S : \A s \in S : r <= s
<1>1. IsWellFoundedOn(OpToRel(<, Nat), Nat)
  BY NatLessThanWellFounded, Zenon
<1>2. PICK r \in S : \A s \in S : <<s, r>> \notin OpToRel(<, Nat)
  BY <1>1, WFMin, Zenon
<1>3. \A s \in S : ~(s < r)
  BY <1>2, Zenon DEF OpToRel
<1>. QED
  BY <1>3

LEMMA ReceiverIsFirst == \A u \in Users : Receiver(u) = First(sends[u].to)
BY DEF Receiver, First

LEMMA ReceiverIn ==
    ASSUME TypeOK, NEW u \in Users, sends[u].step # "idle"
    PROVE  Receiver(u) \in sends[u].to /\ Receiver(u) \in Users
<1>1. sends[u].to \in SUBSET Users /\ sends[u].to # {}
  BY DEF TypeOK
<1>2. \E r \in sends[u].to : \A s \in sends[u].to : r <= s
  BY <1>1, Smallest, UsersAssumption
<1>. QED
  BY <1>1, <1>2 DEF Receiver

LEMMA FirstOfIn ==
    ASSUME TypeOK, NEW u \in Users, reads[u] # {}
    PROVE  FirstOf(u) \in reads[u] /\ FirstOf(u) \in Cells
<1>1. reads[u] \in SUBSET Cells
  BY DEF TypeOK
<1>2. \A c \in reads[u] : c = <<c[1], c[2]>> /\ c[1] \in Nat /\ c[2] \in Nat
  BY <1>1, UsersAssumption, BoundsAssumption DEF Cells, Slots
<1>3. PICK s \in {c[1] : c \in reads[u]} : \A t \in {c[1] : c \in reads[u]} : s <= t
  <2>1. {c[1] : c \in reads[u]} \in SUBSET Nat /\ {c[1] : c \in reads[u]} # {}
    BY <1>2
  <2>. QED
    BY <2>1, Smallest
<1>4. PICK k \in {c[2] : c \in {d \in reads[u] : d[1] = s}} :
            \A l \in {c[2] : c \in {d \in reads[u] : d[1] = s}} : k <= l
  <2>1. /\ {c[2] : c \in {d \in reads[u] : d[1] = s}} \in SUBSET Nat
        /\ {c[2] : c \in {d \in reads[u] : d[1] = s}} # {}
    BY <1>2, <1>3
  <2>. QED
    BY <2>1, Smallest
<1>5. PICK c \in reads[u] : c[1] = s /\ c[2] = k
  BY <1>4
<1>6. ASSUME NEW d \in reads[u]
      PROVE  c = d \/ Before(c, d)
  <2>1. s <= d[1] /\ (d[1] = s => k <= d[2])
    BY <1>3, <1>4
  <2>. QED
    BY <2>1, <1>2, <1>5 DEF Before
<1>7. \E e \in reads[u] : \A d \in reads[u] : e = d \/ Before(e, d)
  BY <1>6
<1>. QED
  BY <1>1, <1>7 DEF FirstOf

LEMMA NoCellIsEmpty == <<>> \notin Cells /\ \A c \in Cells : c = <<c[1], c[2]>>
BY DEF Cells

(* What is left to send once a receiver has had it.                             *)
LEMMA OnwardIs ==
    ASSUME TypeOK, NEW u \in Users, sends[u].step # "idle"
    PROVE  /\ Onward(u) \in SendStates
           /\ Onward(u).to = sends[u].to \ {Receiver(u)}
           /\ Onward(u).to = {} <=> Onward(u).step = "idle"
           /\ Onward(u).step \in {"idle", "scan"}
           /\ Onward(u).step # "idle" => Onward(u).text = sends[u].text
<1>1. sends[u] \in SendStates /\ Receiver(u) \in sends[u].to
  BY ReceiverIn DEF TypeOK, SendStates
<1>2. 0 \in Slots
  BY BoundsAssumption DEF Slots
<1>3. CASE sends[u].to = {Receiver(u)}
  <2>1. Onward(u) = Quiet
    BY <1>3 DEF Onward
  <2>2. Quiet \in SendStates
    BY <1>2 DEF Quiet, SendStates, Steps
  <2>. QED
    BY <1>3, <2>1, <2>2 DEF Quiet
<1>4. CASE sends[u].to # {Receiver(u)}
  <2>1. Onward(u) = [sends[u] EXCEPT !.to = @ \ {Receiver(u)}, !.slot = 0, !.step = "scan"]
    BY <1>4 DEF Onward
  <2>2. /\ Onward(u).to = sends[u].to \ {Receiver(u)} /\ Onward(u).step = "scan"
        /\ Onward(u).text = sends[u].text /\ Onward(u) \in SendStates
    BY <2>1, <1>1, <1>2 DEF SendStates, Steps
  <2>3. sends[u].to \ {Receiver(u)} # {}
    BY <1>1, <1>4
  <2>. QED
    BY <2>2, <2>3
<1>. QED
  BY <1>3, <1>4

-----------------------------------------------------------------------------
(* What the steps do to the boxes, cell by cell.                                *)
LEMMA CopyFirstDoes ==
    ASSUME TypeOK, NEW u \in Users, CopyFirst(u)
    PROVE  /\ Receiver(u) \in sends[u].to /\ Receiver(u) \in Users /\ Cell(u) \in Cells
           /\ sends[u].text \in Messages \cup {NoMessage}
           /\ message' \in [Users -> [Cells -> Messages \cup {NoMessage}]]
           /\ whole' \in [Users -> [Cells -> BOOLEAN]]
           /\ \A r \in Users, c \in Cells :
                message'[r][c] = IF r = Receiver(u) /\ c = Cell(u) THEN sends[u].text
                                 ELSE message[r][c]
           /\ \A r \in Users, c \in Cells :
                whole'[r][c] => whole[r][c] /\ message'[r][c] = message[r][c]
           /\ sends' = [sends EXCEPT ![u] = [@ EXCEPT !.step = "copy"]]
<1>1. sends[u].step = "scan"
  BY DEF CopyFirst, At
<1>2. Receiver(u) \in sends[u].to /\ Receiver(u) \in Users
  BY <1>1, ReceiverIn
<1>3. Cell(u) \in Cells /\ sends[u].text \in Messages \cup {NoMessage}
  BY DEF TypeOK, Cell, Cells
<1>4. sends' = [sends EXCEPT ![u] = [@ EXCEPT !.step = "copy"]]
  BY DEF CopyFirst
<1>5. /\ message' \in [Users -> [Cells -> Messages \cup {NoMessage}]]
      /\ \A r \in Users, c \in Cells :
            message'[r][c] = IF r = Receiver(u) /\ c = Cell(u) THEN sends[u].text
                             ELSE message[r][c]
  BY <1>2, <1>3 DEF CopyFirst, TypeOK
<1>6. /\ whole' \in [Users -> [Cells -> BOOLEAN]]
      /\ \A r \in Users, c \in Cells :
            whole'[r][c] = IF r = Receiver(u) /\ c = Cell(u) THEN FALSE ELSE whole[r][c]
  BY <1>2, <1>3 DEF CopyFirst, TypeOK
<1>. QED
  BY <1>2, <1>3, <1>4, <1>5, <1>6

LEMMA CopyRestDoes ==
    ASSUME TypeOK, NEW u \in Users, CopyRest(u)
    PROVE  /\ Receiver(u) \in sends[u].to /\ Receiver(u) \in Users /\ Cell(u) \in Cells
           /\ whole' \in [Users -> [Cells -> BOOLEAN]]
           /\ \A r \in Users, c \in Cells :
                whole'[r][c] = IF r = Receiver(u) /\ c = Cell(u)
                               THEN message[r][c] # NoMessage ELSE whole[r][c]
           /\ \E s \in {"pad", "kill"} :
                sends' = [sends EXCEPT ![u] = [@ EXCEPT !.step = s]]
<1>1. sends[u].step = "copy"
  BY DEF CopyRest, At
<1>2. Receiver(u) \in sends[u].to /\ Receiver(u) \in Users
  BY <1>1, ReceiverIn
<1>3. Cell(u) \in Cells
  BY DEF TypeOK, Cell, Cells
<1>4. \E s \in {"pad", "kill"} : sends' = [sends EXCEPT ![u] = [@ EXCEPT !.step = s]]
  BY DEF CopyRest
<1>5. (message[Receiver(u)][Cell(u)] # NoMessage) \in BOOLEAN
  OBVIOUS
<1>6. /\ whole' \in [Users -> [Cells -> BOOLEAN]]
      /\ \A r \in Users, c \in Cells :
            whole'[r][c] = IF r = Receiver(u) /\ c = Cell(u)
                           THEN message[r][c] # NoMessage ELSE whole[r][c]
  BY <1>2, <1>3, <1>5, Zenon DEF CopyRest, TypeOK
<1>. QED
  BY <1>2, <1>3, <1>4, <1>6

LEMMA PadDoes ==
    ASSUME TypeOK, NEW u \in Users, Pad(u)
    PROVE  /\ Receiver(u) \in sends[u].to /\ Receiver(u) \in Users
           /\ message' \in [Users -> [Cells -> Messages \cup {NoMessage}]]
           /\ whole' \in [Users -> [Cells -> BOOLEAN]]
           /\ \A r \in Users, c \in Cells :
                /\ message'[r][c] \in {message[r][c], NoMessage}
                /\ whole'[r][c] => whole[r][c] /\ message'[r][c] = message[r][c]
           /\ sends' = [sends EXCEPT ![u] = [@ EXCEPT !.step = "kill"]]
<1>1. sends[u].step = "pad"
  BY DEF Pad, At
<1>2. Receiver(u) \in sends[u].to /\ Receiver(u) \in Users
  BY <1>1, ReceiverIn
<1>3. \A r \in Users, c \in Cells :
        /\ message'[r][c] = IF r = Receiver(u) /\ c \in NextInMemory(Cell(u))
                            THEN NoMessage ELSE message[r][c]
        /\ whole'[r][c] = (whole[r][c]
                            /\ ~(r = Receiver(u) /\ c \in NextInMemory(Cell(u))))
  BY <1>2 DEF Pad, TypeOK
<1>4. message' \in [Users -> [Cells -> Messages \cup {NoMessage}]]
  BY <1>2 DEF Pad, TypeOK
<1>5. whole' \in [Users -> [Cells -> BOOLEAN]]
  BY <1>2 DEF Pad, TypeOK
<1>. QED
  BY <1>2, <1>3, <1>4, <1>5 DEF Pad

LEMMA ClearCellDoes ==
    ASSUME TypeOK, NEW u \in Users, ClearCell(u)
    PROVE  /\ printing[u] \in Cells
           /\ message' \in [Users -> [Cells -> Messages \cup {NoMessage}]]
           /\ whole' \in [Users -> [Cells -> BOOLEAN]]
           /\ \A r \in Users, c \in Cells :
                message'[r][c] = IF r = u /\ c = printing[u] THEN NoMessage
                                 ELSE message[r][c]
           /\ \A r \in Users, c \in Cells :
                whole'[r][c] => whole[r][c] /\ message'[r][c] = message[r][c]
           /\ printing' \in [Users -> Cells \cup {<<>>}]
           /\ \A r \in Users : printing'[r] = IF r = u THEN <<>> ELSE printing[r]
<1>1. printing[u] \in Cells
  BY DEF ClearCell, TypeOK
<1>2. /\ message' \in [Users -> [Cells -> Messages \cup {NoMessage}]]
      /\ \A r \in Users, c \in Cells :
            message'[r][c] = IF r = u /\ c = printing[u] THEN NoMessage ELSE message[r][c]
  BY <1>1 DEF ClearCell, TypeOK
<1>3. /\ whole' \in [Users -> [Cells -> BOOLEAN]]
      /\ \A r \in Users, c \in Cells :
            whole'[r][c] = IF r = u /\ c = printing[u] THEN FALSE ELSE whole[r][c]
  BY <1>1 DEF ClearCell, TypeOK
<1>4. /\ printing' \in [Users -> Cells \cup {<<>>}]
      /\ \A r \in Users : printing'[r] = IF r = u THEN <<>> ELSE printing[r]
  BY <1>1 DEF ClearCell, TypeOK
<1>5. ASSUME NEW r \in Users, NEW c \in Cells, whole'[r][c]
      PROVE  whole[r][c] /\ message'[r][c] = message[r][c]
  <2>1. ~(r = u /\ c = printing[u])
    BY <1>3, <1>5
  <2>. QED
    BY <1>2, <1>3, <1>5, <2>1
<1>. QED
  BY <1>1, <1>2, <1>3, <1>4, <1>5

LEMMA PrintCellDoes ==
    ASSUME TypeOK, NEW u \in Users, PrintCell(u)
    PROVE  /\ FirstOf(u) \in Cells
           /\ message[u][FirstOf(u)] \in Messages
           /\ printed' \in [Users -> Seq(Prints)]
           /\ Len(printed'[u]) = Len(printed[u]) + 1
           /\ \A k \in 1..Len(printed[u]) : printed'[u][k] = printed[u][k]
           /\ printed'[u][Len(printed[u]) + 1].text = message[u][FirstOf(u)]
           /\ \A r \in Users \ {u} : printed'[r] = printed[r]
           /\ printing' \in [Users -> Cells \cup {<<>>}]
           /\ \A r \in Users : printing'[r] = IF r = u THEN FirstOf(u) ELSE printing[r]
           /\ printing[u] = <<>>
<1>1. FirstOf(u) \in Cells
  BY FirstOfIn DEF PrintCell
<1>2. message[u][FirstOf(u)] \in Messages /\ whole[u][FirstOf(u)] \in BOOLEAN
  BY <1>1 DEF PrintCell, TypeOK
<1> DEFINE m == [text |-> message[u][FirstOf(u)], whole |-> whole[u][FirstOf(u)]]
<1>3. m \in Prints /\ m.text = message[u][FirstOf(u)]
  BY <1>2 DEF Prints
<1>4. printed[u] \in Seq(Prints) /\ printed \in [Users -> Seq(Prints)]
  BY DEF TypeOK, Prints
<1>5. printed' = [printed EXCEPT ![u] = Append(@, m)]
  BY DEF PrintCell
<1> HIDE DEF m
<1>6. /\ Append(printed[u], m) \in Seq(Prints)
      /\ Len(Append(printed[u], m)) = Len(printed[u]) + 1
      /\ \A k \in 1..Len(printed[u]) : Append(printed[u], m)[k] = printed[u][k]
      /\ Append(printed[u], m)[Len(printed[u]) + 1] = m
  BY <1>3, <1>4, AppendProperties
<1>7. /\ printed' \in [Users -> Seq(Prints)]
      /\ printed'[u] = Append(printed[u], m)
      /\ \A r \in Users \ {u} : printed'[r] = printed[r]
  BY <1>4, <1>5, <1>6
<1>8. /\ printing[u] = <<>>
      /\ printing' \in [Users -> Cells \cup {<<>>}]
      /\ \A r \in Users : printing'[r] = IF r = u THEN FirstOf(u) ELSE printing[r]
  BY <1>1 DEF PrintCell, TypeOK
<1>. QED
  BY <1>1, <1>2, <1>3, <1>6, <1>7, <1>8

LEMMA SendDoes ==
    ASSUME TypeOK, NEW u \in Users, NEW kind \in {"broadcast", "tell"},
           NEW to \in SUBSET Users, to # {}, Send(u, kind, to)
    PROVE  /\ sends[u].step = "idle"
           /\ sends' \in [Users -> SendStates]
           /\ sends'[u].step = "scan" /\ sends'[u].to = to
           /\ sends'[u].text = Len(sent) + 1
           /\ \A v \in Users \ {u} : sends'[v] = sends[v]
           /\ sent' \in Seq([kind : {"broadcast", "tell"}, to : SUBSET Users])
           /\ Len(sent) \in Nat /\ Len(sent') = Len(sent) + 1 /\ Len(sent') <= MaxSends
           /\ UNCHANGED <<box, pending, handler>>
<1> DEFINE Sent == [kind : {"broadcast", "tell"}, to : SUBSET Users]
           new == [text |-> Len(sent) + 1, kind |-> kind, to |-> to,
                   slot |-> 0, step |-> "scan"]
<1>1. sent \in Seq(Sent) /\ Len(sent) \in Nat /\ Len(sent) < MaxSends
  BY LenProperties DEF TypeOK, Send
<1>2. sent' = Append(sent, [kind |-> kind, to |-> to]) /\ [kind |-> kind, to |-> to] \in Sent
  BY DEF Send
<1>3. sent' \in Seq(Sent) /\ Len(sent') = Len(sent) + 1
  BY <1>1, <1>2, AppendProperties
<1>4. new \in SendStates
  BY <1>1, BoundsAssumption DEF SendStates, Messages, Slots, Steps
<1>5. sends' = [sends EXCEPT ![u] = new] /\ sends \in [Users -> SendStates]
  BY DEF Send, TypeOK, SendStates
<1>. QED
  BY <1>1, <1>3, <1>4, <1>5, BoundsAssumption DEF Send

LEMMA OnwardStep ==
    ASSUME TypeOK, NEW u \in Users, sends[u].step # "idle",
           sends' = [sends EXCEPT ![u] = Onward(u)]
    PROVE  /\ sends' \in [Users -> SendStates]
           /\ sends'[u] = Onward(u)
           /\ \A v \in Users \ {u} : sends'[v] = sends[v]
           /\ \A v \in Users : sends'[v].to = {} <=> sends'[v].step = "idle"
<1>1. sends \in [Users -> SendStates]
  BY DEF TypeOK, SendStates
<1>. QED
  BY <1>1, OnwardIs DEF TypeOK

LEMMA ToStep ==
    ASSUME TypeOK, NEW u \in Users, NEW s \in {"copy", "pad", "kill"},
           sends[u].step # "idle", sends' = [sends EXCEPT ![u] = [@ EXCEPT !.step = s]]
    PROVE  /\ sends' \in [Users -> SendStates]
           /\ sends'[u].step = s /\ sends'[u].to = sends[u].to
           /\ sends'[u].text = sends[u].text /\ sends'[u].slot = sends[u].slot
           /\ \A v \in Users \ {u} : sends'[v] = sends[v]
           /\ \A v \in Users : sends'[v].to = {} <=> sends'[v].step = "idle"
<1>1. sends \in [Users -> SendStates]
  BY DEF TypeOK, SendStates
<1>2. /\ sends'[u].step = s /\ sends'[u].to = sends[u].to
      /\ sends'[u].text = sends[u].text /\ sends'[u].slot = sends[u].slot
      /\ sends' \in [Users -> SendStates]
      /\ \A v \in Users \ {u} : sends'[v] = sends[v]
  BY <1>1 DEF SendStates, Steps
<1>. QED
  BY <1>2 DEF TypeOK

LEMMA SlotTakenDoes ==
    ASSUME TypeOK, NEW u \in Users, SlotTaken(u)
    PROVE  /\ sends' \in [Users -> SendStates]
           /\ \A v \in Users \ {u} : sends'[v] = sends[v]
           /\ \A v \in Users : sends'[v].to = {} <=> sends'[v].step = "idle"
           /\ sends'[u].step \in {"idle", "scan"}
           /\ sends'[u].to \subseteq sends[u].to
           /\ sends'[u].step # "idle" => sends'[u].text = sends[u].text
<1>1. sends \in [Users -> SendStates] /\ sends[u].step = "scan"
  BY DEF TypeOK, SendStates, SlotTaken, At
<1>2. CASE sends[u].slot + 1 \in Slots
  <2>1. sends'[u] = [sends[u] EXCEPT !.slot = sends[u].slot + 1]
    BY <1>2, <1>1 DEF SlotTaken
  <2>3. \A v \in Users \ {u} : sends'[v] = sends[v]
    BY <1>1 DEF SlotTaken
  <2>4. DOMAIN sends' = Users /\ sends' = [v \in Users |-> sends'[v]]
    BY <1>1 DEF SlotTaken
  <2>5. sends'[u] \in SendStates
    BY <2>1, <1>1, <1>2 DEF SendStates
  <2>2. /\ sends'[u].step = "scan" /\ sends'[u].to = sends[u].to
        /\ sends'[u].text = sends[u].text
        /\ sends' \in [Users -> SendStates]
        /\ \A v \in Users \ {u} : sends'[v] = sends[v]
    BY <2>1, <2>3, <2>4, <2>5, <1>1 DEF SendStates
  <2>. QED
    BY <2>2, <1>1 DEF TypeOK
<1>3. CASE sends[u].slot + 1 \notin Slots
  <2>1. sends' = [sends EXCEPT ![u] = Onward(u)]
    BY <1>3, <1>1 DEF SlotTaken
  <2>. QED
    BY <2>1, <1>1, OnwardStep, OnwardIs
<1>. QED
  BY <1>2, <1>3

-----------------------------------------------------------------------------
(* The actions of Next, with the inputs they take.                              *)
LEMMA Actions ==
    ASSUME Next
    PROVE  \E u \in Users :
            \/ \E kind \in {"broadcast", "tell"} : \E to \in SUBSET Users :
                    to # {} /\ Send(u, kind, to)
            \/ SlotTaken(u) \/ CopyFirst(u) \/ CopyRest(u) \/ Pad(u)
            \/ Kill(u) \/ KillSelf(u)
            \/ handler_sig(u) \/ PassEmpty(u) \/ PrintCell(u) \/ ClearCell(u)
<1>1. CASE \E u \in Senders : broadcast(u) \/ \E r \in Users : tell(u, r)
  <2>1. PICK u \in Senders : broadcast(u) \/ \E r \in Users : tell(u, r)
    BY <1>1
  <2>2. u \in Users
    BY UsersAssumption
  <2>3. CASE broadcast(u)
    <3>1. Send(u, "broadcast", Users) /\ Users # {}
      BY <2>2, <2>3 DEF broadcast
    <3>. QED
      BY <3>1, <2>2
  <2>4. ASSUME NEW r \in Users, tell(u, r)
        PROVE  Send(u, "tell", {r}) /\ {r} # {} /\ {r} \in SUBSET Users
    BY <2>4 DEF tell
  <2>. QED
    BY <2>1, <2>2, <2>3, <2>4
<1>2. CASE \E u \in Users : Sender(u) \/ Handler(u)
  BY <1>2 DEF Sender, Handler
<1>. QED
  BY <1>1, <1>2 DEF Next

LEMMA TypeInit == Init => TypeOK
<1>. SUFFICES ASSUME Init PROVE TypeOK
  OBVIOUS
<1>1. sends \in [Users -> SendStates] /\ \A u \in Users : sends[u].to = {} /\ sends[u].step = "idle"
  BY BoundsAssumption DEF Init, Quiet, SendStates, Steps, Slots
<1>. QED
  BY <1>1, BoundsAssumption DEF Init, TypeOK, SendStates

LEMMA TypeStep == TypeOK /\ [Next]_vars => TypeOK'
<1>. SUFFICES ASSUME TypeOK, [Next]_vars PROVE TypeOK'
  OBVIOUS
<1>0. CASE UNCHANGED vars
  BY <1>0 DEF TypeOK, vars, Receiver
<1>1. ASSUME NEW u \in Users, NEW kind \in {"broadcast", "tell"},
             NEW to \in SUBSET Users, to # {}, Send(u, kind, to)
      PROVE  TypeOK'
  <2>1. /\ sends'[u].step = "scan" /\ sends'[u].to = to
        /\ \A v \in Users \ {u} : sends'[v] = sends[v]
        /\ sends' \in [Users -> SendStates]
    BY <1>1, SendDoes
  <2>2. \A v \in Users : sends'[v].to = {} <=> sends'[v].step = "idle"
    BY <1>1, <2>1 DEF TypeOK
  <2>3. /\ sent' \in Seq([kind : {"broadcast", "tell"}, to : SUBSET Users])
        /\ Len(sent') <= MaxSends
        /\ UNCHANGED <<box, pending, handler>>
    BY <1>1, SendDoes
  <2>. QED
    BY <2>1, <2>2, <2>3 DEF TypeOK, SendStates, box, handler
<1>2. ASSUME NEW u \in Users, SlotTaken(u)
      PROVE  TypeOK'
  BY <1>2, SlotTakenDoes DEF TypeOK, SlotTaken, box, handler, SendStates
<1>3. ASSUME NEW u \in Users, CopyFirst(u)
      PROVE  TypeOK'
  <2>1. \A v \in Users : sends'[v].to = {} <=> sends'[v].step = "idle"
    BY <1>3, CopyFirstDoes, ToStep DEF CopyFirst, At
  <2>2. sends' \in [Users -> SendStates]
    BY <1>3, CopyFirstDoes, ToStep DEF CopyFirst, At
  <2>4. \A r \in Users, c \in Cells :
            whole'[r][c] => whole[r][c] /\ message'[r][c] = message[r][c]
    BY <1>3, CopyFirstDoes
  <2>3. \A r \in Users, c \in Cells : whole'[r][c] => message'[r][c] # NoMessage
    BY <2>4 DEF TypeOK
  <2>. QED
    BY <1>3, <2>1, <2>2, <2>3, CopyFirstDoes DEF TypeOK, CopyFirst, handler, SendStates
<1>4. ASSUME NEW u \in Users, CopyRest(u)
      PROVE  TypeOK'
  <2>1. PICK s \in {"pad", "kill"} : sends' = [sends EXCEPT ![u] = [@ EXCEPT !.step = s]]
    BY <1>4, CopyRestDoes
  <2>2. /\ sends' \in [Users -> SendStates]
        /\ \A v \in Users : sends'[v].to = {} <=> sends'[v].step = "idle"
    BY <1>4, <2>1, ToStep DEF CopyRest, At
  <2>3. \A r \in Users, c \in Cells : whole'[r][c] => message'[r][c] # NoMessage
    BY <1>4, CopyRestDoes DEF TypeOK, CopyRest
  <2>. QED
    BY <1>4, <2>2, <2>3, CopyRestDoes DEF TypeOK, CopyRest, handler, SendStates
<1>5. ASSUME NEW u \in Users, Pad(u)
      PROVE  TypeOK'
  <2>1. /\ sends' \in [Users -> SendStates]
        /\ \A v \in Users : sends'[v].to = {} <=> sends'[v].step = "idle"
    BY <1>5, PadDoes, ToStep DEF Pad, At
  <2>2. \A r \in Users, c \in Cells : whole'[r][c] => message'[r][c] # NoMessage
    BY <1>5, PadDoes DEF TypeOK
  <2>. QED
    BY <1>5, <2>1, <2>2, PadDoes DEF TypeOK, Pad, handler, SendStates
<1>6. ASSUME NEW u \in Users, Kill(u)
      PROVE  TypeOK'
  <2>1. /\ sends' \in [Users -> SendStates]
        /\ \A v \in Users : sends'[v].to = {} <=> sends'[v].step = "idle"
    BY <1>6, OnwardStep DEF Kill, At
  <2>2. Receiver(u) \in Users
    BY <1>6, ReceiverIn DEF Kill, At
  <2>. QED
    BY <1>6, <2>1, <2>2 DEF TypeOK, Kill, box, handler, SendStates
<1>7. ASSUME NEW u \in Users, KillSelf(u)
      PROVE  TypeOK'
  <2>1. /\ sends' \in [Users -> SendStates]
        /\ \A v \in Users : sends'[v].to = {} <=> sends'[v].step = "idle"
    BY <1>7, OnwardStep DEF KillSelf, At
  <2>. QED
    BY <1>7, <2>1 DEF TypeOK, KillSelf, box, SendStates
<1>8. ASSUME NEW u \in Users, handler_sig(u) \/ PassEmpty(u)
      PROVE  TypeOK'
  <2>1. CASE handler_sig(u)
    <3>1. pending' \in [Users -> BOOLEAN]
      BY <2>1, Zenon DEF TypeOK, handler_sig
    <3>2. reads' \in [Users -> SUBSET Cells]
      BY <2>1 DEF TypeOK, handler_sig
    <3>. QED
      BY <2>1, <3>1, <3>2 DEF TypeOK, handler_sig, box
  <2>2. CASE PassEmpty(u)
    <3>1. reads' \in [Users -> SUBSET Cells] /\ pending' = pending
      BY <2>2 DEF TypeOK, PassEmpty
    <3>. QED
      BY <2>2, <3>1 DEF TypeOK, PassEmpty, box
  <2>. QED
    BY <1>8, <2>1, <2>2
<1>9. ASSUME NEW u \in Users, PrintCell(u)
      PROVE  TypeOK'
  <2>1. reads' \in [Users -> SUBSET Cells]
    BY <1>9 DEF PrintCell, TypeOK
  <2>. QED
    BY <1>9, <2>1, PrintCellDoes DEF TypeOK, PrintCell, box, Prints
<1>10. ASSUME NEW u \in Users, ClearCell(u)
      PROVE  TypeOK'
  <2>1. \A r \in Users, c \in Cells :
            whole'[r][c] => whole[r][c] /\ message'[r][c] = message[r][c]
    BY <1>10, ClearCellDoes
  <2>2. \A r \in Users, c \in Cells : whole'[r][c] => message'[r][c] # NoMessage
    BY <2>1 DEF TypeOK
  <2>3. /\ message' \in [Users -> [Cells -> Messages \cup {NoMessage}]]
        /\ whole' \in [Users -> [Cells -> BOOLEAN]]
        /\ printing' \in [Users -> Cells \cup {<<>>}]
    BY <1>10, ClearCellDoes
  <2>. QED
    BY <1>10, <2>2, <2>3 DEF TypeOK, ClearCell
<1>. QED
  BY <1>0, <1>1, <1>2, <1>3, <1>4, <1>5, <1>6, <1>7, <1>8, <1>9, <1>10, Actions

THEOREM TypeCorrect == Spec => []TypeOK
BY TypeInit, TypeStep, PTL DEF Spec

-----------------------------------------------------------------------------
(* A text in a cell is on its way to be seen, whatever step is taken.           *)
Filling(r, c) ==
    /\ sends[c[1]].step \in {"copy", "pad", "kill"}
    /\ First(sends[c[1]].to) = r /\ sends[c[1]].slot = c[2]

LEMMA MailMeans ==
    NoMailForgotten <=>
        \A r \in Users : \A c \in Cells : message[r][c] # NoMessage =>
            pending[r] \/ c \in reads[r] \/ printing[r] = c \/ Filling(r, c)
<1>1. \A c \in Cells : c[1] \in Users
  BY DEF Cells
<1>. QED
  BY <1>1, ReceiverIsFirst DEF NoMailForgotten, Filling

LEMMA MailStep == TypeOK /\ NoMailForgotten /\ [Next]_vars => NoMailForgotten'
<1>. SUFFICES ASSUME TypeOK, NoMailForgotten, [Next]_vars,
                     NEW r \in Users, NEW c \in Cells, message'[r][c] # NoMessage
              PROVE  pending'[r] \/ c \in reads'[r] \/ printing'[r] = c \/ Filling(r, c)'
  <2>1. MailMeans'
    BY MailMeans, PTL
  <2>. QED
    BY <2>1
<1>a. message[r][c] # NoMessage =>
        pending[r] \/ c \in reads[r] \/ printing[r] = c \/ Filling(r, c)
  BY MailMeans
<1>b. c[1] \in Users /\ c = <<c[1], c[2]>>
  BY DEF Cells
<1>0. CASE UNCHANGED vars
  BY <1>0, <1>a DEF vars, Filling
<1>1. ASSUME NEW u \in Users, NEW kind \in {"broadcast", "tell"},
             NEW to \in SUBSET Users, to # {}, Send(u, kind, to)
      PROVE  pending'[r] \/ c \in reads'[r] \/ printing'[r] = c \/ Filling(r, c)'
  BY <1>1, <1>a, <1>b, SendDoes DEF box, handler, Filling
<1>2. ASSUME NEW u \in Users, SlotTaken(u)
      PROVE  pending'[r] \/ c \in reads'[r] \/ printing'[r] = c \/ Filling(r, c)'
  BY <1>2, <1>a, <1>b, SlotTakenDoes DEF SlotTaken, At, box, handler, Filling
<1>3. ASSUME NEW u \in Users, CopyFirst(u)
      PROVE  pending'[r] \/ c \in reads'[r] \/ printing'[r] = c \/ Filling(r, c)'
  <2>1. /\ sends'[u].step = "copy" /\ sends'[u].to = sends[u].to
        /\ sends'[u].slot = sends[u].slot
        /\ \A v \in Users \ {u} : sends'[v] = sends[v]
        /\ sends[u].step = "scan"
    BY <1>3, CopyFirstDoes, ToStep DEF CopyFirst, At
  <2>2. CASE r = Receiver(u) /\ c = Cell(u)
    BY <2>1, <2>2, ReceiverIsFirst DEF Filling, Cell
  <2>3. CASE ~(r = Receiver(u) /\ c = Cell(u))
    <3>2. message'[r][c] = IF r = Receiver(u) /\ c = Cell(u) THEN sends[u].text
                           ELSE message[r][c]
      BY <1>3, CopyFirstDoes
    <3>1. message'[r][c] = message[r][c]
      BY <2>3, <3>2
    <3>. QED
      BY <1>3, <3>1, <2>1, <1>a, <1>b DEF CopyFirst, handler, Filling
  <2>. QED
    BY <2>2, <2>3
<1>4. ASSUME NEW u \in Users, CopyRest(u)
      PROVE  pending'[r] \/ c \in reads'[r] \/ printing'[r] = c \/ Filling(r, c)'
  <2>1. PICK s \in {"pad", "kill"} : sends' = [sends EXCEPT ![u] = [@ EXCEPT !.step = s]]
    BY <1>4, CopyRestDoes
  <2>2. /\ sends'[u].step = s /\ sends'[u].to = sends[u].to
        /\ sends'[u].slot = sends[u].slot
        /\ \A v \in Users \ {u} : sends'[v] = sends[v]
    BY <1>4, <2>1, ToStep DEF CopyRest, At
  <2>. QED
    BY <1>4, <2>2, <1>a, <1>b DEF CopyRest, handler, Filling
<1>5. ASSUME NEW u \in Users, Pad(u)
      PROVE  pending'[r] \/ c \in reads'[r] \/ printing'[r] = c \/ Filling(r, c)'
  <2>1. message[r][c] # NoMessage
    BY <1>5, PadDoes
  <2>2. /\ sends'[u].step = "kill" /\ sends'[u].to = sends[u].to
        /\ sends'[u].slot = sends[u].slot
        /\ \A v \in Users \ {u} : sends'[v] = sends[v]
    BY <1>5, PadDoes, ToStep DEF Pad, At
  <2>. QED
    BY <1>5, <2>1, <2>2, <1>a, <1>b DEF Pad, handler, Filling
<1>6. ASSUME NEW u \in Users, Kill(u)
      PROVE  pending'[r] \/ c \in reads'[r] \/ printing'[r] = c \/ Filling(r, c)'
  <2>1. /\ \A v \in Users \ {u} : sends'[v] = sends[v]
        /\ Receiver(u) \in Users /\ Receiver(u) = First(sends[u].to)
    BY <1>6, OnwardStep, ReceiverIn, ReceiverIsFirst DEF Kill, At
  <2>2. \A q \in Users : pending'[q] = IF q = Receiver(u) THEN TRUE ELSE pending[q]
    BY <1>6, <2>1 DEF Kill, TypeOK
  <2>3. CASE r = Receiver(u)
    BY <2>2, <2>3
  <2>4. CASE r # Receiver(u)
    BY <1>6, <2>1, <2>2, <2>4, <1>a, <1>b DEF Kill, handler, box, Filling
  <2>. QED
    BY <2>3, <2>4
<1>7. ASSUME NEW u \in Users, KillSelf(u)
      PROVE  pending'[r] \/ c \in reads'[r] \/ printing'[r] = c \/ Filling(r, c)'
  <2>1. /\ \A v \in Users \ {u} : sends'[v] = sends[v]
        /\ First(sends[u].to) = u
    BY <1>7, OnwardStep, ReceiverIsFirst DEF KillSelf, At
  <2>2. /\ reads'[u] = Cells
        /\ \A q \in Users \ {u} : reads'[q] = reads[q] /\ pending'[q] = pending[q]
    BY <1>7 DEF KillSelf, TypeOK
  <2>3. CASE r = u
    BY <2>2, <2>3
  <2>4. CASE r # u
    BY <1>7, <2>1, <2>2, <2>4, <1>a, <1>b DEF KillSelf, box, Filling
  <2>. QED
    BY <2>3, <2>4
<1>8. ASSUME NEW u \in Users, handler_sig(u)
      PROVE  pending'[r] \/ c \in reads'[r] \/ printing'[r] = c \/ Filling(r, c)'
  <2>1. /\ reads'[u] = Cells
        /\ \A q \in Users \ {u} : reads'[q] = reads[q] /\ pending'[q] = pending[q]
    BY <1>8 DEF handler_sig, TypeOK
  <2>. QED
    BY <1>8, <2>1, <1>a DEF handler_sig, box, Filling
<1>9. ASSUME NEW u \in Users, PassEmpty(u)
      PROVE  pending'[r] \/ c \in reads'[r] \/ printing'[r] = c \/ Filling(r, c)'
  <2>1. /\ reads'[u] = reads[u] \ {FirstOf(u)}
        /\ \A q \in Users \ {u} : reads'[q] = reads[q]
    BY <1>9 DEF PassEmpty, TypeOK
  <2>2. r = u => c # FirstOf(u)
    BY <1>9 DEF PassEmpty, box
  <2>. QED
    BY <1>9, <2>1, <2>2, <1>a DEF PassEmpty, box, Filling
<1>10. ASSUME NEW u \in Users, PrintCell(u)
      PROVE  pending'[r] \/ c \in reads'[r] \/ printing'[r] = c \/ Filling(r, c)'
  <2>1. /\ reads'[u] = reads[u] \ {FirstOf(u)}
        /\ \A q \in Users \ {u} : reads'[q] = reads[q]
    BY <1>10 DEF PrintCell, TypeOK
  <2>2. \A q \in Users : printing'[q] = IF q = u THEN FirstOf(u) ELSE printing[q]
    BY <1>10, PrintCellDoes
  <2>3. printing[u] # c
    BY <1>10, PrintCellDoes, NoCellIsEmpty
  <2>. QED
    BY <1>10, <2>1, <2>2, <2>3, <1>a DEF PrintCell, box, Filling
<1>11. ASSUME NEW u \in Users, ClearCell(u)
      PROVE  pending'[r] \/ c \in reads'[r] \/ printing'[r] = c \/ Filling(r, c)'
  <2>1. ~(r = u /\ c = printing[u]) /\ message'[r][c] = message[r][c]
    BY <1>11, ClearCellDoes
  <2>2. \A q \in Users : printing'[q] = IF q = u THEN <<>> ELSE printing[q]
    BY <1>11, ClearCellDoes
  <2>. QED
    BY <1>11, <2>1, <2>2, <1>a DEF ClearCell, Filling
<1>. QED
  BY <1>0, <1>1, <1>2, <1>3, <1>4, <1>5, <1>6, <1>7, <1>8, <1>9, <1>10, <1>11, Actions

(* No signal that is merged, and no signal that comes while the box is gone     *)
(* through or filled, leaves a text behind that nobody will look at.            *)
THEOREM MailIsSeen == Spec => []NoMailForgotten
<1>1. Init => NoMailForgotten
  BY DEF Init, NoMailForgotten
<1>. QED
  BY <1>1, TypeInit, TypeStep, MailStep, PTL DEF Spec

-----------------------------------------------------------------------------
(* Steps that bring no text anywhere: cells are emptied, senders go on.         *)
LEMMA TextsKept ==
    ASSUME TypeOK, Texts,
           \A r \in Users, c \in Cells : message'[r][c] \in {message[r][c], NoMessage},
           \A r \in Users, c \in Cells :
                message'[r][c] # NoMessage /\ printing'[r] # c => printing[r] # c,
           printed' = printed, sent' = sent,
           \A u \in Users : sends'[u].step # "idle" =>
                sends[u].step # "idle" /\ sends'[u].text = sends[u].text,
           \A u \in Users : sends'[u].to = {} <=> sends'[u].step = "idle",
           \A u, r \in Users : Awaits(u, r)' => Awaits(u, r)
    PROVE  Texts'
<1>1. TextsAreOwn'
  BY DEF Texts, TextsAreOwn
<1>2. TextsWereSent'
  <2>1. Len(sent) \in Nat
    BY LenProperties DEF TypeOK
  <2>. QED
    BY <2>1 DEF Texts, TextsWereSent, NoMessage
<1>3. AwaitedIsNew'
  <2>. SUFFICES ASSUME NEW u \in Users, NEW r \in Users, Awaits(u, r)'
                PROVE  ~InBox(r, sends[u].text)' /\ ~IsPrinted(r, sends[u].text)'
    BY DEF AwaitedIsNew
  <2>1. sends'[u].step # "idle"
    BY DEF Awaits
  <2>2. sends'[u].text = sends[u].text /\ sends[u].text # NoMessage
    BY <2>1 DEF Texts, TextsAreOwn, NoMessage
  <2>3. ~InBox(r, sends[u].text) /\ ~IsPrinted(r, sends[u].text)
    BY DEF Texts, AwaitedIsNew
  <2>. QED
    BY <2>2, <2>3 DEF InBox, IsPrinted
<1>4. OneCell'
  BY DEF Texts, OneCell
<1>5. BoxIsNew'
  BY DEF Texts, BoxIsNew, IsPrinted
<1>6. PrintedOnce'
  BY DEF Texts, PrintedOnce
<1>. QED
  BY <1>1, <1>2, <1>3, <1>4, <1>5, <1>6 DEF Texts

(* A text that is typed is new to everybody.                                    *)
LEMMA TextsSend ==
    ASSUME TypeOK, Texts, NEW u \in Users, NEW kind \in {"broadcast", "tell"},
           NEW to \in SUBSET Users, to # {}, Send(u, kind, to)
    PROVE  Texts'
<1>1. /\ sends[u].step = "idle"
      /\ sends'[u].step = "scan" /\ sends'[u].to = to
      /\ sends'[u].text = Len(sent) + 1
      /\ \A v \in Users \ {u} : sends'[v] = sends[v]
      /\ Len(sent) \in Nat /\ Len(sent') = Len(sent) + 1
      /\ UNCHANGED <<box, pending, handler>>
  BY SendDoes
<1>2. TextsAreOwn'
  <2>1. \A v \in Users \ {u} : sends[v].step # "idle" => sends[v].text \in 1..Len(sent)
    BY DEF Texts, TextsAreOwn
  <2>. QED
    BY <1>1, <2>1 DEF Texts, TextsAreOwn
<1>3. TextsWereSent'
  <2>1. \A r \in Users : \A c \in Cells : message[r][c] \in Int
    BY BoundsAssumption DEF TypeOK, Messages, NoMessage
  <2>2. ASSUME NEW r \in Users, NEW k \in 1..Len(printed[r])
        PROVE  printed[r][k].text \in Int
    <3>1. printed[r] \in Seq(Prints)
      BY DEF TypeOK, Prints
    <3>2. printed[r][k] \in Prints
      BY <3>1, ElementOfSeq
    <3>. QED
      BY <3>2, BoundsAssumption DEF Prints, Messages
  <2>. QED
    BY <1>1, <2>1, <2>2 DEF Texts, TextsWereSent, box, handler
<1>4. AwaitedIsNew'
  <2>. SUFFICES ASSUME NEW v \in Users, NEW r \in Users, Awaits(v, r)'
                PROVE  ~InBox(r, sends[v].text)' /\ ~IsPrinted(r, sends[v].text)'
    BY DEF AwaitedIsNew
  <2>1. CASE v = u
    <3>1. \A c \in Cells : message[r][c] # Len(sent) + 1
      BY <1>1 DEF Texts, TextsWereSent
    <3>2. \A k \in 1..Len(printed[r]) : printed[r][k].text # Len(sent) + 1
      BY <1>1 DEF Texts, TextsWereSent
    <3>. QED
      BY <1>1, <2>1, <3>1, <3>2 DEF InBox, IsPrinted, box, handler
  <2>2. CASE v # u
    BY <1>1, <2>2 DEF Texts, AwaitedIsNew, Awaits, Copied, InBox, IsPrinted, box, handler
  <2>. QED
    BY <2>1, <2>2
<1>5. OneCell' /\ BoxIsNew' /\ PrintedOnce'
  BY <1>1 DEF Texts, OneCell, BoxIsNew, PrintedOnce, IsPrinted, box, handler
<1>. QED
  BY <1>2, <1>3, <1>4, <1>5 DEF Texts

(* A text comes into one box once, and was not printed there before.            *)
LEMMA TextsCopy ==
    ASSUME TypeOK, Texts, NEW u \in Users, CopyFirst(u)
    PROVE  Texts'
<1> DEFINE R == Receiver(u)
           C == Cell(u)
           m == sends[u].text
<1>1. R \in sends[u].to /\ R \in Users /\ C \in Cells /\ R = First(sends[u].to)
  BY CopyFirstDoes, ReceiverIsFirst
<1>2. \A r \in Users, c \in Cells :
        message'[r][c] = IF r = R /\ c = C THEN m ELSE message[r][c]
  BY CopyFirstDoes
<1>3. /\ sends'[u].step = "copy" /\ sends'[u].to = sends[u].to /\ sends'[u].text = m
      /\ \A v \in Users \ {u} : sends'[v] = sends[v]
      /\ sends[u].step = "scan"
      /\ UNCHANGED <<handler, sent>>
  BY CopyFirstDoes, ToStep DEF CopyFirst, At
<1> HIDE DEF R, C, m
<1>4. m \in 1..Len(sent) /\ m # NoMessage /\ Len(sent) \in Nat
  BY <1>3, LenProperties DEF m, Texts, TextsAreOwn, NoMessage, TypeOK
<1>5. ~InBox(R, m) /\ ~IsPrinted(R, m)
  BY <1>1, <1>3 DEF Texts, AwaitedIsNew, Awaits, Copied, m
<1>6. TextsAreOwn'
  BY <1>3 DEF m, Texts, TextsAreOwn
<1>7. TextsWereSent'
  BY <1>2, <1>3, <1>4 DEF Texts, TextsWereSent, handler
<1>8. AwaitedIsNew'
  <2>. SUFFICES ASSUME NEW v \in Users, NEW r \in Users, Awaits(v, r)'
                PROVE  ~InBox(r, sends[v].text)' /\ ~IsPrinted(r, sends[v].text)'
    BY DEF AwaitedIsNew
  <2>1. Awaits(v, r) /\ sends'[v].text = sends[v].text /\ (v = u => r # R)
    BY <1>1, <1>3 DEF Awaits, Copied, m
  <2>2. ~InBox(r, sends[v].text) /\ ~IsPrinted(r, sends[v].text)
    BY <2>1 DEF Texts, AwaitedIsNew
  <2>3. r = R => sends[v].text # m
    BY <2>1, <1>3 DEF Awaits, TypeOK, Texts, TextsAreOwn, m
  <2>4. \A c \in Cells : message'[r][c] # sends[v].text
    BY <2>2, <2>3, <1>2 DEF InBox
  <2>. QED
    BY <2>1, <2>2, <2>4, <1>3 DEF InBox, IsPrinted, handler
<1>9. OneCell'
  BY <1>2, <1>5 DEF Texts, OneCell, InBox
<1>10. BoxIsNew'
  <2>. SUFFICES ASSUME NEW r \in Users, NEW c \in Cells,
                       message'[r][c] # NoMessage, printing'[r] # c
                PROVE  ~IsPrinted(r, message[r][c])'
    BY DEF BoxIsNew
  <2>1. CASE r = R /\ c = C
    BY <2>1, <1>2, <1>3, <1>5 DEF IsPrinted, handler
  <2>2. CASE ~(r = R /\ c = C)
    <3>1. message'[r][c] = message[r][c]
      BY <1>2, <2>2
    <3>. QED
      BY <3>1, <1>3 DEF Texts, BoxIsNew, IsPrinted, handler
  <2>. QED
    BY <2>1, <2>2
<1>11. PrintedOnce'
  BY <1>3 DEF Texts, PrintedOnce, handler
<1>. QED
  BY <1>6, <1>7, <1>8, <1>9, <1>10, <1>11 DEF Texts

(* What is printed was not printed before, and waits nowhere else for it.       *)
LEMMA TextsPrint ==
    ASSUME TypeOK, Texts, NEW u \in Users, PrintCell(u)
    PROVE  Texts'
<1> DEFINE C == FirstOf(u)
           m == message[u][C]
<1>1. /\ C \in Cells /\ m \in Messages
      /\ printed'[u][Len(printed[u]) + 1].text = m
      /\ printing[u] = <<>>
  BY PrintCellDoes
<1>2. /\ Len(printed'[u]) = Len(printed[u]) + 1
      /\ \A k \in 1..Len(printed[u]) : printed'[u][k] = printed[u][k]
      /\ \A r \in Users \ {u} : printed'[r] = printed[r]
  BY PrintCellDoes
<1>3. \A r \in Users : printing'[r] = IF r = u THEN C ELSE printing[r]
  BY PrintCellDoes
<1>4. message' = message /\ sends' = sends /\ sent' = sent
  BY DEF PrintCell, box
<1> HIDE DEF C, m
<1>5. Len(printed[u]) \in Nat
  BY LenProperties DEF TypeOK
<1>6. m # NoMessage /\ ~IsPrinted(u, m) /\ InBox(u, m)
  <2>1. message[u][C] # NoMessage /\ printing[u] # C
    BY <1>1, NoCellIsEmpty DEF m, Messages, NoMessage
  <2>. QED
    BY <2>1, <1>1 DEF Texts, BoxIsNew, InBox, m
<1>7. ASSUME NEW r \in Users, NEW x, IsPrinted(r, x)'
      PROVE  IsPrinted(r, x) \/ (r = u /\ x = m)
  <2>1. PICK k \in 1..Len(printed'[r]) : printed'[r][k].text = x
    BY <1>7 DEF IsPrinted
  <2>2. CASE r = u
    <3>1. k \in 1..Len(printed[u]) \/ k = Len(printed[u]) + 1
      BY <2>1, <2>2, <1>2, <1>5
    <3>. QED
      BY <2>1, <2>2, <3>1, <1>1, <1>2 DEF IsPrinted
  <2>3. CASE r # u
    BY <2>1, <2>3, <1>2 DEF IsPrinted
  <2>. QED
    BY <2>2, <2>3
<1>8. TextsAreOwn' /\ OneCell'
  BY <1>4 DEF Texts, TextsAreOwn, OneCell
<1>9. TextsWereSent'
  <2>. SUFFICES ASSUME NEW r \in Users
                PROVE  /\ \A c \in Cells : message'[r][c] <= Len(sent')
                       /\ \A k \in 1..Len(printed'[r]) : printed'[r][k].text <= Len(sent')
    BY DEF TextsWereSent
  <2>1. \A c \in Cells : message[r][c] <= Len(sent)
    BY DEF Texts, TextsWereSent
  <2>2. ASSUME NEW k \in 1..Len(printed'[r])
        PROVE  printed'[r][k].text <= Len(sent)
    <3>1. IsPrinted(r, printed'[r][k].text) \/ (r = u /\ printed'[r][k].text = m)
      BY <1>7 DEF IsPrinted
    <3>2. m <= Len(sent)
      BY <1>1 DEF m, Texts, TextsWereSent
    <3>. QED
      BY <3>1, <3>2 DEF IsPrinted, Texts, TextsWereSent
  <2>. QED
    BY <2>1, <2>2, <1>4
<1>10. AwaitedIsNew'
  <2>. SUFFICES ASSUME NEW v \in Users, NEW r \in Users, Awaits(v, r)'
                PROVE  ~InBox(r, sends[v].text)' /\ ~IsPrinted(r, sends[v].text)'
    BY DEF AwaitedIsNew
  <2>1. ~InBox(r, sends[v].text) /\ ~IsPrinted(r, sends[v].text)
    BY <1>4 DEF Texts, AwaitedIsNew, Awaits, Copied
  <2>2. ~(r = u /\ sends[v].text = m)
    BY <2>1, <1>6
  <2>3. sends'[v].text = sends[v].text
    BY <1>4
  <2>4. ASSUME IsPrinted(r, sends[v].text)'
        PROVE  FALSE
    <3>1. PICK k \in 1..Len(printed'[r]) : printed'[r][k].text = sends[v].text
      BY <2>3, <2>4 DEF IsPrinted
    <3>2. IsPrinted(r, sends[v].text) \/ (r = u /\ sends[v].text = m)
      BY <3>1, <1>7 DEF IsPrinted
    <3>. QED
      BY <3>2, <2>1, <2>2
  <2>. QED
    BY <2>1, <2>4, <1>4 DEF InBox
<1>11. BoxIsNew'
  <2>. SUFFICES ASSUME NEW r \in Users, NEW d \in Cells,
                       message'[r][d] # NoMessage, printing'[r] # d,
                       IsPrinted(r, message[r][d])'
                PROVE  FALSE
    BY DEF BoxIsNew
  <2>0. IsPrinted(r, message[r][d]) \/ (r = u /\ message[r][d] = m)
    BY <1>4, <1>7 DEF IsPrinted
  <2>1. CASE r = u
    <3>1. d # C /\ printing[u] # d
      BY <2>1, <1>1, <1>3, NoCellIsEmpty
    <3>2. message[u][d] # m
      BY <3>1, <2>1, <1>1, <1>4 DEF Texts, OneCell, m
    <3>. QED
      BY <2>0, <2>1, <3>1, <3>2, <1>4 DEF Texts, BoxIsNew
  <2>2. CASE r # u
    BY <2>0, <2>2, <1>3, <1>4 DEF Texts, BoxIsNew
  <2>. QED
    BY <2>1, <2>2
<1>12. PrintedOnce'
  <2>. SUFFICES ASSUME NEW r \in Users,
                       NEW k \in 1..Len(printed'[r]), NEW l \in 1..Len(printed'[r]),
                       printed'[r][k].text = printed'[r][l].text
                PROVE  k = l
    BY DEF PrintedOnce
  <2>1. CASE r = u
    <3>1. /\ k \in 1..Len(printed[u]) \/ k = Len(printed[u]) + 1
          /\ l \in 1..Len(printed[u]) \/ l = Len(printed[u]) + 1
      BY <2>1, <1>2, <1>5
    <3>2. \A i \in 1..Len(printed[u]) : printed'[u][i].text # m
      BY <1>2, <1>6 DEF IsPrinted
    <3>3. printed'[u][Len(printed[u]) + 1].text = m
      BY <1>1, <1>2
    <3>4. \A i \in 1..Len(printed[u]) : printed'[u][i] = printed[u][i]
      BY <1>2
    <3>5. CASE k \in 1..Len(printed[u]) /\ l \in 1..Len(printed[u])
      BY <2>1, <3>4, <3>5 DEF Texts, PrintedOnce
    <3>6. CASE ~(k \in 1..Len(printed[u]) /\ l \in 1..Len(printed[u]))
      BY <2>1, <3>1, <3>2, <3>3, <3>6
    <3>. QED
      BY <3>5, <3>6
  <2>2. CASE r # u
    BY <2>2, <1>2 DEF Texts, PrintedOnce
  <2>. QED
    BY <2>1, <2>2
<1>. QED
  BY <1>8, <1>9, <1>10, <1>11, <1>12 DEF Texts

LEMMA TextsInit == Init => Texts
<1>. SUFFICES ASSUME Init PROVE Texts
  OBVIOUS
<1>1. TextsAreOwn /\ AwaitedIsNew
  BY DEF Init, Quiet, TextsAreOwn, AwaitedIsNew, Awaits
<1>2. TextsWereSent /\ OneCell /\ BoxIsNew /\ PrintedOnce
  BY DEF Init, TextsWereSent, OneCell, BoxIsNew, PrintedOnce, NoMessage
<1>. QED
  BY <1>1, <1>2 DEF Texts

LEMMA TextsStep == TypeOK /\ Texts /\ [Next]_vars => Texts'
<1>. SUFFICES ASSUME TypeOK, Texts, [Next]_vars PROVE Texts'
  OBVIOUS
<1>t. TypeOK'
  BY TypeStep
<1>i. \A v \in Users : sends'[v].to = {} <=> sends'[v].step = "idle"
  BY <1>t DEF TypeOK
<1>0. CASE UNCHANGED vars
  BY <1>0, <1>i, TextsKept DEF vars, Awaits, Copied
<1>1. ASSUME NEW u \in Users, NEW kind \in {"broadcast", "tell"},
             NEW to \in SUBSET Users, to # {}, Send(u, kind, to)
      PROVE  Texts'
  BY <1>1, TextsSend
<1>2. ASSUME NEW u \in Users, SlotTaken(u)
      PROVE  Texts'
  <2>1. /\ \A v \in Users \ {u} : sends'[v] = sends[v]
        /\ sends'[u].step \in {"idle", "scan"} /\ sends'[u].to \subseteq sends[u].to
        /\ sends'[u].step # "idle" => sends'[u].text = sends[u].text
        /\ sends[u].step = "scan"
    BY <1>2, SlotTakenDoes DEF SlotTaken, At
  <2>2. \A v, r \in Users : Awaits(v, r)' => Awaits(v, r)
    BY <2>1 DEF Awaits, Copied
  <2>3. \A v \in Users : sends'[v].step # "idle" =>
            sends[v].step # "idle" /\ sends'[v].text = sends[v].text
    BY <2>1
  <2>. QED
    BY <1>2, <1>i, <2>2, <2>3, TextsKept DEF SlotTaken, box, handler
<1>3. ASSUME NEW u \in Users, CopyFirst(u)
      PROVE  Texts'
  BY <1>3, TextsCopy
<1>4. ASSUME NEW u \in Users, NEW s \in {"pad", "kill"},
             sends[u].step \in {"copy", "pad"},
             sends' = [sends EXCEPT ![u] = [@ EXCEPT !.step = s]]
      PROVE  /\ \A v, r \in Users : Awaits(v, r)' => Awaits(v, r)
             /\ \A v \in Users : sends'[v].step # "idle" =>
                    sends[v].step # "idle" /\ sends'[v].text = sends[v].text
  <2>1. /\ sends'[u].step = s /\ sends'[u].to = sends[u].to
        /\ sends'[u].text = sends[u].text
        /\ \A v \in Users \ {u} : sends'[v] = sends[v]
    BY <1>4, ToStep
  <2>. QED
    BY <1>4, <2>1 DEF Awaits, Copied
<1>5. ASSUME NEW u \in Users, CopyRest(u) \/ Pad(u)
      PROVE  Texts'
  <2>1. \E s \in {"pad", "kill"} : sends' = [sends EXCEPT ![u] = [@ EXCEPT !.step = s]]
    BY <1>5, CopyRestDoes, PadDoes
  <2>2. sends[u].step \in {"copy", "pad"}
    BY <1>5 DEF CopyRest, Pad, At
  <2>3. \A r \in Users, c \in Cells : message'[r][c] \in {message[r][c], NoMessage}
    <3>1. CASE CopyRest(u)
      BY <3>1 DEF CopyRest
    <3>2. CASE Pad(u)
      BY <3>2, PadDoes
    <3>. QED
      BY <1>5, <3>1, <3>2
  <2>4. UNCHANGED <<handler, sent>>
    BY <1>5 DEF CopyRest, Pad
  <2>. QED
    BY <2>1, <2>2, <2>3, <2>4, <1>i, <1>4, TextsKept DEF handler
<1>6. ASSUME NEW u \in Users, Kill(u) \/ KillSelf(u)
      PROVE  Texts'
  <2>1. sends[u].step = "kill" /\ sends' = [sends EXCEPT ![u] = Onward(u)]
    BY <1>6 DEF Kill, KillSelf, At
  <2>2. /\ sends'[u].to = sends[u].to \ {First(sends[u].to)}
        /\ sends'[u].step # "idle" => sends'[u].text = sends[u].text
        /\ \A v \in Users \ {u} : sends'[v] = sends[v]
        /\ sends'[u].step \in {"idle", "scan"}
    BY <2>1, OnwardStep, OnwardIs, ReceiverIsFirst
  <2>3. \A v, r \in Users : Awaits(v, r)' => Awaits(v, r)
    BY <2>1, <2>2 DEF Awaits, Copied
  <2>4. \A v \in Users : sends'[v].step # "idle" =>
            sends[v].step # "idle" /\ sends'[v].text = sends[v].text
    BY <2>1, <2>2
  <2>5. message' = message /\ printing' = printing /\ printed' = printed /\ sent' = sent
    BY <1>6 DEF Kill, KillSelf, box, handler
  <2>. QED
    BY <2>3, <2>4, <2>5, <1>i, TextsKept
<1>7. ASSUME NEW u \in Users, handler_sig(u) \/ PassEmpty(u)
      PROVE  Texts'
  <2>1. /\ message' = message /\ printing' = printing /\ printed' = printed
        /\ sent' = sent /\ sends' = sends
    BY <1>7 DEF handler_sig, PassEmpty, box
  <2>. QED
    BY <2>1, <1>i, TextsKept DEF Awaits, Copied
<1>8. ASSUME NEW u \in Users, PrintCell(u)
      PROVE  Texts'
  BY <1>8, TextsPrint
<1>9. ASSUME NEW u \in Users, ClearCell(u)
      PROVE  Texts'
  <2>1. \A r \in Users, c \in Cells :
            message'[r][c] = IF r = u /\ c = printing[u] THEN NoMessage ELSE message[r][c]
    BY <1>9, ClearCellDoes
  <2>2. \A r \in Users : r # u => printing'[r] = printing[r]
    BY <1>9, ClearCellDoes
  <2>3. printed' = printed /\ sent' = sent /\ sends' = sends
    BY <1>9 DEF ClearCell
  <2>4. \A r \in Users, c \in Cells : message'[r][c] \in {message[r][c], NoMessage}
    BY <2>1
  <2>5. \A r \in Users, c \in Cells :
            message'[r][c] # NoMessage /\ printing'[r] # c => printing[r] # c
    BY <2>1, <2>2
  <2>. QED
    BY <2>3, <2>4, <2>5, <1>i, TextsKept DEF Awaits, Copied
<1>. QED
  BY <1>0, <1>1, <1>2, <1>3, <1>5, <1>6, <1>7, <1>8, <1>9, Actions

(* No client gets a text twice: not from a handler that is signalled again      *)
(* between printing and clearing, and not from two cells.                       *)
THEOREM NothingIsPrintedTwice == Spec => []PrintedOnce
<1>1. Texts => PrintedOnce
  BY DEF Texts
<1>. QED
  BY <1>1, TypeInit, TypeStep, TextsInit, TextsStep, PTL DEF Spec
=============================================================================
