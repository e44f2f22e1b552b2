------------------------- MODULE SharedTable_proofs --------------------------
(* The shared table for any number of slots, processes and restarts, while it   *)
(* is calm; types hold always.  Three facts carry the rest.  Whoever is in the  *)
(* middle of something is alone (OneBusy).  The parent is at most one login     *)
(* ahead of n: room is counted with the process that was forked and has no id   *)
(* yet, and with the one that accept may return (RoomLeft).  The slot that a    *)
(* process has found is nobody's until it takes it, and a user behind the table *)
(* has not announced himself (NewcomersAreRight).                               *)
(*                                                                              *)
(* The lemmas are about a step of the table that keeps calm, and about a step   *)
(* that moves a process between places inside the table, whatever these are     *)
(* called: modules that refine what happens at a prompt use both.               *)
EXTENDS SharedTable, FunctionTheorems, FiniteSetTheorems, TLAPS

Forked == \E p \in Pids : At(p, "forked") \/ At(p, "found")

OneBusy == \A p, q \in Pids : p \in Busy /\ q \in Busy => p = q

RoomLeft ==
    /\ n <= MaxUsers + 1
    /\ main = "accept" => n <= MaxUsers
    /\ Forked => n <= MaxUsers
    /\ main = "accept" /\ Forked => n < MaxUsers

CountIsRight == n = Cardinality(Counted) + ghosts /\ ghosts \in Nat

IdsDiffer == \A p, q \in Online : id[p] = id[q] => p = q

SlotsAreOwned ==
    /\ \A p \in Online : id[p] \in Slots /\ taken[id[p]]
    /\ \A i \in Slots : taken[i] => \E p \in Online : id[p] = i

PidsAreOwn == \A p \in Online : ~At(p, "login") => pid[id[p]] = p

(* Names are unique among the slots whose owner has logged in.                  *)
Named(i) == taken[i] /\ \A p \in Online : id[p] = i => ~At(p, "login")
NamesDiffer ==
    \A i, j \in Table :
        Named(i) /\ Named(j) /\ nickname[i] = nickname[j] /\ nickname[i] # NoName
        => i = j

Owned == SlotsAreOwned /\ PidsAreOwn /\ NamesDiffer

NewcomersAreRight ==
    /\ \A p \in Pids : At(p, "found") => id[p] \in Slots /\ ~taken[id[p]]
    /\ \A p \in Online : id[p] \notin Table => At(p, "login")

TableIInv ==
    /\ TableTypeOK
    /\ DOMAIN step = Pids
    /\ OneBusy
    /\ RoomLeft
    /\ CountIsRight
    /\ IdsDiffer
    /\ Owned
    /\ NewcomersAreRight

(* Process p goes on inside the table, from its prompt only in turn.            *)
Within(p, s) ==
    /\ step' = [step EXCEPT ![p] = s]
    /\ s \notin Outside \cup {"login", "goodbye"}
    /\ step[p] \notin Outside \cup {"login", "goodbye"}
    /\ p \in Busy \/ Quiet
    /\ UNCHANGED <<taken, nickname, pid, n, main, waiting, id, ghosts, restarts>>

-----------------------------------------------------------------------------
LEMMA PidsFinite ==
    /\ IsFiniteSet(Pids) /\ IsFiniteSet(Online) /\ IsFiniteSet(Counted)
    /\ Cardinality(Counted) \in Nat
<1>1. IsFiniteSet(Pids)
  BY FS_Interval, SharedBounds DEF Pids
<1>2. Online \in SUBSET Pids /\ Counted \in SUBSET Pids
  BY DEF Online, Counted
<1> QED
  BY <1>1, <1>2, FS_Subset, FS_CardinalityType

LEMMA OnlineCounted == Online \subseteq Counted /\ Cardinality(Online) <= Cardinality(Counted)
<1>1. Online \in SUBSET Counted
  BY DEF Online, Counted, InTable
<1> QED
  BY <1>1, PidsFinite, FS_Subset

(* find_id gives out a slot that nobody has, in the table or behind it: were    *)
(* all of them taken, n would count one more user than the parent lets in.      *)
LEMMA FreeIsFree ==
    ASSUME TableIInv, NEW p \in Pids, At(p, "forked"), NEW i \in Slots, Free(i)
    PROVE  ~taken[i]
<1> SUFFICES ASSUME taken[i] PROVE FALSE
  OBVIOUS
<1>1. i = MaxUsers + 1
  BY SharedBounds DEF Free, Slots, Table
<1>2. \A j \in Slots : taken[j]
  BY <1>1, SharedBounds DEF Free, Slots, Table
<1> DEFINE f == [q \in Online |-> id[q]]
<1>3. f \in Bijection(Online, Slots)
  <2>1. f \in [Online -> Slots]
    BY DEF TableIInv, Owned, SlotsAreOwned
  <2>2. \A q, r \in Online : f[q] = f[r] => q = r
    BY DEF TableIInv, IdsDiffer
  <2>3. \A j \in Slots : \E q \in Online : f[q] = j
    BY <1>2 DEF TableIInv, Owned, SlotsAreOwned
  <2> QED
    BY <2>1, <2>2, <2>3, Fun_IsBij
<1>4. Cardinality(Online) = Cardinality(Slots)
  BY <1>3, PidsFinite, FS_Bijection DEF ExistsBijection
<1>5. Cardinality(Slots) = MaxUsers + 1
  BY FS_Interval, SharedBounds DEF Slots
<1>6. n >= MaxUsers + 1
  BY <1>4, <1>5, OnlineCounted, PidsFinite, SharedBounds
  DEF TableIInv, CountIsRight, TableTypeOK
<1>7. n <= MaxUsers
  BY DEF TableIInv, RoomLeft, Forked
<1> QED
  BY <1>6, <1>7, SharedBounds DEF TableIInv, TableTypeOK

-----------------------------------------------------------------------------
LEMMA InitTableIInv == TableInit => TableIInv
<1> SUFFICES ASSUME TableInit PROVE TableIInv
  OBVIOUS
<1>1. Online = {} /\ Counted = {} /\ \A p \in Pids : p \notin Busy /\ ~At(p, "forked") /\ ~At(p, "found")
  BY DEF TableInit, Online, Counted, InTable, Outside, Busy, Resting, At
<1>2. TableTypeOK /\ DOMAIN step = Pids
  <2>1. 0 \in 0..(MaxUsers + 1) /\ 0 \in 0..MaxRestarts
    BY SharedBounds
  <2>2. /\ taken \in [Slots -> BOOLEAN]
        /\ nickname \in [Slots -> Names \cup {NoName}]
        /\ pid \in [Slots -> Pids \cup {NoPid}]
        /\ id \in [Pids -> 0..(MaxUsers + 1)]
    BY <2>1 DEF TableInit
  <2>3. DOMAIN step = Pids
    BY DEF TableInit
  <2>4. n \in Int /\ ghosts \in Int /\ restarts \in 0..MaxRestarts /\ calm \in BOOLEAN
    BY <2>1 DEF TableInit
  <2>5. main \in {"check", "accept"} /\ waiting \in BOOLEAN
    BY DEF TableInit
  <2> QED
    BY <2>2, <2>3, <2>4, <2>5 DEF TableTypeOK
<1>3. CountIsRight
  BY <1>1, FS_EmptySet DEF TableInit, CountIsRight
<1>4. OneBusy /\ RoomLeft
  BY <1>1, SharedBounds DEF TableInit, OneBusy, RoomLeft, Forked
<1>5. IdsDiffer /\ Owned /\ NewcomersAreRight
  <2>1. \A i \in Slots : ~taken[i]
    BY DEF TableInit
  <2>2. Table \subseteq Slots
    BY SharedBounds DEF Table, Slots
  <2> QED
    BY <1>1, <2>1, <2>2
    DEF IdsDiffer, Owned, SlotsAreOwned, PidsAreOwn, NamesDiffer, Named, NewcomersAreRight
<1> QED
  BY <1>2, <1>3, <1>4, <1>5 DEF TableIInv

(* When it is quiet nobody is busy, and nobody is being logged in.              *)
LEMMA QuietIsQuiet ==
    ASSUME Quiet
    PROVE  /\ \A p \in Pids : p \notin Busy
           /\ \A p \in Pids : /\ ~At(p, "forked") /\ ~At(p, "found")
                               /\ ~At(p, "login") /\ ~At(p, "goodbye")
BY DEF Quiet, Busy, Resting, At

LEMMA ParentIInv ==
    ASSUME TableIInv, calm', Connect \/ Parent
    PROVE  TableIInv'
<1>1. CASE Connect
  <2>2. UNCHANGED <<memory, main, step, id, ghosts, restarts, calm>> /\ waiting' = TRUE
    BY <1>1 DEF Connect
  <2>3. Online' = Online /\ Counted' = Counted
    BY <2>2 DEF Online, Counted, InTable
  <2>4. (TableTypeOK /\ DOMAIN step = Pids /\ CountIsRight)'
    BY <2>2, <2>3 DEF TableIInv, TableTypeOK, CountIsRight, memory
  <2>5. (OneBusy /\ RoomLeft)'
    BY <2>2 DEF TableIInv, OneBusy, RoomLeft, Busy, Forked, At, memory
  <2>6. (IdsDiffer /\ Owned /\ NewcomersAreRight)'
    BY <2>2, <2>3 DEF TableIInv, IdsDiffer, Owned, SlotsAreOwned, PidsAreOwn,
        NamesDiffer, Named, NewcomersAreRight, At, memory
  <2> QED
    BY <2>4, <2>5, <2>6 DEF TableIInv
<1>2. CASE Check
  <2>1. /\ UNCHANGED <<memory, waiting, step, id, ghosts, restarts, calm>>
        /\ main = "check" /\ n < MaxUsers /\ main' = "accept"
    BY <1>2 DEF Check
  <2>2. Online' = Online /\ Counted' = Counted
    BY <2>1 DEF Online, Counted, InTable
  <2>3. (TableTypeOK /\ DOMAIN step = Pids /\ CountIsRight)'
    BY <2>1, <2>2 DEF TableIInv, TableTypeOK, CountIsRight, memory
  <2>4. (OneBusy /\ RoomLeft)'
    BY <2>1, SharedBounds
    DEF TableIInv, TableTypeOK, OneBusy, RoomLeft, Busy, Forked, At, memory
  <2>5. (IdsDiffer /\ Owned /\ NewcomersAreRight)'
    BY <2>1, <2>2 DEF TableIInv, IdsDiffer, Owned, SlotsAreOwned, PidsAreOwn,
        NamesDiffer, Named, NewcomersAreRight, At, memory
  <2> QED
    BY <2>3, <2>4, <2>5 DEF TableIInv
<1>3. CASE Accept
  <2> PICK p \in Pids : step[p] = "none" /\ step' = [step EXCEPT ![p] = "forked"]
    BY <1>3 DEF Accept, Begin, Become
  <2>1. /\ UNCHANGED <<memory, id, ghosts, restarts>>
        /\ main = "accept" /\ main' = "check" /\ waiting /\ waiting' = FALSE
        /\ calm' \in BOOLEAN
    BY <1>3 DEF Accept, Begin, TableIInv, TableTypeOK
  <2>9. Quiet
    BY <1>3 DEF Accept, Begin
  <2>2. \A q \in Pids : q \notin Busy /\ ~At(q, "forked") /\ ~At(q, "found")
    BY <2>9, QuietIsQuiet
  <2>3. Online' = Online /\ Counted' = Counted
    BY DEF TableIInv, Online, Counted, InTable, Outside
  <2>4. (TableTypeOK /\ DOMAIN step = Pids /\ CountIsRight)'
    BY <2>1, <2>3 DEF TableIInv, TableTypeOK, CountIsRight, memory
  <2>5. OneBusy'
    BY <2>1, <2>2 DEF TableIInv, OneBusy, Busy, memory
  <2>6. RoomLeft'
    BY <2>1, <2>2, SharedBounds DEF TableIInv, TableTypeOK, RoomLeft, Forked, At, memory
  <2>7. \A q \in Online : step'[q] = step[q]
    BY DEF TableIInv, Online, InTable, Outside
  <2>8. (IdsDiffer /\ Owned)'
    BY <2>1, <2>3, <2>7 DEF TableIInv, IdsDiffer, Owned, SlotsAreOwned, PidsAreOwn,
        NamesDiffer, Named, At, memory
  <2>10. NewcomersAreRight'
    <3>1. \A q \in Pids : ~At(q, "found")'
      BY <2>2 DEF At, TableIInv
    <3> QED
      BY <2>1, <2>3, <2>7, <3>1 DEF TableIInv, NewcomersAreRight, At
  <2> QED
    BY <2>4, <2>5, <2>6, <2>8, <2>10 DEF TableIInv
<1> QED
  BY <1>1, <1>2, <1>3 DEF Parent

(* find_id: the slot it comes back with is nobody's.                            *)
LEMMA FindIdIInv ==
    ASSUME TableIInv, calm', NEW p \in Pids, find_id(p)
    PROVE  TableIInv'
<1> PICK i \in Slots : Free(i) /\ id' = [id EXCEPT ![p] = i]
  BY DEF find_id
<1>1. /\ At(p, "forked") /\ step' = [step EXCEPT ![p] = "found"]
      /\ UNCHANGED <<memory, main, waiting, ghosts, restarts, calm>>
  BY DEF find_id, Become
<1>2. ~taken[i]
  BY <1>1, FreeIsFree
<1>3. p \notin Counted /\ p \notin Online /\ p \in Busy
  BY <1>1 DEF Counted, Online, InTable, Outside, At, Busy, Resting
<1>4. Online' = Online /\ Counted' = Counted
  BY <1>1, <1>3 DEF TableIInv, Online, Counted, InTable, Outside
<1>5. TableTypeOK' /\ (DOMAIN step = Pids)'
  BY <1>1, SharedBounds DEF TableIInv, TableTypeOK, Slots, memory
<1>6. CountIsRight'
  BY <1>1, <1>4 DEF TableIInv, CountIsRight, memory
<1>7. \A q \in Pids : q \in Busy' => q = p
  BY <1>1, <1>3 DEF TableIInv, OneBusy, Busy
<1>8. OneBusy' /\ Forked
  BY <1>1, <1>7 DEF OneBusy, Forked
<1>9. RoomLeft'
  BY <1>1, <1>8 DEF TableIInv, RoomLeft, memory
<1>10. \A q \in Online : id'[q] = id[q] /\ step'[q] = step[q]
  BY <1>1, <1>3 DEF TableIInv, TableTypeOK, Online
<1>11. IdsDiffer'
  BY <1>4, <1>10 DEF TableIInv, IdsDiffer
<1>12. Owned'
  <2>1. SlotsAreOwned'
    BY <1>1, <1>4, <1>10 DEF TableIInv, Owned, SlotsAreOwned, memory
  <2>2. PidsAreOwn'
    BY <1>1, <1>4, <1>10 DEF TableIInv, Owned, PidsAreOwn, memory, At
  <2>3. \A j \in Table : Named(j)' <=> Named(j)
    BY <1>1, <1>4, <1>10 DEF Named, memory, At
  <2>4. NamesDiffer'
    BY <1>1, <2>3 DEF TableIInv, Owned, NamesDiffer, memory
  <2> QED
    BY <2>1, <2>2, <2>4 DEF Owned
<1>13. NewcomersAreRight'
  <2>1. \A q \in Pids : At(q, "found")' => q = p
    BY <1>7 DEF At, Busy, Resting
  <2>2. id'[p] = i
    BY DEF TableIInv, TableTypeOK
  <2>3. \A q \in Pids : At(q, "found")' => id'[q] \in Slots /\ ~taken'[id'[q]]
    BY <1>1, <1>2, <2>1, <2>2 DEF memory
  <2>4. \A q \in Online' : id'[q] \notin Table => At(q, "login")'
    BY <1>4, <1>10 DEF TableIInv, NewcomersAreRight, At
  <2> QED
    BY <2>3, <2>4 DEF NewcomersAreRight
<1> QED
  BY <1>5, <1>6, <1>8, <1>9, <1>11, <1>12, <1>13 DEF TableIInv

(* And it is p's when p has taken it: nobody else looked for one meanwhile.     *)
LEMMA TakeIdIInv ==
    ASSUME TableIInv, calm', NEW p \in Pids, take_id(p)
    PROVE  TableIInv'
<1> DEFINE i == id[p]
<1>1. /\ At(p, "found") /\ n' = n + 1 /\ step' = [step EXCEPT ![p] = "login"]
      /\ taken' = [taken EXCEPT ![i] = TRUE]
      /\ UNCHANGED <<nickname, pid, main, waiting, id, ghosts, restarts, calm>>
  BY DEF take_id, Become
<1>2. i \in Slots /\ ~taken[i]
  BY <1>1 DEF TableIInv, NewcomersAreRight
<1> HIDE DEF i
<1>16. i = id[p]
  BY DEF i
<1>3. p \notin Counted /\ p \notin Online /\ p \in Busy
  BY <1>1 DEF Counted, Online, InTable, Outside, At, Busy, Resting
<1>4. Online' = Online \cup {p} /\ Counted' = Counted \cup {p}
  BY <1>1 DEF TableIInv, Online, Counted, InTable, Outside
<1>5. TableTypeOK' /\ (DOMAIN step = Pids)'
  BY <1>1, <1>2, SharedBounds DEF TableIInv, TableTypeOK, Slots
<1>6. CountIsRight'
  <2>1. Cardinality(Counted') = Cardinality(Counted) + 1
    BY <1>3, <1>4, PidsFinite, FS_AddElement
  <2> QED
    BY <1>1, <2>1, PidsFinite DEF TableIInv, CountIsRight, TableTypeOK
<1>7. \A q \in Pids : q \in Busy' => q = p
  BY <1>1, <1>3 DEF TableIInv, OneBusy, Busy
<1>8. OneBusy'
  BY <1>7 DEF OneBusy
<1>9. RoomLeft'
  <2>1. ~Forked'
    BY <1>1, <1>7 DEF Forked, At, Busy, Resting, TableIInv
  <2> QED
    BY <1>1, <2>1, SharedBounds DEF TableIInv, TableTypeOK, RoomLeft, Forked
<1>10. \A q \in Online : q # p /\ id'[q] = id[q] /\ id[q] # i /\ step'[q] = step[q]
  BY <1>1, <1>2, <1>3 DEF TableIInv, TableTypeOK, Owned, SlotsAreOwned, Online
<1>11. id'[p] = i /\ step'[p] = "login"
  BY <1>1, <1>16 DEF TableIInv, TableTypeOK
<1>12. IdsDiffer'
  BY <1>4, <1>10, <1>11 DEF TableIInv, IdsDiffer
<1>13. SlotsAreOwned'
  <2>3. \A j \in Slots : taken'[j] <=> taken[j] \/ j = i
    BY <1>1, <1>2 DEF TableIInv, TableTypeOK
  <2>1. \A q \in Online' : id'[q] \in Slots /\ taken'[id'[q]]
    BY <1>2, <1>4, <1>10, <1>11, <2>3 DEF TableIInv, Owned, SlotsAreOwned
  <2>2. \A j \in Slots : taken'[j] => \E q \in Online' : id'[q] = j
    BY <1>4, <1>10, <1>11, <2>3 DEF TableIInv, Owned, SlotsAreOwned
  <2> QED
    BY <2>1, <2>2 DEF SlotsAreOwned
<1>14. PidsAreOwn'
  BY <1>1, <1>4, <1>10, <1>11 DEF TableIInv, Owned, PidsAreOwn, At
<1>15. NamesDiffer'
  <2>1. ASSUME NEW j \in Table, Named(j)' PROVE j # i /\ Named(j)
    <3>1. j # i
      BY <1>4, <1>11, <2>1 DEF Named, At
    <3>2. j \in Slots
      BY SharedBounds DEF Table, Slots
    <3>3. taken[j]
      BY <1>1, <2>1, <3>1, <3>2 DEF Named, TableIInv, TableTypeOK
    <3>4. \A q \in Online : id[q] = j => ~At(q, "login")
      BY <1>4, <1>10, <2>1 DEF Named, At
    <3> QED
      BY <3>1, <3>3, <3>4 DEF Named
  <2> QED
    BY <1>1, <2>1 DEF TableIInv, Owned, NamesDiffer
<1>17. NewcomersAreRight'
  <2>1. \A q \in Pids : ~At(q, "found")'
    BY <1>1, <1>3, <1>7 DEF At, Busy, Resting, TableIInv
  <2>2. \A q \in Online' : id'[q] \notin Table => At(q, "login")'
    BY <1>4, <1>10, <1>11 DEF TableIInv, NewcomersAreRight, At
  <2> QED
    BY <2>1, <2>2 DEF NewcomersAreRight
<1> QED
  BY <1>5, <1>6, <1>8, <1>9, <1>12, <1>13, <1>14, <1>15, <1>17 DEF TableIInv, Owned

(* The rest of login fills the slot that is p's, which is in the table when it  *)
(* stays calm.                                                                  *)
LEMMA LoginTableIInv ==
    ASSUME TableIInv, calm', NEW p \in Pids, login(p)
    PROVE  TableIInv'
<1>1. /\ nickname' = [nickname EXCEPT ![id[p]] = NoName]
      /\ pid' = [pid EXCEPT ![id[p]] = p]
      /\ step' = [step EXCEPT ![p] = "prompt"]
      /\ step[p] = "login" /\ id[p] \in Table
      /\ UNCHANGED <<taken, n, main, waiting, id, ghosts, restarts, calm>>
  BY DEF login, Become, At
<1>2. p \in Online /\ id[p] \in Slots
  BY <1>1 DEF TableIInv, Owned, SlotsAreOwned, Online, InTable, Outside
<1>3. Online' = Online /\ Counted' = Counted
  BY <1>1 DEF TableIInv, Online, Counted, InTable, Outside
<1>4. (TableTypeOK /\ DOMAIN step = Pids /\ CountIsRight)'
  BY <1>1, <1>2, <1>3 DEF TableIInv, TableTypeOK, CountIsRight
<1>5. \A q \in Pids : q \notin Busy'
  BY <1>1 DEF TableIInv, OneBusy, Busy, Resting
<1>6. \A q \in Pids : ~At(q, "forked")' /\ ~At(q, "found")'
  BY <1>5 DEF Busy, Resting, At
<1>7. OneBusy'
  BY <1>5 DEF OneBusy
<1>8. RoomLeft'
  BY <1>1, <1>6 DEF TableIInv, RoomLeft, Forked
<1>9. IdsDiffer'
  BY <1>1, <1>3 DEF TableIInv, IdsDiffer
<1>10. SlotsAreOwned'
  BY <1>1, <1>3 DEF TableIInv, Owned, SlotsAreOwned
<1>11. \A q \in Online : q # p => id[q] # id[p] /\ step'[q] = step[q]
  BY <1>1, <1>2 DEF TableIInv, IdsDiffer, Online
<1>12. PidsAreOwn'
  BY <1>1, <1>2, <1>3, <1>11
  DEF TableIInv, TableTypeOK, Owned, PidsAreOwn, SlotsAreOwned, At
<1>13. NamesDiffer'
  <2>1. \A j \in Table : nickname'[j] # NoName => j # id[p] /\ nickname'[j] = nickname[j]
    BY <1>1, SharedBounds DEF TableIInv, TableTypeOK, Table, Slots
  <2>2. \A j \in Table : j # id[p] /\ Named(j)' => Named(j)
    BY <1>1, <1>2, <1>3, <1>11 DEF Named, At
  <2> QED
    BY <2>1, <2>2 DEF TableIInv, Owned, NamesDiffer
<1>14. NewcomersAreRight'
  BY <1>1, <1>3, <1>6, <1>11 DEF TableIInv, NewcomersAreRight, At
<1> QED
  BY <1>4, <1>7, <1>8, <1>9, <1>10, <1>12, <1>13, <1>14 DEF TableIInv, Owned

LEMMA NameTableIInv ==
    ASSUME TableIInv, calm', NEW p \in Pids, NEW newname \in Names, name(p, newname)
    PROVE  TableIInv'
<1>1. /\ Turn /\ step[p] = "prompt"
      /\ \A i \in Table : taken[i] => nickname[i] # newname
      /\ nickname' = [nickname EXCEPT ![id[p]] = newname]
      /\ UNCHANGED <<taken, pid, n, main, waiting, step, id, ghosts, restarts>>
      /\ calm' \in BOOLEAN
  BY DEF name, At, TableIInv, TableTypeOK
<1>2. Online' = Online /\ Counted' = Counted
  BY <1>1 DEF Online, Counted, InTable
<1>3. p \in Online /\ id[p] \in Slots
  BY <1>1 DEF TableIInv, Owned, SlotsAreOwned, Online, InTable, Outside
<1>4. (TableTypeOK /\ DOMAIN step = Pids /\ CountIsRight)'
  BY <1>1, <1>2, <1>3 DEF TableIInv, TableTypeOK, CountIsRight
<1>5. (OneBusy /\ RoomLeft)'
  BY <1>1 DEF TableIInv, OneBusy, RoomLeft, Busy, Forked, At
<1>6. (IdsDiffer /\ SlotsAreOwned /\ PidsAreOwn)'
  BY <1>1, <1>2 DEF TableIInv, Owned, IdsDiffer, SlotsAreOwned, PidsAreOwn, At
<1>7. NamesDiffer'
  <2>1. \A j \in Table : Named(j)' <=> Named(j)
    BY <1>1, <1>2 DEF Named, At
  <2>2. \A j \in Table : nickname'[j] = IF j = id[p] THEN newname ELSE nickname[j]
    BY <1>1, <1>3, SharedBounds DEF TableIInv, TableTypeOK, Table, Slots
  <2> QED
    BY <1>1, <2>1, <2>2 DEF TableIInv, Owned, NamesDiffer, Named
<1>8. NewcomersAreRight'
  BY <1>1, <1>2 DEF TableIInv, NewcomersAreRight, At
<1> QED
  BY <1>4, <1>5, <1>6, <1>7, <1>8 DEF TableIInv, Owned

(* logout gives the id back; the user stays counted until its process ends.     *)
LEMMA LogoutTableIInv ==
    ASSUME TableIInv, calm', NEW p \in Pids, logout(p)
    PROVE  TableIInv'
<1>1. /\ Quiet /\ step[p] = "prompt"
      /\ taken' = [taken EXCEPT ![id[p]] = FALSE]
      /\ step' = [step EXCEPT ![p] = "goodbye"]
      /\ UNCHANGED <<nickname, pid, n, main, waiting, id, ghosts, restarts>>
      /\ calm' \in BOOLEAN
  BY DEF logout, At, Begin, Become, TableIInv, TableTypeOK
<1>2. p \in Online /\ id[p] \in Slots
  BY <1>1 DEF TableIInv, Owned, SlotsAreOwned, Online, InTable, Outside
<1>3. Online' = Online \ {p} /\ Counted' = Counted
  BY <1>1 DEF TableIInv, Online, Counted, InTable, Outside
<1>4. (TableTypeOK /\ DOMAIN step = Pids /\ CountIsRight)'
  BY <1>1, <1>2, <1>3 DEF TableIInv, TableTypeOK, CountIsRight
<1>5. \A q \in Pids : q \notin Busy
  BY <1>1, QuietIsQuiet
<1>6. OneBusy'
  BY <1>1, <1>5 DEF TableIInv, OneBusy, Busy
<1>8. ~Forked /\ ~Forked'
  BY <1>1, QuietIsQuiet DEF Forked, At, TableIInv
<1>9. RoomLeft'
  BY <1>1, <1>8 DEF TableIInv, RoomLeft
<1>10. \A q \in Online' : q \in Online /\ id[q] # id[p] /\ step'[q] = step[q]
  BY <1>1, <1>2, <1>3 DEF TableIInv, IdsDiffer, Online
<1>11. (IdsDiffer /\ SlotsAreOwned /\ PidsAreOwn)'
  BY <1>1, <1>2, <1>3, <1>10
  DEF TableIInv, TableTypeOK, Owned, IdsDiffer, SlotsAreOwned, PidsAreOwn, At
<1>12. NamesDiffer'
  <2>1. ASSUME NEW j \in Table, Named(j)' PROVE Named(j)
    <3>1. j \in Slots /\ j # id[p]
      BY <1>1, <1>2, <2>1, SharedBounds DEF Named, Table, Slots, TableIInv, TableTypeOK
    <3> QED
      BY <1>1, <1>3, <1>10, <2>1, <3>1 DEF Named, At, TableIInv, TableTypeOK
  <2> QED
    BY <1>1, <2>1 DEF TableIInv, Owned, NamesDiffer
<1>13. NewcomersAreRight'
  BY <1>1, <1>8, <1>10 DEF TableIInv, NewcomersAreRight, Forked, At
<1> QED
  BY <1>4, <1>6, <1>9, <1>11, <1>12, <1>13 DEF TableIInv, Owned

LEMMA EndsTableIInv ==
    ASSUME TableIInv, calm', NEW p \in Pids, Ends(p)
    PROVE  TableIInv'
<1>1. /\ step[p] = "goodbye" /\ n' = n - 1
      /\ step' = [step EXCEPT ![p] = "gone"]
      /\ id' = [id EXCEPT ![p] = 0]
      /\ UNCHANGED <<taken, nickname, pid, main, waiting, ghosts, restarts, calm>>
  BY DEF Ends, At, Become
<1>2. p \in Counted /\ p \notin Online /\ p \in Busy
  BY <1>1 DEF Counted, Online, InTable, Outside, Busy, Resting
<1>3. Online' = Online /\ Counted' = Counted \ {p}
  BY <1>1 DEF TableIInv, Online, Counted, InTable, Outside
<1>4. TableTypeOK' /\ (DOMAIN step = Pids)'
  BY <1>1, SharedBounds DEF TableIInv, TableTypeOK
<1>5. CountIsRight'
  <2>1. Cardinality(Counted') = Cardinality(Counted) - 1
    BY <1>2, <1>3, PidsFinite, FS_RemoveElement
  <2> QED
    BY <1>1, <2>1, PidsFinite DEF TableIInv, CountIsRight, TableTypeOK
<1>6. \A q \in Pids : q \notin Busy'
  BY <1>1, <1>2 DEF TableIInv, OneBusy, Busy, Resting
<1>7. ~Forked'
  BY <1>6 DEF Forked, At, Busy, Resting
<1>8. OneBusy'
  BY <1>6 DEF OneBusy
<1>9. RoomLeft'
  BY <1>1, <1>7, SharedBounds DEF TableIInv, RoomLeft, TableTypeOK
<1>10. \A q \in Online : q # p /\ id'[q] = id[q] /\ step'[q] = step[q]
  BY <1>1, <1>2 DEF TableIInv, TableTypeOK, Online
<1>11. (IdsDiffer /\ SlotsAreOwned /\ PidsAreOwn)'
  BY <1>1, <1>3, <1>10 DEF TableIInv, Owned, IdsDiffer, SlotsAreOwned, PidsAreOwn, At
<1>12. NamesDiffer'
  <2>1. \A j \in Table : Named(j)' => Named(j)
    BY <1>1, <1>3, <1>10 DEF Named, At
  <2> QED
    BY <1>1, <2>1 DEF TableIInv, Owned, NamesDiffer
<1>13. NewcomersAreRight'
  BY <1>1, <1>3, <1>7, <1>10 DEF TableIInv, NewcomersAreRight, Forked, At
<1> QED
  BY <1>4, <1>5, <1>8, <1>9, <1>11, <1>12, <1>13 DEF TableIInv, Owned

(* A restart: nobody is there, and n stays with nobody to count down.           *)
LEMMA RestartIInv ==
    ASSUME TableIInv, calm', Restart
    PROVE  TableIInv'
<1>1. /\ restarts < MaxRestarts /\ restarts' = restarts + 1 /\ ghosts' = n /\ n' = n
      /\ taken' = [i \in Slots |-> FALSE]
      /\ nickname' = [i \in Slots |-> NoName]
      /\ pid' = [i \in Slots |-> NoPid]
      /\ main' = "check" /\ waiting' = FALSE
      /\ step' = [p \in Pids |-> IF step[p] = "none" THEN "none" ELSE "gone"]
      /\ id' = [p \in Pids |-> 0]
      /\ calm' = calm
  BY DEF Restart
<1>2. \A p \in Pids : step'[p] \in {"none", "gone"}
  BY <1>1
<1>3. Online' = {} /\ Counted' = {}
  BY <1>2 DEF Online, Counted, InTable, Outside
<1>4. TableTypeOK' /\ (DOMAIN step = Pids)'
  <2>1. n \in Int /\ calm \in BOOLEAN
    BY DEF TableIInv, TableTypeOK
  <2>2. (restarts \in 0..MaxRestarts)' /\ 0 \in 0..(MaxUsers + 1)
    BY <1>1, SharedBounds DEF TableIInv, TableTypeOK
  <2>3. /\ taken' \in [Slots -> BOOLEAN]
        /\ nickname' \in [Slots -> Names \cup {NoName}]
        /\ pid' \in [Slots -> Pids \cup {NoPid}]
        /\ id' \in [Pids -> 0..(MaxUsers + 1)]
        /\ DOMAIN step' = Pids
    BY <1>1, <2>2
  <2>4. waiting' \in BOOLEAN /\ main' \in {"check", "accept"}
    BY <1>1
  <2> QED
    BY <1>1, <2>1, <2>2, <2>3, <2>4 DEF TableTypeOK
<1>5. CountIsRight'
  <2>1. n \in Nat
    BY PidsFinite DEF TableIInv, CountIsRight, TableTypeOK
  <2> QED
    BY <1>1, <1>3, <2>1, FS_EmptySet DEF CountIsRight
<1>6. OneBusy' /\ ~Forked'
  BY <1>2 DEF OneBusy, Forked, Busy, Resting, At
<1>7. RoomLeft'
  BY <1>1, <1>6 DEF TableIInv, RoomLeft
<1>8. (IdsDiffer /\ SlotsAreOwned /\ PidsAreOwn)'
  BY <1>1, <1>3 DEF IdsDiffer, SlotsAreOwned, PidsAreOwn
<1>9. NamesDiffer'
  <2>1. \A i \in Table : ~taken'[i]
    BY <1>1, SharedBounds DEF Table, Slots
  <2> QED
    BY <2>1 DEF NamesDiffer, Named
<1>10. NewcomersAreRight'
  BY <1>2, <1>3 DEF NewcomersAreRight, At
<1> QED
  BY <1>4, <1>5, <1>6, <1>7, <1>8, <1>9, <1>10 DEF TableIInv, Owned

LEMMA WithinIInv ==
    ASSUME TableIInv, calm', calm' \in BOOLEAN, NEW p \in Pids, NEW s, Within(p, s)
    PROVE  TableIInv'
<1>1. /\ step' = [step EXCEPT ![p] = s]
      /\ s \notin Outside \cup {"login", "goodbye"}
      /\ step[p] \notin Outside \cup {"login", "goodbye"}
      /\ UNCHANGED <<taken, nickname, pid, n, main, waiting, id, ghosts, restarts>>
  BY DEF Within
<1>2. Online' = Online /\ Counted' = Counted
  BY <1>1 DEF TableIInv, Online, Counted, InTable, Outside
<1>3. (TableTypeOK /\ DOMAIN step = Pids /\ CountIsRight)'
  BY <1>1, <1>2 DEF TableIInv, TableTypeOK, CountIsRight
<1>4. \A q \in Pids : /\ At(q, "login")' <=> At(q, "login")
                      /\ At(q, "forked")' <=> At(q, "forked")
                      /\ At(q, "found")' <=> At(q, "found")
  BY <1>1 DEF TableIInv, At, Outside
<1>5. OneBusy'
  <2>1. CASE p \in Busy
    BY <1>1, <2>1 DEF TableIInv, OneBusy, Busy
  <2>2. CASE Quiet
    <3>1. \A q \in Pids : q \notin Busy
      BY <2>2, QuietIsQuiet
    <3> QED
      BY <1>1, <3>1 DEF TableIInv, OneBusy, Busy
  <2> QED
    BY <2>1, <2>2 DEF Within
<1>6. RoomLeft'
  BY <1>1, <1>4 DEF TableIInv, RoomLeft, Forked
<1>7. (IdsDiffer /\ SlotsAreOwned)'
  BY <1>1, <1>2 DEF TableIInv, Owned, IdsDiffer, SlotsAreOwned
<1>8. PidsAreOwn'
  BY <1>1, <1>2, <1>4 DEF TableIInv, Owned, PidsAreOwn, Online
<1>9. NamesDiffer'
  <2>1. \A i \in Table : Named(i)' <=> Named(i)
    BY <1>1, <1>2, <1>4 DEF Named, Online
  <2> QED
    BY <1>1, <2>1 DEF TableIInv, Owned, NamesDiffer
<1>10. NewcomersAreRight'
  BY <1>1, <1>2, <1>4 DEF TableIInv, NewcomersAreRight, Online
<1> QED
  BY <1>3, <1>5, <1>6, <1>7, <1>8, <1>9, <1>10 DEF TableIInv, Owned

LEMMA StutterIInv == TableIInv /\ UNCHANGED tableVars => TableIInv'
<1> SUFFICES ASSUME TableIInv, UNCHANGED tableVars PROVE TableIInv'
  OBVIOUS
<1>1. Online' = Online /\ Counted' = Counted
  BY DEF tableVars, Online, Counted, InTable
<1>2. (TableTypeOK /\ DOMAIN step = Pids /\ CountIsRight /\ RoomLeft)'
  BY <1>1 DEF tableVars, TableIInv, TableTypeOK, CountIsRight, RoomLeft, Forked, At
<1>3. OneBusy'
  BY DEF tableVars, TableIInv, OneBusy, Busy
<1>4. (IdsDiffer /\ Owned /\ NewcomersAreRight)'
  BY <1>1 DEF tableVars, TableIInv, Owned, IdsDiffer, SlotsAreOwned, PidsAreOwn,
    NamesDiffer, Named, NewcomersAreRight, At
<1> QED
  BY <1>2, <1>3, <1>4 DEF TableIInv

LEMMA NextTableIInv == TableIInv /\ calm' /\ [TableNext]_tableVars => TableIInv'
<1> SUFFICES ASSUME TableIInv, calm', [TableNext]_tableVars PROVE TableIInv'
  OBVIOUS
<1>1. CASE Connect \/ Parent
  BY <1>1, ParentIInv
<1>2. CASE Restart
  BY <1>2, RestartIInv
<1>3. ASSUME NEW p \in Pids, Child(p) PROVE TableIInv'
  BY <1>3, FindIdIInv, TakeIdIInv, LoginTableIInv, EndsTableIInv DEF Child
<1>4. ASSUME NEW p \in Pids, Client(p) PROVE TableIInv'
  BY <1>4, LogoutTableIInv, NameTableIInv DEF Client
<1>5. CASE UNCHANGED tableVars
  BY <1>5, StutterIInv
<1> QED
  BY <1>1, <1>2, <1>3, <1>4, <1>5 DEF TableNext

(* What the invariant says to a reader.                                         *)
LEMMA TableIInvSuffices ==
    ASSUME TableIInv
    PROVE  TableTypeOK /\ AtMostOneTooMany /\ TableAgrees
<1>1. AtMostOneTooMany
  <2>4. \A p \in Online : id[p] \notin Table => At(p, "login")
    BY DEF TableIInv, NewcomersAreRight
  <2> DEFINE extra == {p \in Online : id[p] \notin Table}
  <2>1. \A p \in extra : id[p] = MaxUsers + 1
    BY SharedBounds DEF TableIInv, Owned, SlotsAreOwned, Slots, Table
  <2>2. extra = {} \/ \E p : extra = {p}
    BY <2>1 DEF TableIInv, IdsDiffer
  <2>3. Cardinality(extra) <= 1
    <3>1. CASE extra = {}
      BY <3>1, FS_EmptySet
    <3>2. ASSUME NEW p, extra = {p} PROVE Cardinality(extra) = 1
      BY <3>2, FS_Singleton
    <3> HIDE DEF extra
    <3> QED
      BY <2>2, <3>1, <3>2
  <2> QED
    BY <2>3, <2>4 DEF TableIInv, CountIsRight, RoomLeft, AtMostOneTooMany
<1>2. TableAgrees
  <2>1. {i \in Slots : taken[i]} = {id[p] : p \in Online}
    BY DEF TableIInv, Owned, SlotsAreOwned
  <2>2. ASSUME NEW i \in Table, NEW j \in Table,
               taken[i], taken[j], nickname[i] = nickname[j], nickname[i] # NoName,
               \A p \in Online : ~At(p, "login")
        PROVE  i = j
    BY <2>2 DEF TableIInv, Owned, NamesDiffer, Named
  <2> QED
    BY <2>1, <2>2 DEF TableIInv, IdsDiffer, Owned, PidsAreOwn, TableAgrees
<1> QED
  BY <1>1, <1>2 DEF TableIInv

(* Types are right whether it is calm or not.                                   *)
LEMMA TypesStay ==
    ASSUME TableTypeOK, DOMAIN step = Pids, [TableNext]_tableVars
    PROVE  (TableTypeOK /\ DOMAIN step = Pids)'
<1> USE SharedBounds DEF TableTypeOK
<1>1. CASE Connect \/ Parent \/ UNCHANGED tableVars
  BY <1>1 DEF Connect, Parent, Check, Accept, Begin, Become, memory, tableVars
<1>2. CASE Restart
  <2>1. restarts' \in 0..MaxRestarts /\ 0 \in 0..(MaxUsers + 1)
    BY <1>2 DEF Restart
  <2> QED
    BY <1>2, <2>1 DEF Restart
<1>3. ASSUME NEW p \in Pids, find_id(p) PROVE (TableTypeOK /\ DOMAIN step = Pids)'
  BY <1>3 DEF find_id, Become, memory, Slots
<1>4. ASSUME NEW p \in Pids, take_id(p) PROVE (TableTypeOK /\ DOMAIN step = Pids)'
  <2>1. taken' \in [Slots -> BOOLEAN]
    BY <1>4 DEF take_id
  <2>2. n' \in Int /\ DOMAIN step' = Pids
    BY <1>4 DEF take_id, Become
  <2> QED
    BY <1>4, <2>1, <2>2 DEF take_id
<1>5. ASSUME NEW p \in Pids, login(p) PROVE (TableTypeOK /\ DOMAIN step = Pids)'
  <2>1. taken' \in [Slots -> BOOLEAN] /\ n' \in Int /\ calm' \in BOOLEAN
    <3>1. \A i \in Slots : Announced(i) \in BOOLEAN
      BY DEF Announced
    <3>2. CASE UNCHANGED <<taken, n, calm>>
      BY <3>2
    <3>3. CASE taken' = [i \in Slots |-> Announced(i)] /\ n' = 0 /\ calm' = FALSE
      <4>1. taken' \in [Slots -> BOOLEAN]
        BY <3>1, <3>3, Zenon
      <4>2. n' = 0 /\ calm' \in BOOLEAN
        BY <3>3, Zenon
      <4>3. n' \in Int
        BY <4>2
      <4> QED
        BY <4>1, <4>2, <4>3, Zenon
    <3> QED
      BY <1>5, <3>2, <3>3 DEF login
  <2> QED
    BY <1>5, <2>1 DEF login, Become
<1>6. ASSUME NEW p \in Pids, Ends(p) PROVE (TableTypeOK /\ DOMAIN step = Pids)'
  BY <1>6 DEF Ends, Become
<1>7. ASSUME NEW p \in Pids, logout(p) PROVE (TableTypeOK /\ DOMAIN step = Pids)'
  BY <1>7 DEF logout, Begin, Become
<1>8. ASSUME NEW p \in Pids, NEW newname \in Names, name(p, newname)
      PROVE  (TableTypeOK /\ DOMAIN step = Pids)'
  BY <1>8 DEF name
<1> QED
  BY <1>1, <1>2, <1>3, <1>4, <1>5, <1>6, <1>7, <1>8 DEF TableNext, Child, Client

(* What is calm was calm before.                                                *)
LEMMA CalmWasCalm ==
    ASSUME [TableNext]_tableVars, calm'
    PROVE  calm
<1>1. CASE Connect \/ Parent \/ Restart \/ UNCHANGED tableVars
  BY <1>1 DEF Connect, Parent, Check, Accept, Begin, Restart, tableVars
<1>2. ASSUME NEW p \in Pids, Child(p) \/ Client(p) PROVE calm
  BY <1>2 DEF Child, Client, find_id, take_id, login, Ends, logout, name, Begin
<1> QED
  BY <1>1, <1>2 DEF TableNext

-----------------------------------------------------------------------------
(* The invariant of the shared table: types always, and while it is calm one    *)
(* process between its fork and the prompt, room for whoever the parent let in, *)
(* and slots that agree with processes.                                         *)
THEOREM TableInductiveInvariant ==
    TableSpec => [](TableTypeOK /\ DOMAIN step = Pids /\ (calm => TableIInv))
<1>1. TableInit => TableTypeOK /\ DOMAIN step = Pids /\ (calm => TableIInv)
  BY InitTableIInv DEF TableIInv
<1>2. ASSUME TableTypeOK, DOMAIN step = Pids, calm => TableIInv, [TableNext]_tableVars
      PROVE  (TableTypeOK /\ DOMAIN step = Pids /\ (calm => TableIInv))'
  BY <1>2, TypesStay, CalmWasCalm, NextTableIInv
<1> QED
  BY <1>1, <1>2, PTL DEF TableSpec

(* The table without the pipes: types, and in calm at most one user is one too  *)
(* many, who has not announced himself, and table, processes and names agree.   *)
THEOREM SharedTableIsRight ==
    TableSpec => [](TableTypeOK /\ AtMostOneTooMany /\ TableAgrees)
<1>1. TableTypeOK /\ (calm => TableIInv) => TableTypeOK /\ AtMostOneTooMany /\ TableAgrees
  BY TableIInvSuffices DEF AtMostOneTooMany, TableAgrees
<1> QED
  BY <1>1, TableInductiveInvariant, PTL
=============================================================================
