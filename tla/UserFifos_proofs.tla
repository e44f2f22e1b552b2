--------------------------- MODULE UserFifos_proofs ---------------------------
(* The user pipes over the shared table: what happens at a prompt, and in the   *)
(* handler, are steps inside the table (Within), and the table's own steps are  *)
(* the table's.  So its invariant holds in calm however pipes, signals and      *)
(* commands are interleaved with connecting, leaving and restarting.            *)
(*                                                                              *)
(* Shapes hold always (Shape).  The pipes' own invariant, in calm, relates the  *)
(* two memories.  A mark of 2, and a handler in open, have a writer that waits, *)
(* or one that went in alone (Writers); a mark of 1 has its pipe on the list of *)
(* the reader, or a reader that left (Records).  From it follows that whoever   *)
(* waits in open is come to (MarkIsSeen), and that one of two can go on unless  *)
(* the handler is stranded (OpenersGoOn).                                       *)
EXTENDS UserFifos, SharedTable_proofs, SequenceTheorems, WellFoundedInduction

Piping == {"get", "add", "signal", "open", "wait"}
Writing == {"signal", "open"}

(* Nothing makes calm again what was not.                                       *)
LEMMA FifosCalmWasCalm ==
    ASSUME [FifosNext]_vars, calm'
    PROVE  calm
<1>1. CASE Parent \/ Connect \/ ServerRestart \/ UNCHANGED vars
  BY <1>1 DEF Parent, Check, Accept, Begin, Connect, ServerRestart, Restart, vars, tableVars
<1>2. ASSUME NEW p \in Pids, Runs(p) PROVE calm
  <2>1. CASE TableStep(p) \/ Exit(p)
    BY <2>1 DEF TableStep, find_id, take_id, login, Exit, Ends
  <2>2. CASE get_userpipe(p) \/ add_userpipe(p) \/ Signal(p) \/ Waited(p)
    BY <2>2 DEF get_userpipe, add_userpipe, Signal, Waited, rest
  <2>3. CASE OpensAlone(p) \/ \E q \in Pids : Open(p, q)
    BY <2>3 DEF OpensAlone, Open, rest
  <2>4. CASE handler_sig(p)
    BY <2>4 DEF handler_sig, Enter, Pass, TakeOver, HandlerOpens, tableVars
  <2> QED
    BY <1>2, <2>1, <2>2, <2>3, <2>4 DEF Runs, Process
<1>3. ASSUME NEW c \in commands, CommandEnds(c) PROVE calm
  BY <1>3 DEF CommandEnds, tableVars
<1>4. ASSUME NEW p \in Pids, Leaves(p) \/ Renames(p) PROVE calm
  BY <1>4 DEF Leaves, logout, Renames, name, Begin
<1>5. ASSUME NEW p \in Pids, NEW from, NEW to, Type(p, from, to) PROVE calm
  BY <1>5 DEF Type, Begin
<1> QED
  BY <1>1, <1>2, <1>3, <1>4, <1>5 DEF FifosNext

LEMMA TypeWithin ==
    ASSUME NEW p \in Pids, NEW from, NEW to, Type(p, from, to), calm'
    PROVE  Within(p, "get")
BY DEF Type, Within, AtPrompt, Goes, At, Begin, Become, Outside, memory

LEMMA ProcessWithin ==
    ASSUME NEW p \in Pids,
           \/ get_userpipe(p) \/ add_userpipe(p) \/ Signal(p) \/ Waited(p)
           \/ OpensAlone(p) \/ \E q \in Pids : Open(p, q)
    PROVE  calm' = calm /\ \E s : Within(p, s)
<1> USE DEF Within, Goes, At, Become, Outside, Busy, Resting, rest, memory
<1>1. CASE get_userpipe(p)
  <2>1. Within(p, "add")
    BY <1>1 DEF get_userpipe
  <2> QED
    BY <1>1, <2>1 DEF get_userpipe
<1>2. CASE add_userpipe(p)
  <2>1. PICK s \in {"signal", "wait", "prompt"} : step' = [step EXCEPT ![p] = s]
    BY <1>2 DEF add_userpipe
  <2>2. Within(p, s)
    BY <1>2, <2>1 DEF add_userpipe
  <2> QED
    BY <1>2, <2>2 DEF add_userpipe
<1>3. CASE Signal(p)
  <2>1. Within(p, "open")
    BY <1>3 DEF Signal
  <2> QED
    BY <1>3, <2>1 DEF Signal
<1>4. CASE Waited(p)
  <2>1. Within(p, "prompt")
    BY <1>4 DEF Waited
  <2> QED
    BY <1>4, <2>1 DEF Waited
<1>5. ASSUME NEW q \in Pids, Open(p, q) PROVE Within(p, "prompt") /\ calm' = calm
  BY <1>5 DEF Open, WriterOpens
<1>6. CASE OpensAlone(p)
  <2>1. Within(p, "prompt")
    BY <1>6 DEF OpensAlone, WriterOpens
  <2> QED
    BY <1>6, <2>1 DEF OpensAlone
<1> QED
  BY <1>1, <1>2, <1>3, <1>4, <1>5, <1>6

(* What the handler does, and the end of a command, are no steps of the table.  *)
LEMMA HandlerStutters ==
    ASSUME NEW p \in Pids, handler_sig(p)
    PROVE  UNCHANGED tableVars
BY DEF handler_sig, Enter, Pass, TakeOver, HandlerOpens

LEMMA NextFifosIInv == TableIInv /\ calm' /\ [FifosNext]_vars => TableIInv'
<1> SUFFICES ASSUME TableIInv, calm', [FifosNext]_vars PROVE TableIInv'
  OBVIOUS
<1>1. CASE Parent \/ Connect
  BY <1>1, ParentIInv
<1>2. ASSUME NEW p \in Pids, Process(p) PROVE TableIInv'
  <2>1. CASE TableStep(p)
    BY <2>1, FindIdIInv, TakeIdIInv, LoginTableIInv DEF TableStep
  <2>2. CASE Exit(p)
    BY <2>2, EndsTableIInv DEF Exit
  <2>3. CASE \/ get_userpipe(p) \/ add_userpipe(p) \/ Signal(p) \/ Waited(p)
             \/ OpensAlone(p) \/ \E q \in Pids : Open(p, q)
    <3>1. calm' \in BOOLEAN
      BY <2>3, ProcessWithin DEF TableIInv, TableTypeOK
    <3> QED
      BY <2>3, <3>1, ProcessWithin, WithinIInv
  <2> QED
    BY <1>2, <2>1, <2>2, <2>3 DEF Process
<1>3. ASSUME NEW p \in Pids, handler_sig(p) PROVE TableIInv'
  BY <1>3, HandlerStutters, StutterIInv
<1>4. CASE ServerRestart
  BY <1>4, RestartIInv DEF ServerRestart
<1>5. ASSUME NEW c \in commands, CommandEnds(c) PROVE TableIInv'
  BY <1>5, StutterIInv DEF CommandEnds
<1>6. ASSUME NEW p \in Pids, Leaves(p) PROVE TableIInv'
  BY <1>6, LogoutTableIInv DEF Leaves
<1>7. ASSUME NEW p \in Pids, Renames(p) PROVE TableIInv'
  BY <1>7, NameTableIInv DEF Renames
<1>8. ASSUME NEW p \in Pids, NEW from \in Table \cup {0}, NEW to \in Table \cup {0},
             Type(p, from, to)
      PROVE  TableIInv'
  <2>1. calm' \in BOOLEAN
    BY <1>8 DEF Type, Begin
  <2> QED
    BY <1>8, <2>1, TypeWithin, WithinIInv
<1>9. CASE UNCHANGED vars
  BY <1>9, StutterIInv DEF vars
<1> QED
  BY <1>1, <1>2, <1>3, <1>4, <1>5, <1>6, <1>7, <1>8, <1>9 DEF FifosNext, Runs

-----------------------------------------------------------------------------
(* What holds whether it is calm or not: shapes; a process outside the table    *)
(* has no list and no handler, and the pipes are of ids in the table.           *)
OutsideIsEmpty == \A p \in Pids : step[p] \in Outside => userpipe[p] = <<>> /\ cursor[p] = 0

PipersInTable ==
    \A p \in Pids :
        userpipe[p] # <<>> \/ cursor[p] # 0 \/ step[p] \in Piping => id[p] \in Table

WritersName == \A p \in Pids : step[p] \in Writing => line[p].to \in Table

Shape == FifosTypeOK /\ OutsideIsEmpty /\ PipersInTable /\ WritersName

Sides == Pipes \cup {NoPipe}
LineShapes == [from : Table \cup {0}, to : Table \cup {0}, in : Sides]
CommandShapes == [in : Sides, out : Sides, held : SUBSET Pipes, waiter : Pids \cup {0}]

LEMMA ShapeTypes ==
    ASSUME Shape
    PROVE  /\ step \in [Pids -> FifoSteps]
           /\ fifo_check \in [Table -> [Table -> {0, 1, 2, Text}]]
           /\ userpipe \in [Pids -> Seq(Table)]
           /\ line \in [Pids -> LineShapes]
           /\ pending \in [Pids -> BOOLEAN]
           /\ cursor \in [Pids -> Table \cup {0}]
           /\ opening \in [Pids -> Table \cup {0}]
           /\ \A p \in Pids : opening[p] \in {0, cursor[p]}
           /\ commands \subseteq CommandShapes
           /\ lost \subseteq Pipes /\ alone \subseteq Pipes
           /\ TableTypeOK
           /\ id \in [Pids -> 0..(MaxUsers + 1)]
BY DEF Shape, FifosTypeOK, TableTypeOK, LineShapes, CommandShapes, Sides

LEMMA PipeIsAPair == \A a, b : <<a, b>> # NoPipe
BY DEF NoPipe

LEMMA NextIsInTable ==
    ASSUME NEW q \in Pids, cursor[q] \in Table \cup {0}
    PROVE  NextCursor(q) \in Table \cup {0}
<1>1. cursor[q] \in 0..MaxUsers
  BY SharedBounds DEF Table
<1>2. cursor[q] # MaxUsers => cursor[q] + 1 \in Table
  BY <1>1, SharedBounds DEF Table
<1> QED
  BY <1>2 DEF NextCursor

LEMMA EmptyList == \A s : ~Contains(<<>>, s)
BY DEF Contains

(* What a list contains are users, of a process in the table.                   *)
LEMMA ListedInTable ==
    ASSUME Shape, NEW p \in Pids
    PROVE  /\ \A t : t \in ToSet(userpipe[p]) <=> Contains(userpipe[p], t)
           /\ \A t \in ToSet(userpipe[p]) : t \in Table /\ id[p] \in Table
<1>0. userpipe[p] \in Seq(Table)
  BY ShapeTypes
<1>1. DOMAIN userpipe[p] = 1..Len(userpipe[p])
  BY <1>0, LenProperties
<1>2. \A t : t \in ToSet(userpipe[p]) <=> Contains(userpipe[p], t)
  BY <1>1 DEF ToSet, Contains
<1>3. ASSUME NEW t \in ToSet(userpipe[p]) PROVE t \in Table /\ id[p] \in Table
  <2>1. PICK i \in 1..Len(userpipe[p]) : userpipe[p][i] = t
    BY <1>2 DEF Contains
  <2>2. userpipe[p] # <<>>
    BY <1>2, EmptyList
  <2> QED
    BY <1>0, <2>1, <2>2, ElementOfSeq DEF Shape, PipersInTable
<1> QED
  BY <1>2, <1>3

LEMMA ForksShape ==
    ASSUME Shape, NEW p \in Pids, NEW out \in Sides, NEW waiter \in Pids \cup {0},
           ForksCommand(p, out, waiter)
    PROVE  commands' \subseteq CommandShapes
<1> DEFINE held == {<<s, id[p]>> : s \in ToSet(userpipe[p])}
           c == [in |-> line[p].in, out |-> out, waiter |-> waiter, held |-> held]
<1>1. held \in SUBSET Pipes
  BY ListedInTable DEF Pipes
<1>2. line[p].in \in Sides
  BY ShapeTypes DEF LineShapes
<1> HIDE DEF held
<1>3. c \in CommandShapes
  BY <1>1, <1>2 DEF CommandShapes
<1>4. commands' \subseteq commands \cup {c}
  BY DEF ForksCommand, held
<1> QED
  BY <1>3, <1>4, ShapeTypes

-----------------------------------------------------------------------------
(* The table's own steps, and those that leave the pipes alone.                 *)
LEMMA TableTypesKept ==
    ASSUME Shape, [TableNext]_tableVars
    PROVE  TableTypeOK'
<1>1. DOMAIN step = Pids
  BY ShapeTypes
<1> QED
  BY <1>1, ShapeTypes, TypesStay

LEMMA QuietShape ==
    ASSUME Shape, TableTypeOK',
           UNCHANGED <<userpipe, line, pending, cursor, opening, commands, lost, alone>>,
           fifo_check' \in [Table -> [Table -> {0, 1, 2, Text}]],
           calm' => \A s, r \in Table : fifo_check'[s][r] # Text,
           step' \in [Pids -> FifoSteps],
           \A q \in Pids : step'[q] \in Outside => step[q] \in Outside,
           \A q \in Pids : step'[q] \in Piping => step'[q] = step[q],
           \A q \in Pids : id'[q] # id[q] => step[q] \in Outside
    PROVE  Shape'
<1>1. FifosTypeOK'
  BY ShapeTypes DEF FifosTypeOK, LineShapes, CommandShapes, Sides
<1>2. OutsideIsEmpty'
  BY DEF Shape, OutsideIsEmpty
<1>3. PipersInTable'
  <2> SUFFICES ASSUME NEW q \in Pids,
                      userpipe[q] # <<>> \/ cursor[q] # 0 \/ step'[q] \in Piping
               PROVE  id'[q] \in Table
    BY DEF PipersInTable
  <2>1. step[q] \notin Outside
    BY DEF Shape, OutsideIsEmpty, Piping, Outside
  <2> QED
    BY <2>1 DEF Shape, PipersInTable
<1>4. WritersName'
  BY DEF Shape, WritersName, Writing, Piping
<1> QED
  BY <1>1, <1>2, <1>3, <1>4 DEF Shape

LEMMA ParentShape ==
    ASSUME Shape, Parent \/ Connect \/ UNCHANGED tableVars, UNCHANGED fifos
    PROVE  Shape'
<1>0. TableTypeOK'
  BY TableTypesKept DEF TableNext
<1>1. step \in [Pids -> FifoSteps] /\ fifo_check \in [Table -> [Table -> {0, 1, 2, Text}]]
  BY ShapeTypes
<1>2. calm' => calm
  BY DEF Parent, Check, Accept, Begin, Connect, tableVars
<1>3. calm' => \A s, r \in Table : fifo_check'[s][r] # Text
  BY <1>2 DEF Shape, FifosTypeOK, fifos
<1>4. CASE UNCHANGED <<step, id>>
  BY <1>0, <1>1, <1>3, <1>4, QuietShape DEF fifos
<1>5. CASE Accept
  <2>1. PICK p \in Pids : step[p] = "none" /\ step' = [step EXCEPT ![p] = "forked"]
    BY <1>5 DEF Accept, Begin, Become
  <2>2. id' = id
    BY <1>5 DEF Accept
  <2>3. step' \in [Pids -> FifoSteps]
    BY <1>1, <2>1 DEF FifoSteps, TableSteps
  <2>4. /\ \A q \in Pids : step'[q] \in Outside => step[q] \in Outside
        /\ \A q \in Pids : step'[q] \in Piping => step'[q] = step[q]
    BY <1>1, <2>1 DEF Outside, Piping
  <2> QED
    BY <1>0, <1>1, <1>3, <2>2, <2>3, <2>4, QuietShape DEF fifos
<1> QED
  BY <1>4, <1>5 DEF Parent, Check, Connect, tableVars

LEMMA UserStepShape ==
    ASSUME Shape, NEW p \in Pids, Leaves(p) \/ Renames(p)
    PROVE  Shape'
<1>0. TableTypeOK'
  BY TableTypesKept DEF TableNext, Client, Leaves, Renames
<1>1. step \in [Pids -> FifoSteps] /\ fifo_check \in [Table -> [Table -> {0, 1, 2, Text}]]
  BY ShapeTypes
<1>2. UNCHANGED fifos /\ id' = id /\ (calm' => calm)
  BY DEF Leaves, Renames, logout, name, Begin
<1>3. calm' => \A s, r \in Table : fifo_check'[s][r] # Text
  BY <1>2 DEF Shape, FifosTypeOK, fifos
<1>4. /\ step' \in [Pids -> FifoSteps]
      /\ \A q \in Pids : step'[q] \in Outside => step[q] \in Outside
      /\ \A q \in Pids : step'[q] \in Piping => step'[q] = step[q]
  BY <1>1 DEF Leaves, Renames, logout, name, Begin, Become, FifoSteps, TableSteps,
              Outside, Piping
<1> QED
  BY <1>0, <1>1, <1>2, <1>3, <1>4, QuietShape DEF fifos

LEMMA TableStepShape ==
    ASSUME Shape, NEW p \in Pids, TableStep(p)
    PROVE  Shape'
<1>0. TableTypeOK'
  BY TableTypesKept DEF TableNext, Child, TableStep
<1>1. step \in [Pids -> FifoSteps] /\ fifo_check \in [Table -> [Table -> {0, 1, 2, Text}]]
      /\ id \in [Pids -> 0..(MaxUsers + 1)]
  BY ShapeTypes
<1>2. UNCHANGED <<userpipe, line, pending, cursor, opening, commands, lost, alone>>
  BY DEF TableStep
<1>3. fifo_check' \in [Table -> [Table -> {0, 1, 2, Text}]]
  <2>1. Overwritten(fifo_check) \in [Table -> [Table -> {0, 1, 2, Text}]]
    BY <1>1 DEF Overwritten
  <2> QED
    BY <1>1, <2>1 DEF TableStep
<1>4. calm' => calm /\ fifo_check' = fifo_check
  BY DEF TableStep, find_id, take_id, login, At
<1>5. calm' => \A s, r \in Table : fifo_check'[s][r] # Text
  BY <1>4 DEF Shape, FifosTypeOK
<1>6. /\ step' \in [Pids -> FifoSteps]
      /\ \A q \in Pids : step'[q] \in Outside => step[q] \in Outside
      /\ \A q \in Pids : step'[q] \in Piping => step'[q] = step[q]
      /\ \A q \in Pids : id'[q] # id[q] => step[q] \in Outside
  <2>1. CASE find_id(p)
    BY <1>1, <2>1 DEF find_id, At, Become, FifoSteps, TableSteps, Outside, Piping
  <2>2. CASE take_id(p) \/ login(p)
    BY <1>1, <2>2 DEF take_id, login, At, Become, FifoSteps, TableSteps, Outside, Piping
  <2> QED
    BY <2>1, <2>2 DEF TableStep
<1> QED
  BY <1>0, <1>2, <1>3, <1>5, <1>6, QuietShape

LEMMA RestartShape ==
    ASSUME Shape, ServerRestart
    PROVE  Shape'
<1>0. TableTypeOK'
  BY TableTypesKept DEF TableNext, ServerRestart
<1>1. /\ step' \in [Pids -> FifoSteps]
      /\ \A p \in Pids : step'[p] \in {"none", "gone"}
  BY DEF ServerRestart, Restart, FifoSteps, TableSteps
<1>2. /\ fifo_check' \in [Table -> [Table -> {0, 1, 2, Text}]]
      /\ \A s, r \in Table : fifo_check'[s][r] # Text
  BY DEF ServerRestart, Text
<1>3. userpipe' \in [Pids -> Seq(Table)] /\ \A p \in Pids : userpipe'[p] = <<>>
  <2>1. <<>> \in Seq(Table)
    OBVIOUS
  <2> QED
    BY <2>1 DEF ServerRestart
<1>4. line' \in [Pids -> LineShapes]
  BY DEF ServerRestart, NoLine, LineShapes, Sides
<1>5. /\ pending' \in [Pids -> BOOLEAN] /\ cursor' \in [Pids -> Table \cup {0}]
      /\ opening' \in [Pids -> Table \cup {0}]
      /\ \A p \in Pids : cursor'[p] = 0 /\ opening'[p] = 0
      /\ commands' = {} /\ lost' = {} /\ alone' = {}
  BY DEF ServerRestart
<1>6. FifosTypeOK'
  BY <1>0, <1>1, <1>2, <1>3, <1>4, <1>5 DEF FifosTypeOK, LineShapes, Sides
<1> QED
  BY <1>1, <1>3, <1>5, <1>6
  DEF Shape, OutsideIsEmpty, PipersInTable, WritersName, Piping, Writing

LEMMA ExitShape ==
    ASSUME Shape, NEW p \in Pids, Exit(p)
    PROVE  Shape'
<1>0. TableTypeOK'
  BY TableTypesKept DEF TableNext, Child, Exit
<1>1. /\ step \in [Pids -> FifoSteps] /\ userpipe \in [Pids -> Seq(Table)]
      /\ pending \in [Pids -> BOOLEAN] /\ lost \subseteq Pipes
      /\ id \in [Pids -> 0..(MaxUsers + 1)]
  BY ShapeTypes
<1>2. /\ step' = [step EXCEPT ![p] = "gone"] /\ id' = [id EXCEPT ![p] = 0]
      /\ userpipe' = [userpipe EXCEPT ![p] = <<>>]
      /\ pending' = [pending EXCEPT ![p] = FALSE]
      /\ lost' = lost \cup {<<s, id[p]>> : s \in ToSet(userpipe[p])}
      /\ cursor[p] = 0
      /\ UNCHANGED <<fifo_check, line, cursor, opening, commands, alone, calm>>
  BY DEF Exit, Ends, Become
<1>3. step' \in [Pids -> FifoSteps] /\ pending' \in [Pids -> BOOLEAN]
  BY <1>1, <1>2 DEF FifoSteps, TableSteps
<1>4. userpipe' \in [Pids -> Seq(Table)]
  BY <1>1, <1>2
<1>5. lost' \subseteq Pipes
  BY <1>1, <1>2, ListedInTable DEF Pipes
<1>6. FifosTypeOK'
  BY <1>0, <1>2, <1>3, <1>4, <1>5 DEF Shape, FifosTypeOK
<1>7. \A q \in Pids : /\ q = p => step'[q] = "gone" /\ userpipe'[q] = <<>>
                      /\ q # p => /\ step'[q] = step[q] /\ userpipe'[q] = userpipe[q]
                                  /\ id'[q] = id[q]
  BY <1>1, <1>2
<1> QED
  BY <1>2, <1>6, <1>7
  DEF Shape, OutsideIsEmpty, PipersInTable, WritersName, Piping, Writing

-----------------------------------------------------------------------------
(* The lists of the handlers.                                                   *)
LEMMA LeastNumber ==
    ASSUME NEW S \in SUBSET Nat, S # {}
    PROVE  \E r \in S : \A s \in S : r <= s
<1>1. IsWellFoundedOn(OpToRel(<, Nat), Nat)
  BY NatLessThanWellFounded, Zenon
<1>2. PICK r \in S : \A s \in S : <<s, r>> \notin OpToRel(<, Nat)
  BY <1>1, WFMin, Zenon
<1>3. \A s \in S : ~(s < r)
  BY <1>2, Zenon DEF OpToRel
<1> QED
  BY <1>3

LEMMA RemoveFirstType ==
    ASSUME NEW S, NEW q \in Seq(S), NEW e, Contains(q, e)
    PROVE  RemoveFirst(q, e) \in Seq(S)
<1> DEFINE I == {i \in 1..Len(q) : q[i] = e}
           k == SelectInSeq(q, LAMBDA v : v = e)
<1>0. Len(q) \in Nat
  BY LenProperties
<1>1. PICK m \in I : \A i \in I : m =< i
  <2>1. I # {} /\ \A i \in I : i \in Nat
    BY <1>0 DEF Contains
  <2> QED
    BY <2>1, LeastNumber
<1>2. k \in 1..Len(q)
  <2>1. k = Min(I) /\ Min(I) \in I
    BY <1>1 DEF SelectInSeq, Min
  <2> QED
    BY <2>1
<1> HIDE DEF k
<1>3. RemoveFirst(q, e) = SubSeq(q, 1, k - 1) \o SubSeq(q, k + 1, Len(q))
  BY DEF RemoveFirst, RemoveAt, Contains, k
<1>4. k - 1 \in Int /\ k + 1 \in Int /\ 1 <= k /\ k <= Len(q)
  BY <1>0, <1>2
<1>5. /\ \A i \in 1..Len(q) : q[i] \in S
  BY ElementOfSeq
<1>6. SubSeq(q, 1, k - 1) \in Seq(S) /\ SubSeq(q, k + 1, Len(q)) \in Seq(S)
  <2>1. SubSeq(q, 1, k - 1) \in Seq(S)
    BY <1>0, <1>2, <1>5, SubSeqProperties
  <2>2. SubSeq(q, k + 1, Len(q)) \in Seq(S)
    BY <1>0, <1>2, <1>5, SubSeqProperties
  <2> QED
    BY <2>1, <2>2
<1> QED
  BY <1>3, <1>6, ConcatProperties

(* A step of a line, at the prompt or behind it.                                *)
LEMMA LineShape ==
    ASSUME Shape, NEW p \in Pids, id[p] \in Table, step[p] \notin Outside,
           TableTypeOK', id' = id, calm' => calm,
           \E s \in FifoSteps \ Outside : step' = [step EXCEPT ![p] = s],
           step'[p] \in Writing => line'[p].to \in Table,
           line' \in [Pids -> LineShapes], \A q \in Pids : q # p => line'[q] = line[q],
           fifo_check' \in [Table -> [Table -> {0, 1, 2, Text}]],
           calm' => \A s, r \in Table : fifo_check'[s][r] # Text,
           userpipe' \in [Pids -> Seq(Table)], \A q \in Pids : q # p => userpipe'[q] = userpipe[q],
           commands' \subseteq CommandShapes,
           UNCHANGED <<cursor, opening, lost>>,
           pending' \in [Pids -> BOOLEAN], alone' \subseteq Pipes
    PROVE  Shape'
<1>1. PICK s \in FifoSteps \ Outside : step' = [step EXCEPT ![p] = s]
  OBVIOUS
<1>2. step \in [Pids -> FifoSteps]
  BY ShapeTypes
<1>3. /\ step' \in [Pids -> FifoSteps] /\ step'[p] \notin Outside
      /\ \A q \in Pids : q # p => step'[q] = step[q]
  BY <1>1, <1>2
<1>4. FifosTypeOK'
  BY <1>3, ShapeTypes DEF FifosTypeOK, LineShapes, CommandShapes, Sides
<1>5. OutsideIsEmpty'
  BY <1>3 DEF Shape, OutsideIsEmpty
<1>6. PipersInTable'
  BY <1>3 DEF Shape, PipersInTable
<1>7. WritersName'
  BY <1>3 DEF Shape, WritersName
<1> QED
  BY <1>4, <1>5, <1>6, <1>7 DEF Shape

LEMMA NoLineShape == NoLine \in LineShapes
BY DEF NoLine, LineShapes, Sides

LEMMA RestTypes ==
    ASSUME Shape, UNCHANGED rest
    PROVE  TableTypeOK' /\ id' = id /\ calm' = calm
<1>1. UNCHANGED <<taken, nickname, pid, n, main, waiting, id, ghosts, restarts, calm>>
  BY DEF rest, memory
<1> QED
  BY <1>1 DEF Shape, FifosTypeOK, TableTypeOK

LEMMA TypeShape ==
    ASSUME Shape, NEW p \in Pids,
           NEW from \in Table \cup {0}, NEW to \in Table \cup {0}, Type(p, from, to)
    PROVE  Shape'
<1>1. /\ step[p] = "prompt" /\ id[p] \in Table
      /\ line' = [line EXCEPT ![p] = [from |-> from, to |-> to, in |-> NoPipe]]
      /\ step' = [step EXCEPT ![p] = "get"]
      /\ UNCHANGED <<taken, nickname, pid, n, main, waiting, id, ghosts, restarts>>
      /\ calm' = (calm /\ Quiet)
      /\ UNCHANGED <<fifo_check, userpipe, pending, cursor, opening, commands, lost, alone>>
  BY DEF Type, AtPrompt, Goes, At, Begin, Become, memory
<1>2. TableTypeOK' /\ (calm' => calm)
  BY <1>1, ShapeTypes DEF TableTypeOK
<1>3. line' \in [Pids -> LineShapes]
  <2>1. [from |-> from, to |-> to, in |-> NoPipe] \in LineShapes
    BY DEF LineShapes, Sides
  <2> QED
    BY <1>1, <2>1, ShapeTypes
<1>4. "get" \in FifoSteps \ Outside /\ step[p] \notin Outside
  BY <1>1 DEF FifoSteps, Outside
<1>5. step'[p] \notin Writing
  BY <1>1, ShapeTypes DEF Writing
<1>6. \A q \in Pids : q # p => line'[q] = line[q]
  BY <1>1, ShapeTypes
<1>7. calm' => \A s, r \in Table : fifo_check'[s][r] # Text
  BY <1>1, <1>2 DEF Shape, FifosTypeOK
<1> QED
  BY <1>1, <1>2, <1>3, <1>4, <1>5, <1>6, <1>7, ShapeTypes, LineShape

LEMMA GetShape ==
    ASSUME Shape, NEW p \in Pids, get_userpipe(p)
    PROVE  Shape'
<1> DEFINE s == line[p].from
<1>1. /\ step[p] = "get" /\ step' = [step EXCEPT ![p] = "add"]
      /\ UNCHANGED rest
      /\ UNCHANGED <<pending, cursor, opening, commands, lost, alone>>
  BY DEF get_userpipe, Goes, At, Become
<1>2. id[p] \in Table
  BY <1>1 DEF Shape, PipersInTable, Piping
<1>3. TableTypeOK' /\ id' = id /\ calm' = calm
  BY <1>1, RestTypes
<1>4. "add" \in FifoSteps \ Outside /\ step[p] \notin Outside
  BY <1>1 DEF FifoSteps, Outside
<1>5. step'[p] \notin Writing
  BY <1>1, ShapeTypes DEF Writing
<1>6. CASE UNCHANGED <<userpipe, fifo_check, line>>
  <2>1. calm' => \A t, r \in Table : fifo_check'[t][r] # Text
    BY <1>3, <1>6 DEF Shape, FifosTypeOK
  <2> QED
    BY <1>1, <1>2, <1>3, <1>4, <1>5, <1>6, <2>1, ShapeTypes, LineShape
<1>7. CASE /\ s # 0 /\ Contains(userpipe[p], s)
           /\ userpipe' = [userpipe EXCEPT ![p] = RemoveFirst(@, s)]
           /\ fifo_check' = [fifo_check EXCEPT ![s][id[p]] = 0]
           /\ line' = [line EXCEPT ![p].in = <<s, id[p]>>]
  <2>1. s \in Table
    BY <1>7, ListedInTable
  <2>2. line[p] \in LineShapes
    BY ShapeTypes
  <2>3. /\ line' = [line EXCEPT ![p] = [line[p] EXCEPT !.in = <<s, id[p]>>]]
        /\ [line[p] EXCEPT !.in = <<s, id[p]>>] \in LineShapes
    BY <1>2, <1>7, <2>1, <2>2 DEF LineShapes, Sides, Pipes
  <2>4. line' \in [Pids -> LineShapes] /\ \A q \in Pids : q # p => line'[q] = line[q]
    BY <2>3, ShapeTypes
  <2>5. fifo_check' \in [Table -> [Table -> {0, 1, 2, Text}]]
    BY <1>2, <1>7, <2>1, ShapeTypes
  <2>6. calm' => \A t, r \in Table : fifo_check'[t][r] # Text
    BY <1>2, <1>3, <1>7, <2>1, ShapeTypes DEF Shape, FifosTypeOK, Text
  <2>7. RemoveFirst(userpipe[p], s) \in Seq(Table)
    BY <1>7, ShapeTypes, RemoveFirstType
  <2>8. userpipe' \in [Pids -> Seq(Table)] /\ \A q \in Pids : q # p => userpipe'[q] = userpipe[q]
    BY <1>7, <2>7, ShapeTypes
  <2> QED
    BY <1>1, <1>2, <1>3, <1>4, <1>5, <2>4, <2>5, <2>6, <2>8, ShapeTypes, LineShape
<1> QED
  BY <1>6, <1>7 DEF get_userpipe

LEMMA AddShape ==
    ASSUME Shape, NEW p \in Pids, add_userpipe(p)
    PROVE  Shape'
<1> DEFINE r == line[p].to
<1>1. /\ step[p] = "add"
      /\ UNCHANGED rest
      /\ UNCHANGED <<userpipe, pending, cursor, opening, lost, alone>>
  BY DEF add_userpipe, Goes, At
<1>2. id[p] \in Table /\ step[p] \notin Outside
  BY <1>1 DEF Shape, PipersInTable, Piping, Outside
<1>3. TableTypeOK' /\ id' = id /\ calm' = calm
  BY <1>1, RestTypes
<1>4. line[p] \in LineShapes /\ r \in Table \cup {0}
  BY ShapeTypes DEF LineShapes
<1>5. CASE r # 0 /\ taken[r] /\ fifo_check[id[p]][r] = 0
  <2>1. /\ step' = [step EXCEPT ![p] = "signal"]
        /\ fifo_check' = [fifo_check EXCEPT ![id[p]][r] = 2]
        /\ UNCHANGED <<commands, line>>
    BY <1>5 DEF add_userpipe, Become
  <2>2. fifo_check' \in [Table -> [Table -> {0, 1, 2, Text}]]
    BY <1>2, <1>4, <1>5, <2>1, ShapeTypes
  <2>3. calm' => \A t, u \in Table : fifo_check'[t][u] # Text
    BY <1>2, <1>3, <1>4, <1>5, <2>1, ShapeTypes DEF Shape, FifosTypeOK, Text
  <2>4. "signal" \in FifoSteps \ Outside
    BY DEF FifoSteps, Outside
  <2>5. line'[p].to \in Table
    BY <1>4, <1>5, <2>1
  <2> QED
    BY <1>1, <1>2, <1>3, <2>1, <2>2, <2>3, <2>4, <2>5, ShapeTypes, LineShape
<1>6. CASE ~(r # 0 /\ taken[r] /\ fifo_check[id[p]][r] = 0)
  <2> DEFINE s == IF r = 0 THEN "wait" ELSE "prompt"
             waiter == IF r = 0 THEN p ELSE 0
  <2>1. /\ step' = [step EXCEPT ![p] = s]
        /\ line' = IF r = 0 THEN line ELSE [line EXCEPT ![p] = NoLine]
        /\ ForksCommand(p, NoPipe, waiter)
        /\ fifo_check' = fifo_check
    BY <1>6 DEF add_userpipe, Become
  <2>2. commands' \subseteq CommandShapes
    <3>1. NoPipe \in Sides /\ waiter \in Pids \cup {0}
      BY DEF Sides
    <3> HIDE DEF waiter
    <3> QED
      BY <2>1, <3>1, ForksShape
  <2>3. line' \in [Pids -> LineShapes] /\ \A q \in Pids : q # p => line'[q] = line[q]
    BY <2>1, NoLineShape, ShapeTypes
  <2>4. s \in FifoSteps \ Outside /\ s \notin Writing
    BY DEF FifoSteps, TableSteps, Outside, Writing
  <2>5. calm' => \A t, u \in Table : fifo_check'[t][u] # Text
    BY <1>3, <2>1 DEF Shape, FifosTypeOK
  <2> HIDE DEF s
  <2>6. step'[p] \notin Writing
    BY <2>1, <2>4, ShapeTypes
  <2> QED
    BY <1>1, <1>2, <1>3, <2>1, <2>2, <2>3, <2>4, <2>5, <2>6, ShapeTypes, LineShape
<1> QED
  BY <1>5, <1>6

LEMMA SignalShape ==
    ASSUME Shape, NEW p \in Pids, Signal(p)
    PROVE  Shape'
<1>1. /\ step[p] = "signal" /\ step' = [step EXCEPT ![p] = "open"]
      /\ UNCHANGED rest
      /\ UNCHANGED <<fifo_check, userpipe, line, cursor, opening, commands, lost, alone>>
  BY DEF Signal, Goes, At, Become
<1>2. id[p] \in Table /\ step[p] \notin Outside /\ line'[p].to \in Table
  BY <1>1 DEF Shape, PipersInTable, WritersName, Piping, Writing, Outside
<1>3. TableTypeOK' /\ id' = id /\ calm' = calm
  BY <1>1, RestTypes
<1>4. pending' \in [Pids -> BOOLEAN]
  <2> DEFINE P(q) == \/ pending[q]
                     \/ pid[line[p].to] \in {q, NoPid} /\ step[q] \notin {"none", "gone"}
  <2>1. pending' = [q \in Pids |-> P(q)]
    BY DEF Signal
  <2>2. \A q \in Pids : P(q) \in BOOLEAN
    BY ShapeTypes
  <2> HIDE DEF P
  <2> QED
    BY <2>1, <2>2
<1>5. calm' => \A t, u \in Table : fifo_check'[t][u] # Text
  BY <1>1, <1>3 DEF Shape, FifosTypeOK
<1>6. "open" \in FifoSteps \ Outside
  BY DEF FifoSteps, Outside
<1> QED
  BY <1>1, <1>2, <1>3, <1>4, <1>5, <1>6, ShapeTypes, LineShape

LEMMA WaitedShape ==
    ASSUME Shape, NEW p \in Pids, Waited(p)
    PROVE  Shape'
<1>1. /\ step[p] = "wait" /\ step' = [step EXCEPT ![p] = "prompt"]
      /\ UNCHANGED rest /\ line' = [line EXCEPT ![p] = NoLine]
      /\ UNCHANGED <<fifo_check, userpipe, pending, cursor, opening, commands, lost, alone>>
  BY DEF Waited, Goes, At, Become
<1>2. id[p] \in Table /\ step[p] \notin Outside
  BY <1>1 DEF Shape, PipersInTable, Piping, Outside
<1>3. TableTypeOK' /\ id' = id /\ calm' = calm
  BY <1>1, RestTypes
<1>4. line' \in [Pids -> LineShapes] /\ \A q \in Pids : q # p => line'[q] = line[q]
  BY <1>1, NoLineShape, ShapeTypes
<1>5. calm' => \A t, u \in Table : fifo_check'[t][u] # Text
  BY <1>1, <1>3 DEF Shape, FifosTypeOK
<1>6. "prompt" \in FifoSteps \ Outside /\ step'[p] \notin Writing
  BY <1>1, ShapeTypes DEF FifoSteps, TableSteps, Outside, Writing
<1> QED
  BY <1>1, <1>2, <1>3, <1>4, <1>5, <1>6, ShapeTypes, LineShape

(* The writer's side of open, and the reader's.                                 *)
LEMMA WriterOpensShape ==
    ASSUME Shape, NEW p \in Pids, WriterOpens(p)
    PROVE  /\ step[p] = "open" /\ id[p] \in Table /\ line[p].to \in Table
           /\ step' = [step EXCEPT ![p] = "prompt"]
           /\ line' \in [Pids -> LineShapes] /\ \A q \in Pids : q # p => line'[q] = line[q]
           /\ commands' \subseteq CommandShapes
<1>1. /\ step[p] = "open" /\ step' = [step EXCEPT ![p] = "prompt"]
      /\ ForksCommand(p, <<id[p], line[p].to>>, 0)
      /\ line' = [line EXCEPT ![p] = NoLine]
  BY DEF WriterOpens, Goes, At, Become
<1>2. id[p] \in Table /\ line[p].to \in Table
  BY <1>1 DEF Shape, PipersInTable, WritersName, Piping, Writing
<1>3. <<id[p], line[p].to>> \in Sides
  BY <1>2 DEF Sides, Pipes
<1>4. commands' \subseteq CommandShapes
  BY <1>1, <1>3, ForksShape
<1>5. line' \in [Pids -> LineShapes] /\ \A q \in Pids : q # p => line'[q] = line[q]
  BY <1>1, NoLineShape, ShapeTypes
<1> QED
  BY <1>1, <1>2, <1>4, <1>5

LEMMA OpensAloneShape ==
    ASSUME Shape, NEW p \in Pids, OpensAlone(p)
    PROVE  Shape'
<1>1. /\ WriterOpens(p) /\ alone' = alone \cup {<<id[p], line[p].to>>}
      /\ UNCHANGED rest /\ UNCHANGED <<fifo_check, userpipe, pending, cursor, opening, lost>>
  BY DEF OpensAlone
<1>2. /\ step[p] = "open" /\ id[p] \in Table /\ line[p].to \in Table
      /\ step' = [step EXCEPT ![p] = "prompt"]
      /\ line' \in [Pids -> LineShapes] /\ \A q \in Pids : q # p => line'[q] = line[q]
      /\ commands' \subseteq CommandShapes
  BY <1>1, WriterOpensShape
<1>3. TableTypeOK' /\ id' = id /\ calm' = calm
  BY <1>1, RestTypes
<1>4. alone' \subseteq Pipes
  BY <1>1, <1>2, ShapeTypes DEF Pipes
<1>5. calm' => \A t, u \in Table : fifo_check'[t][u] # Text
  BY <1>1, <1>3 DEF Shape, FifosTypeOK
<1>6. "prompt" \in FifoSteps \ Outside /\ step'[p] \notin Writing /\ step[p] \notin Outside
  BY <1>2, ShapeTypes DEF FifoSteps, TableSteps, Outside, Writing
<1> QED
  BY <1>1, <1>2, <1>3, <1>4, <1>5, <1>6, ShapeTypes, LineShape

LEMMA ReaderOpensShape ==
    ASSUME Shape, NEW q \in Pids, opening[q] # 0, ReaderOpens(q)
    PROVE  /\ userpipe' \in [Pids -> Seq(Table)]
           /\ cursor' \in [Pids -> Table \cup {0}]
           /\ opening' \in [Pids -> Table \cup {0}]
           /\ \A x \in Pids : opening'[x] \in {0, cursor'[x]}
           /\ \A x \in Pids : x # q => /\ userpipe'[x] = userpipe[x]
                                       /\ cursor'[x] = cursor[x]
           /\ cursor[q] # 0
<1>1. /\ userpipe' = [userpipe EXCEPT ![q] = Append(@, opening[q])]
      /\ opening' = [opening EXCEPT ![q] = 0]
      /\ cursor' = [cursor EXCEPT ![q] = NextCursor(q)]
  BY DEF ReaderOpens
<1>2. opening[q] \in Table /\ cursor[q] # 0 /\ cursor[q] \in Table \cup {0}
  BY ShapeTypes
<1>3. NextCursor(q) \in Table \cup {0}
  BY <1>2, NextIsInTable
<1>4. Append(userpipe[q], opening[q]) \in Seq(Table)
  BY <1>2, ShapeTypes, AppendProperties
<1> QED
  BY <1>1, <1>2, <1>3, <1>4, ShapeTypes

(* What the handler does to a process in the table, at whichever step it is.    *)
LEMMA HandlerShape ==
    ASSUME Shape, NEW q \in Pids, TableTypeOK', UNCHANGED <<step, id, line, calm, commands, lost>>,
           step[q] \notin Outside, id[q] \in Table,
           pending' \in [Pids -> BOOLEAN],
           userpipe' \in [Pids -> Seq(Table)],
           cursor' \in [Pids -> Table \cup {0}],
           opening' \in [Pids -> Table \cup {0}],
           \A x \in Pids : opening'[x] \in {0, cursor'[x]},
           \A x \in Pids : x # q => userpipe'[x] = userpipe[x],
           \A x \in Pids : x # q => cursor'[x] = cursor[x],
           fifo_check' \in [Table -> [Table -> {0, 1, 2, Text}]],
           calm => \A t, u \in Table : fifo_check'[t][u] # Text,
           alone' \subseteq Pipes
    PROVE  Shape'
<1>1. FifosTypeOK'
  BY ShapeTypes DEF FifosTypeOK, LineShapes, CommandShapes, Sides
<1>2. OutsideIsEmpty'
  BY DEF Shape, OutsideIsEmpty
<1>3. PipersInTable'
  BY DEF Shape, PipersInTable
<1>4. WritersName'
  BY DEF Shape, WritersName
<1> QED
  BY <1>1, <1>2, <1>3, <1>4 DEF Shape

LEMMA OpenShape ==
    ASSUME Shape, NEW p \in Pids, NEW q \in Pids, Open(p, q)
    PROVE  Shape'
<1>1. /\ WriterOpens(p) /\ ReaderOpens(q) /\ opening[q] # 0
      /\ UNCHANGED rest /\ UNCHANGED <<fifo_check, pending, lost, alone>>
  BY DEF Open, OpensFor
<1>2. /\ step[p] = "open" /\ id[p] \in Table /\ line[p].to \in Table
      /\ step' = [step EXCEPT ![p] = "prompt"]
      /\ line' \in [Pids -> LineShapes] /\ \A x \in Pids : x # p => line'[x] = line[x]
      /\ commands' \subseteq CommandShapes
  BY <1>1, WriterOpensShape
<1>3. TableTypeOK' /\ id' = id /\ calm' = calm
  BY <1>1, RestTypes
<1>4. /\ userpipe' \in [Pids -> Seq(Table)]
      /\ cursor' \in [Pids -> Table \cup {0}]
      /\ opening' \in [Pids -> Table \cup {0}]
      /\ \A x \in Pids : opening'[x] \in {0, cursor'[x]}
      /\ \A x \in Pids : x # q => userpipe'[x] = userpipe[x] /\ cursor'[x] = cursor[x]
      /\ cursor[q] # 0
  BY <1>1, ReaderOpensShape
<1>5. /\ step' \in [Pids -> FifoSteps] /\ step'[p] = "prompt"
      /\ \A x \in Pids : x # p => step'[x] = step[x]
  BY <1>2, ShapeTypes DEF FifoSteps, TableSteps
<1>6. step[q] \notin Outside /\ id[q] \in Table
  BY <1>4 DEF Shape, OutsideIsEmpty, PipersInTable
<1>7. FifosTypeOK'
  BY <1>1, <1>2, <1>3, <1>4, <1>5, ShapeTypes DEF Shape, FifosTypeOK, LineShapes,
     CommandShapes, Sides
<1>8. OutsideIsEmpty'
  BY <1>4, <1>5, <1>6 DEF Shape, OutsideIsEmpty, Outside
<1>9. PipersInTable'
  BY <1>2, <1>3, <1>4, <1>5, <1>6 DEF Shape, PipersInTable
<1>10. WritersName'
  BY <1>2, <1>5 DEF Shape, WritersName, Writing
<1> QED
  BY <1>7, <1>8, <1>9, <1>10 DEF Shape

LEMMA HandlerSigShape ==
    ASSUME Shape, NEW p \in Pids, handler_sig(p)
    PROVE  Shape'
<1>1. /\ UNCHANGED tableVars
      /\ UNCHANGED <<line, commands, lost>>
  BY DEF handler_sig, Enter, Pass, TakeOver, HandlerOpens
<1>2. TableTypeOK' /\ UNCHANGED <<step, id, calm>>
  BY <1>1 DEF Shape, FifosTypeOK, TableTypeOK, tableVars
<1>3. calm => \A t, u \in Table : fifo_check[t][u] # Text
  BY DEF Shape, FifosTypeOK
<1>4. cursor[p] # 0 => step[p] \notin Outside /\ id[p] \in Table /\ cursor[p] \in Table
  BY ShapeTypes DEF Shape, OutsideIsEmpty, PipersInTable
<1>5. CASE Enter(p) \/ Pass(p)
  <2>1. /\ UNCHANGED <<fifo_check, userpipe, opening, alone>>
        /\ opening[p] = 0
        /\ pending' \in [Pids -> BOOLEAN]
    BY <1>5, ShapeTypes DEF Enter, Pass, Looks
  <2>2. \E c \in Table \cup {0} : cursor' = [cursor EXCEPT ![p] = c]
    <3>1. 1 \in Table
      BY SharedBounds DEF Table
    <3>2. NextCursor(p) \in Table \cup {0}
      BY ShapeTypes, NextIsInTable
    <3> QED
      BY <1>5, <3>1, <3>2 DEF Enter, Pass
  <2>3. /\ cursor' \in [Pids -> Table \cup {0}]
        /\ \A x \in Pids : x # p => cursor'[x] = cursor[x]
        /\ \A x \in Pids : opening'[x] \in {0, cursor'[x]}
    BY <2>1, <2>2, ShapeTypes
  <2>4. CASE step[p] \notin Outside /\ id[p] \in Table
    BY <1>1, <1>2, <1>3, <2>1, <2>3, <2>4, ShapeTypes, HandlerShape
  <2>5. CASE ~(step[p] \notin Outside /\ id[p] \in Table)
    <3>1. cursor[p] = 0 /\ cursor' = [cursor EXCEPT ![p] = 0]
      BY <1>4, <1>5, <2>5 DEF Enter, Pass, Looks
    <3>2. cursor' = cursor
      BY <3>1, ShapeTypes
    <3>3. FifosTypeOK'
      BY <1>1, <1>2, <2>1, <3>2, ShapeTypes DEF Shape, FifosTypeOK
    <3> QED
      BY <1>1, <1>2, <2>1, <3>2, <3>3
      DEF Shape, OutsideIsEmpty, PipersInTable, WritersName
  <2> QED
    BY <2>4, <2>5
<1>6. CASE TakeOver(p)
  <2>1. /\ cursor[p] # 0
        /\ fifo_check' = [fifo_check EXCEPT ![cursor[p]][id[p]] = 1]
        /\ opening' = [opening EXCEPT ![p] = cursor[p]]
        /\ UNCHANGED <<userpipe, pending, cursor, alone>>
    BY <1>6 DEF TakeOver, Looks
  <2>2. /\ opening' \in [Pids -> Table \cup {0}]
        /\ \A x \in Pids : opening'[x] \in {0, cursor'[x]}
    BY <1>4, <2>1, ShapeTypes
  <2>3. fifo_check' \in [Table -> [Table -> {0, 1, 2, Text}]]
    BY <1>4, <2>1, ShapeTypes
  <2>4. calm => \A t, u \in Table : fifo_check'[t][u] # Text
    BY <1>3, <1>4, <2>1, ShapeTypes DEF Text
  <2> QED
    BY <1>1, <1>2, <1>4, <2>1, <2>2, <2>3, <2>4, ShapeTypes, HandlerShape
<1>7. CASE HandlerOpens(p)
  <2>1. /\ opening[p] # 0 /\ ReaderOpens(p)
        /\ alone' = alone \ {<<opening[p], id[p]>>}
        /\ UNCHANGED <<fifo_check, pending>>
    BY <1>7 DEF HandlerOpens
  <2>2. /\ userpipe' \in [Pids -> Seq(Table)]
        /\ cursor' \in [Pids -> Table \cup {0}]
        /\ opening' \in [Pids -> Table \cup {0}]
        /\ \A x \in Pids : opening'[x] \in {0, cursor'[x]}
        /\ \A x \in Pids : x # p => userpipe'[x] = userpipe[x] /\ cursor'[x] = cursor[x]
        /\ cursor[p] # 0
    BY <2>1, ReaderOpensShape
  <2>3. alone' \subseteq Pipes
    BY <2>1, ShapeTypes
  <2> QED
    BY <1>1, <1>2, <1>3, <1>4, <2>1, <2>2, <2>3, ShapeTypes, HandlerShape
<1> QED
  BY <1>5, <1>6, <1>7 DEF handler_sig

(* Shapes hold always, also when it is not calm.                                *)
LEMMA NextShape == Shape /\ [FifosNext]_vars => Shape'
<1> SUFFICES ASSUME Shape, [FifosNext]_vars PROVE Shape'
  OBVIOUS
<1>1. CASE (Parent \/ Connect) /\ UNCHANGED fifos
  BY <1>1, ParentShape
<1>2. CASE UNCHANGED vars
  BY <1>2, ParentShape DEF vars
<1>3. CASE ServerRestart
  BY <1>3, RestartShape
<1>4. ASSUME NEW p \in Pids, Process(p) PROVE Shape'
  BY <1>4, TableStepShape, ExitShape, GetShape, AddShape, SignalShape, WaitedShape,
     OpensAloneShape, OpenShape DEF Process
<1>5. ASSUME NEW p \in Pids, handler_sig(p) PROVE Shape'
  BY <1>5, HandlerSigShape
<1>6. ASSUME NEW c \in commands, CommandEnds(c) PROVE Shape'
  <2>1. /\ commands' \subseteq commands /\ UNCHANGED tableVars
        /\ UNCHANGED <<fifo_check, userpipe, line, pending, cursor, opening, lost, alone>>
    BY <1>6 DEF CommandEnds
  <2>2. FifosTypeOK'
    BY <2>1 DEF Shape, FifosTypeOK, TableTypeOK, tableVars
  <2> QED
    BY <2>1, <2>2 DEF Shape, OutsideIsEmpty, PipersInTable, WritersName, tableVars
<1>7. ASSUME NEW p \in Pids, Leaves(p) \/ Renames(p) PROVE Shape'
  BY <1>7, UserStepShape
<1>8. ASSUME NEW p \in Pids, NEW from \in Table \cup {0}, NEW to \in Table \cup {0},
             Type(p, from, to)
      PROVE  Shape'
  BY <1>8, TypeShape
<1> QED
  BY <1>1, <1>2, <1>3, <1>4, <1>5, <1>6, <1>7, <1>8 DEF FifosNext, Runs

-----------------------------------------------------------------------------
(* What the pipes add to the invariant in calm.                                 *)
Holds(q, s) == Contains(userpipe[q], s) \/ opening[q] = s
Writer(p, s, r) == step[p] \in Writing /\ id[p] = s /\ line[p].to = r
NoRepeat(q) == \A i, j \in DOMAIN q : q[i] = q[j] => i = j

(* Signals and handlers are of processes at their prompts; a line is of its own *)
(* process, and nobody reads until it has its FIFO.                             *)
SignalsArrive == \A p \in Pids : pending[p] \/ cursor[p] # 0 => At(p, "prompt")

LinesAreOwn ==
    \A p \in Pids :
        /\ step[p] \notin Piping => line[p] = NoLine
        /\ step[p] \in Piping =>
            /\ line[p].from # id[p] /\ line[p].to # id[p]
            /\ line[p].in \in {NoPipe, <<line[p].from, id[p]>>}
            /\ step[p] # "wait" => NobodyReads

(* A mark that is set has a writer that waits, and so has a handler in open,    *)
(* unless the writer went in alone; a writer waits for a mark, or for a handler *)
(* that opens.                                                                  *)
WritersWait ==
    \A p \in Pids : step[p] \in Writing =>
        /\ taken[line[p].to]
        /\ \/ fifo_check[id[p]][line[p].to] = 2
           \/ \E q \in Pids : id[q] = line[p].to /\ opening[q] = id[p]
MarksHaveWriters ==
    \A s, r \in Table : fifo_check[s][r] = 2 =>
        <<s, r>> \in alone \/ \E p \in Pids : Writer(p, s, r)
OpeningsHaveWriters ==
    \A q \in Pids : opening[q] # 0 =>
        <<opening[q], id[q]>> \in alone \/ \E p \in Pids : Writer(p, opening[q], id[q])
WritersAreFresh ==
    \A p \in Pids : step[p] \in Writing =>
        /\ <<id[p], line[p].to>> \notin alone
        /\ \A c \in commands : c.out # <<id[p], line[p].to>>
        /\ \A q \in Pids : id[q] = line[p].to => ~Contains(userpipe[q], id[p])
AloneAreMarked ==
    \A s, r \in Table : <<s, r>> \in alone =>
        fifo_check[s][r] = 2 \/ \E q \in Pids : id[q] = r /\ opening[q] = s

(* Mark and list agree, read from the pair of ids; a list has nothing twice.    *)
MarksAreHeld ==
    \A s, r \in Table :
        fifo_check[s][r] = 1 <=> \/ <<s, r>> \in lost
                                 \/ \E q \in Pids : id[q] = r /\ Holds(q, s)
HeldOnce ==
    \A q \in Pids :
        /\ NoRepeat(userpipe[q])
        /\ \A s \in Table : /\ Holds(q, s) => <<s, id[q]>> \notin lost
                            /\ ~(Contains(userpipe[q], s) /\ opening[q] = s)

(* A command still writes into a FIFO only while its pipe is marked or its      *)
(* reader has it: the next writer of that pipe is kept out that long.           *)
OutsAreMarked ==
    \A c \in commands : c.out # NoPipe =>
        \/ fifo_check[c.out[1]][c.out[2]] # 0
        \/ \E d \in commands : d.in = c.out
        \/ \E p \in Pids : step[p] \in {"add", "signal", "open"} /\ line[p].in = c.out

GoodbyeIsFree ==
    \A p \in Pids : step[p] = "goodbye" => id[p] \in Slots /\ ~taken[id[p]]

Lines == SignalsArrive /\ LinesAreOwn /\ GoodbyeIsFree
Writers ==
    WritersWait /\ MarksHaveWriters /\ OpeningsHaveWriters /\ WritersAreFresh /\ AloneAreMarked
Records == MarksAreHeld /\ HeldOnce /\ OutsAreMarked

Relations == Lines /\ Writers /\ Records
FifosIInv == TableIInv /\ Shape /\ Relations

LEMMA InvTypes ==
    ASSUME FifosIInv
    PROVE  /\ step \in [Pids -> FifoSteps]
           /\ fifo_check \in [Table -> [Table -> {0, 1, 2, Text}]]
           /\ userpipe \in [Pids -> Seq(Table)]
           /\ line \in [Pids -> LineShapes]
           /\ pending \in [Pids -> BOOLEAN]
           /\ cursor \in [Pids -> Table \cup {0}]
           /\ opening \in [Pids -> Table \cup {0}]
           /\ \A p \in Pids : opening[p] \in {0, cursor[p]}
           /\ commands \subseteq CommandShapes
           /\ lost \subseteq Pipes /\ alone \subseteq Pipes
           /\ id \in [Pids -> 0..(MaxUsers + 1)]
           /\ 0 \notin Table
<1>1. 0 \notin Table
  BY SharedBounds DEF Table
<1> QED
  BY <1>1, ShapeTypes DEF FifosIInv

LEMMA AppendList ==
    ASSUME NEW S, NEW q \in Seq(S), NEW e \in S, ~Contains(q, e), NoRepeat(q)
    PROVE  /\ Append(q, e) \in Seq(S)
           /\ NoRepeat(Append(q, e))
           /\ \A s : Contains(Append(q, e), s) <=> Contains(q, s) \/ s = e
<1>1. /\ Len(q) \in Nat /\ DOMAIN q = 1..Len(q)
      /\ Append(q, e) \in Seq(S) /\ Len(Append(q, e)) = Len(q) + 1
      /\ DOMAIN Append(q, e) = 1..(Len(q) + 1)
      /\ \A i \in 1..Len(q) : Append(q, e)[i] = q[i]
      /\ Append(q, e)[Len(q) + 1] = e
  BY LenProperties, AppendProperties
<1> DEFINE t == Append(q, e)
<1> HIDE DEF t
<1>2. NoRepeat(t)
  <2>1. \A i \in 1..Len(q) : t[i] # e
    BY <1>1 DEF Contains, t
  <2> QED
    BY <1>1, <2>1 DEF NoRepeat, t
<1>3. ASSUME NEW s PROVE Contains(t, s) <=> Contains(q, s) \/ s = e
  BY <1>1 DEF Contains, t
<1> QED
  BY <1>1, <1>2, <1>3 DEF t

LEMMA RemoveFromList ==
    ASSUME NEW S, NEW q \in Seq(S), NEW e, Contains(q, e), NoRepeat(q)
    PROVE  /\ RemoveFirst(q, e) \in Seq(S)
           /\ NoRepeat(RemoveFirst(q, e))
           /\ \A s : Contains(RemoveFirst(q, e), s) <=> Contains(q, s) /\ s # e
<1>1. PICK k \in 1..Len(q) : q[k] = e
  BY DEF Contains
<1>0. /\ Len(q) \in Nat /\ DOMAIN q = 1..Len(q)
      /\ \A i \in 1..Len(q) : q[i] \in S
      /\ \A i \in 1..Len(q) : q[i] = e => i = k
  BY <1>1, LenProperties, ElementOfSeq DEF NoRepeat
<1>2. SelectInSeq(q, LAMBDA v : v = e) = k
  <2>1. {i \in 1..Len(q) : q[i] = e} = {k}
    BY <1>0, <1>1
  <2>2. Min({k}) = k
    BY <1>0 DEF Min
  <2> QED
    BY <2>1, <2>2 DEF SelectInSeq
<1> DEFINE a == SubSeq(q, 1, k - 1)
           b == SubSeq(q, k + 1, Len(q))
           t == RemoveFirst(q, e)
<1>3. t = a \o b
  BY <1>1, <1>2 DEF RemoveFirst, RemoveAt
<1>4. /\ a \in Seq(S) /\ Len(a) = k - 1
      /\ \A i \in 1..(k - 1) : a[i] = q[i]
  <2>1. /\ a \in Seq(S)
        /\ Len(a) = IF 1 <= k - 1 THEN (k - 1) - 1 + 1 ELSE 0
        /\ \A i \in 1..((k - 1) - 1 + 1) : a[i] = q[1 + i - 1]
    BY <1>0, SubSeqProperties
  <2> QED
    BY <2>1
<1>5. /\ b \in Seq(S) /\ Len(b) = Len(q) - k
      /\ \A i \in 1..(Len(q) - k) : b[i] = q[k + i]
  <2>1. /\ b \in Seq(S)
        /\ Len(b) = IF k + 1 <= Len(q) THEN Len(q) - (k + 1) + 1 ELSE 0
        /\ \A i \in 1..(Len(q) - (k + 1) + 1) : b[i] = q[(k + 1) + i - 1]
    BY <1>0, SubSeqProperties
  <2> QED
    BY <1>0, <2>1, SMTT(30)
<1> HIDE DEF a, b, t
<1>6. /\ t \in Seq(S) /\ Len(t) = Len(q) - 1 /\ DOMAIN t = 1..(Len(q) - 1)
      /\ \A i \in 1..(Len(q) - 1) : t[i] = IF i <= k - 1 THEN a[i] ELSE b[i - (k - 1)]
  <2>1. /\ a \o b \in Seq(S) /\ Len(a \o b) = Len(a) + Len(b)
        /\ \A i \in 1..(Len(a) + Len(b)) :
                (a \o b)[i] = IF i <= Len(a) THEN a[i] ELSE b[i - Len(a)]
    BY <1>4, <1>5, ConcatProperties
  <2>2. t \in Seq(S) /\ Len(t) = Len(q) - 1
    BY <1>0, <1>3, <1>4, <1>5, <2>1
  <2>3. DOMAIN t = 1..(Len(q) - 1)
    BY <2>2, LenProperties
  <2>4. Len(a) + Len(b) = Len(q) - 1
    BY <1>0, <1>4, <1>5
  <2> QED
    BY <1>3, <1>4, <2>1, <2>2, <2>3, <2>4
<1>7. ASSUME NEW i \in 1..(Len(q) - 1) PROVE t[i] = IF i < k THEN q[i] ELSE q[i + 1]
  <2>1. CASE i < k
    BY <1>0, <1>4, <1>6, <2>1
  <2>2. CASE ~(i < k)
    <3> DEFINE j == i - (k - 1)
    <3>1. j \in 1..(Len(q) - k) /\ k + j = i + 1 /\ ~(i <= k - 1)
      BY <1>0, <2>2
    <3>2. t[i] = b[j]
      BY <1>6, <3>1
    <3> HIDE DEF j
    <3>3. b[j] = q[k + j]
      BY <1>5, <3>1
    <3> QED
      BY <2>2, <3>1, <3>2, <3>3
  <2> QED
    BY <2>1, <2>2
<1>8. NoRepeat(t)
  <2> SUFFICES ASSUME NEW i \in 1..(Len(q) - 1), NEW j \in 1..(Len(q) - 1), t[i] = t[j]
               PROVE  i = j
    BY <1>6 DEF NoRepeat
  <2> DEFINE at(m) == IF m < k THEN m ELSE m + 1
  <2>1. at(i) \in 1..Len(q) /\ at(j) \in 1..Len(q) /\ q[at(i)] = q[at(j)]
    BY <1>0, <1>7
  <2>2. at(i) = at(j)
    BY <1>0, <2>1 DEF NoRepeat
  <2> QED
    BY <2>2
<1>9. ASSUME NEW s PROVE Contains(t, s) <=> Contains(q, s) /\ s # e
  <2>1. ASSUME Contains(t, s) PROVE Contains(q, s) /\ s # e
    <3>1. PICK i \in 1..(Len(q) - 1) : t[i] = s
      BY <1>6, <2>1 DEF Contains
    <3>2. PICK j \in 1..Len(q) : j # k /\ q[j] = s
      BY <1>0, <1>7, <3>1
    <3> QED
      BY <1>0, <3>2 DEF Contains
  <2>2. ASSUME Contains(q, s), s # e PROVE Contains(t, s)
    <3>1. PICK i \in 1..Len(q) : q[i] = s
      BY <2>2 DEF Contains
    <3>2. CASE i < k
      BY <1>0, <1>6, <1>7, <3>1, <3>2 DEF Contains
    <3>3. CASE i > k
      <4>1. i - 1 \in 1..(Len(q) - 1) /\ t[i - 1] = q[i]
        BY <1>0, <1>7, <3>3
      <4> QED
        BY <1>6, <3>1, <4>1 DEF Contains
    <3> QED
      BY <1>0, <1>1, <2>2, <3>1, <3>2, <3>3
  <2> QED
    BY <2>1, <2>2
<1> QED
  BY <1>6, <1>8, <1>9 DEF t


-----------------------------------------------------------------------------
(* Who is in the middle of something is alone; two processes that live have     *)
(* different ids, also from the one that says goodbye; and who holds or opens a *)
(* FIFO lives.                                                                  *)
LEMMA OthersRest ==
    ASSUME FifosIInv, NEW p \in Pids, step[p] \notin Resting, NEW q \in Pids, q # p
    PROVE  step[q] \in Resting
BY DEF FifosIInv, TableIInv, OneBusy, Busy

LEMMA LiveIdsDiffer ==
    ASSUME FifosIInv, NEW p \in Pids, NEW q \in Pids, id[p] = id[q],
           step[p] \notin Outside, step[q] \notin Outside
    PROVE  p = q
<1>1. CASE p \in Online /\ q \in Online
  BY <1>1 DEF FifosIInv, TableIInv, IdsDiffer
<1>2. CASE step[p] = "goodbye" /\ step[q] = "goodbye"
  BY <1>2, OthersRest DEF Resting
<1>3. CASE step[p] = "goodbye" /\ q \in Online
  BY <1>3 DEF FifosIInv, Relations, Lines, GoodbyeIsFree, TableIInv, Owned, SlotsAreOwned
<1>4. CASE step[q] = "goodbye" /\ p \in Online
  BY <1>4 DEF FifosIInv, Relations, Lines, GoodbyeIsFree, TableIInv, Owned, SlotsAreOwned
<1> QED
  BY <1>1, <1>2, <1>3, <1>4 DEF Online, InTable

LEMMA HoldersLive ==
    ASSUME FifosIInv, NEW q \in Pids, NEW s \in Table, Holds(q, s)
    PROVE  step[q] \notin Outside /\ id[q] \in Table
<1>2. userpipe[q] # <<>> \/ opening[q] = s
  BY EmptyList DEF Holds
<1>3. userpipe[q] # <<>> \/ cursor[q] # 0
  BY <1>2, InvTypes
<1> QED
  BY <1>3 DEF FifosIInv, Shape, OutsideIsEmpty, PipersInTable

LEMMA HoldersDiffer ==
    ASSUME FifosIInv, NEW p \in Pids, NEW q \in Pids, id[p] = id[q],
           NEW s \in Table, Holds(q, s), step[p] \notin Outside
    PROVE  p = q
BY HoldersLive, LiveIdsDiffer

LEMMA OpenersHold ==
    ASSUME FifosIInv, NEW q \in Pids, opening[q] # 0
    PROVE  /\ opening[q] \in Table /\ opening[q] = cursor[q] /\ id[q] \in Table
           /\ Holds(q, opening[q]) /\ step[q] = "prompt"
           /\ fifo_check[opening[q]][id[q]] = 1
<1>1. opening[q] \in Table /\ cursor[q] # 0 /\ opening[q] = cursor[q] /\ Holds(q, opening[q])
  BY InvTypes DEF Holds
<1>2. id[q] \in Table /\ step[q] = "prompt"
  BY <1>1 DEF FifosIInv, Shape, PipersInTable, Relations, Lines, SignalsArrive, At
<1> QED
  BY <1>1, <1>2 DEF FifosIInv, Relations, Records, MarksAreHeld

(* A writer is the only one, and of different users.                            *)
LEMMA WriterIsAlone ==
    ASSUME FifosIInv, NEW w \in Pids, step[w] \in Writing
    PROVE  /\ \A x \in Pids : x # w => step[x] \in Resting
           /\ \A x \in Pids : step[x] \in Writing => x = w
           /\ opening[w] = 0 /\ cursor[w] = 0 /\ ~pending[w]
           /\ id[w] \in Table /\ line[w].to \in Table /\ line[w].to # id[w]
<1>1. step[w] \notin Resting /\ step[w] # "prompt" /\ step[w] \in Piping
  BY DEF Writing, Resting, Piping
<1>2. \A x \in Pids : x # w => step[x] \in Resting
  BY <1>1, OthersRest
<1>3. \A x \in Pids : step[x] \in Writing => x = w
  BY <1>2 DEF Writing, Resting
<1>4. cursor[w] = 0 /\ ~pending[w]
  BY <1>1 DEF FifosIInv, Relations, Lines, SignalsArrive, At
<1>5. opening[w] = 0
  BY <1>4, InvTypes
<1>6. id[w] \in Table /\ line[w].to \in Table
  BY <1>1 DEF FifosIInv, Shape, PipersInTable, WritersName
<1>7. line[w].to # id[w]
  BY <1>1 DEF FifosIInv, Relations, Lines, LinesAreOwn
<1> QED
  BY <1>2, <1>3, <1>4, <1>5, <1>6, <1>7

(* In the middle of a line there is no handler.                                 *)
LEMMA PiperIsBusy ==
    ASSUME FifosIInv, NEW p \in Pids, step[p] \in Piping \cup {"goodbye"}
    PROVE  /\ \A x \in Pids : x # p => step[x] \in Resting
           /\ opening[p] = 0 /\ cursor[p] = 0 /\ ~pending[p]
           /\ step[p] \notin Outside
<1>1. step[p] \notin Resting /\ step[p] # "prompt" /\ step[p] \notin Outside
  BY DEF Piping, Resting, Outside
<1>2. cursor[p] = 0 /\ ~pending[p]
  BY <1>1 DEF FifosIInv, Relations, Lines, SignalsArrive, At
<1> QED
  BY <1>1, <1>2, InvTypes, OthersRest

(* Nobody waits for a FIFO: what is marked or opened is of writers who went in. *)
LEMMA NoWriters ==
    ASSUME FifosIInv, \A p \in Pids : step[p] \notin Writing
    PROVE  /\ \A s, r \in Table : fifo_check[s][r] = 2 => <<s, r>> \in alone
           /\ \A q \in Pids : opening[q] # 0 => <<opening[q], id[q]>> \in alone
<1>1. \A p \in Pids : \A s, r : ~Writer(p, s, r)
  BY DEF Writer
<1> QED
  BY <1>1 DEF FifosIInv, Relations, Writers, MarksHaveWriters, OpeningsHaveWriters

LEMMA NoWritersNext ==
    ASSUME \A p \in Pids : step'[p] \notin Writing,
           \A s, r \in Table : fifo_check'[s][r] = 2 => <<s, r>> \in alone',
           \A q \in Pids : opening'[q] # 0 => <<opening'[q], id'[q]>> \in alone',
           \A s, r \in Table : <<s, r>> \in alone' =>
                fifo_check'[s][r] = 2 \/ \E q \in Pids : id'[q] = r /\ opening'[q] = s
    PROVE  Writers'
BY DEF Writers, WritersWait, MarksHaveWriters, OpeningsHaveWriters, WritersAreFresh,
       AloneAreMarked

LEMMA SameFileSamePipe ==
    ASSUME NEW a \in Pipes, NEW b \in Pipes, SameFile(a, b)
    PROVE  a = b
<1>1. Pipes \subseteq (1..30) \X (1..30)
  BY FifoNamesDiffer DEF Pipes
<1>2. DOMAIN FifoName = (1..30) \X (1..30)
  BY DEF FifoName
<1> QED
  BY <1>1, <1>2, FifoNamesDiffer DEF SameFile

-----------------------------------------------------------------------------
(* The table's own steps, and those of nobody: what has to do with FIFOs stays. *)
QuietStep ==
    /\ UNCHANGED fifos
    /\ \A q \in Pids : step'[q] # step[q] =>
            /\ {step[q], step'[q]} \cap Piping = {}
            /\ ~pending[q] /\ cursor[q] = 0
    /\ \A q \in Pids : id'[q] # id[q] => step[q] \in Outside
    /\ \A p \in Pids, i \in Table : step[p] \in Writing /\ taken[i] => taken'[i]

LEMMA QuietIInv ==
    ASSUME FifosIInv, QuietStep, GoodbyeIsFree'
    PROVE  Relations'
<1>1. /\ fifo_check' = fifo_check /\ userpipe' = userpipe /\ line' = line
      /\ pending' = pending /\ cursor' = cursor /\ opening' = opening
      /\ commands' = commands /\ lost' = lost /\ alone' = alone
  BY DEF QuietStep, fifos
<1>2. \A p \in Pids : /\ step'[p] \in Piping <=> step[p] \in Piping
                      /\ step[p] \in Piping => step'[p] = step[p] /\ id'[p] = id[p]
  BY DEF QuietStep, Piping, Outside
<1>3. \A p \in Pids : /\ step'[p] \in Writing <=> step[p] \in Writing
                      /\ step[p] \in Writing => id'[p] = id[p] /\ line[p].to \in Table
  BY <1>2, WriterIsAlone DEF Writing, Piping
<1>4. ASSUME NEW q \in Pids, NEW s \in Table PROVE Holds(q, s)' <=> Holds(q, s)
  BY <1>1 DEF Holds
<1>5. ASSUME NEW q \in Pids, NEW s \in Table, Holds(q, s) PROVE id'[q] = id[q]
  BY <1>5, HoldersLive DEF QuietStep
<1>6. \A q \in Pids : opening[q] # 0 => id'[q] = id[q]
  BY <1>5, OpenersHold
<1>7. Lines'
  <2>1. SignalsArrive'
    <3> SUFFICES ASSUME NEW p \in Pids, pending[p] \/ cursor[p] # 0
                 PROVE  step'[p] = "prompt"
      BY <1>1 DEF SignalsArrive, At
    <3>1. step[p] = "prompt"
      BY DEF FifosIInv, Relations, Lines, SignalsArrive, At
    <3> QED
      BY <3>1 DEF QuietStep
  <2>2. LinesAreOwn'
    BY <1>1, <1>2 DEF FifosIInv, Relations, Lines, LinesAreOwn, NobodyReads
  <2> QED
    BY <2>1, <2>2 DEF Lines
<1>8. Writers'
  <2>1. WritersWait'
    <3> SUFFICES ASSUME NEW p \in Pids, step[p] \in Writing
                 PROVE  /\ taken'[line[p].to]
                        /\ \/ fifo_check[id[p]][line[p].to] = 2
                           \/ \E q \in Pids : id'[q] = line[p].to /\ opening[q] = id[p]
      BY <1>1, <1>3 DEF WritersWait
    <3>1. id[p] # 0
      BY WriterIsAlone, InvTypes
    <3>2. /\ taken[line[p].to]
          /\ \/ fifo_check[id[p]][line[p].to] = 2
             \/ \E q \in Pids : id[q] = line[p].to /\ opening[q] = id[p]
      BY DEF FifosIInv, Relations, Writers, WritersWait
    <3>3. taken'[line[p].to]
      BY <1>3, <3>2 DEF QuietStep
    <3> QED
      BY <1>6, <3>1, <3>2, <3>3
  <2>2. MarksHaveWriters'
    BY <1>1, <1>3 DEF FifosIInv, Relations, Writers, MarksHaveWriters, Writer
  <2>3. OpeningsHaveWriters'
    BY <1>1, <1>3, <1>6 DEF FifosIInv, Relations, Writers, OpeningsHaveWriters, Writer
  <2>4. WritersAreFresh'
    <3> SUFFICES ASSUME NEW p \in Pids, step[p] \in Writing
                 PROVE  /\ <<id[p], line[p].to>> \notin alone
                        /\ \A c \in commands : c.out # <<id[p], line[p].to>>
                        /\ \A q \in Pids : id'[q] = line[p].to =>
                                                ~Contains(userpipe[q], id[p])
      BY <1>1, <1>3 DEF WritersAreFresh
    <3>1. id[p] \in Table
      BY WriterIsAlone
    <3>2. \A q \in Pids : Contains(userpipe[q], id[p]) => id'[q] = id[q]
      BY <1>5, <3>1 DEF Holds
    <3> QED
      BY <3>2 DEF FifosIInv, Relations, Writers, WritersAreFresh
  <2>5. AloneAreMarked'
    <3> SUFFICES ASSUME NEW s \in Table, NEW r \in Table, <<s, r>> \in alone
                 PROVE  fifo_check[s][r] = 2 \/ \E q \in Pids : id'[q] = r /\ opening[q] = s
      BY <1>1 DEF AloneAreMarked
    <3>1. s # 0
      BY InvTypes
    <3> QED
      BY <1>6, <3>1 DEF FifosIInv, Relations, Writers, AloneAreMarked
  <2> QED
    BY <2>1, <2>2, <2>3, <2>4, <2>5 DEF Writers
<1>9. Records'
  <2>1. MarksAreHeld'
    <3>1. ASSUME NEW s \in Table, NEW r \in Table
          PROVE  (\E q \in Pids : id[q] = r /\ Holds(q, s))'
                    <=> \E q \in Pids : id[q] = r /\ Holds(q, s)
      BY <1>4, <1>5
    <3> QED
      BY <1>1, <3>1 DEF FifosIInv, Relations, Records, MarksAreHeld
  <2>2. HeldOnce'
    BY <1>1, <1>4, <1>5 DEF FifosIInv, Relations, Records, HeldOnce
  <2>3. OutsAreMarked'
    BY <1>1, <1>2 DEF FifosIInv, Relations, Records, OutsAreMarked, Piping
  <2> QED
    BY <2>1, <2>2, <2>3 DEF Records
<1> QED
  BY <1>7, <1>8, <1>9 DEF Relations

LEMMA TableStepIInv ==
    ASSUME FifosIInv, calm', NEW p \in Pids, TableStep(p) \/ Leaves(p) \/ Renames(p)
    PROVE  Relations'
<1> USE DEF At, Become, Begin
<1>0. /\ step \in [Pids -> FifoSteps] /\ pending \in [Pids -> BOOLEAN]
      /\ taken \in [Slots -> BOOLEAN] /\ id \in [Pids -> 0..(MaxUsers + 1)]
  BY InvTypes DEF FifosIInv, TableIInv, TableTypeOK
<1>1. CASE TableStep(p) /\ (find_id(p) \/ take_id(p))
  <2>1. PICK t \in {"found", "login"} :
            /\ step[p] \in {"forked", "found"} /\ step' = [step EXCEPT ![p] = t]
            /\ UNCHANGED fifos /\ cursor[p] = 0
    BY <1>1 DEF find_id, take_id, TableStep, fifos
  <2>2. ~pending[p]
    BY <2>1 DEF FifosIInv, Relations, Lines, SignalsArrive
  <2>3. /\ \A q \in Pids : id'[q] # id[q] => q = p
        /\ \A i \in Table : taken[i] => taken'[i]
    <3>1. CASE find_id(p)
      BY <1>0, <3>1 DEF find_id, memory
    <3>2. CASE take_id(p)
      BY <1>0, <3>2, SharedBounds DEF take_id, Table, Slots
    <3> QED
      BY <1>1, <3>1, <3>2
  <2>4. \A q \in Pids : step'[q] = IF q = p THEN t ELSE step[q]
    BY <1>0, <2>1
  <2>5. QuietStep
    BY <2>1, <2>2, <2>3, <2>4 DEF QuietStep, Piping, Outside
  <2>6. \A q \in Pids : step'[q] # "goodbye"
    BY <2>1, <2>4, OthersRest DEF Resting
  <2>7. GoodbyeIsFree'
    BY <2>6 DEF GoodbyeIsFree
  <2> QED
    BY <2>5, <2>7, QuietIInv
<1>2. CASE TableStep(p) /\ login(p)
  <2>1. /\ step[p] = "login" /\ step' = [step EXCEPT ![p] = "prompt"]
        /\ UNCHANGED fifos /\ UNCHANGED <<taken, id>> /\ cursor[p] = 0
    BY <1>2 DEF login, TableStep, fifos
  <2>2. ~pending[p]
    BY <2>1 DEF FifosIInv, Relations, Lines, SignalsArrive
  <2>4. \A q \in Pids : step'[q] = IF q = p THEN "prompt" ELSE step[q]
    BY <1>0, <2>1
  <2>5. QuietStep
    BY <2>1, <2>2, <2>4 DEF QuietStep, Piping, Outside
  <2>7. GoodbyeIsFree'
    BY <2>1, <2>4 DEF GoodbyeIsFree, FifosIInv, Relations, Lines
  <2> QED
    BY <2>5, <2>7, QuietIInv
<1>3. CASE Leaves(p)
  <2>1. /\ step[p] = "prompt" /\ step' = [step EXCEPT ![p] = "goodbye"]
        /\ taken' = [taken EXCEPT ![id[p]] = FALSE]
        /\ UNCHANGED fifos /\ id' = id /\ ~pending[p] /\ cursor[p] = 0
        /\ Quiet
    BY <1>3 DEF logout, Leaves, AtPrompt, Goes
  <2>2. p \in Online
    BY <2>1 DEF Online, InTable, Outside
  <2>3. id[p] \in Slots /\ taken'[id[p]] = FALSE
    BY <1>0, <2>1, <2>2 DEF FifosIInv, TableIInv, Owned, SlotsAreOwned
  <2>4. \A q \in Pids : step'[q] = IF q = p THEN "goodbye" ELSE step[q]
    BY <1>0, <2>1
  <2>5. \A q \in Pids : step[q] \in Resting
    BY <2>1 DEF Quiet
  <2>6. GoodbyeIsFree'
    BY <2>1, <2>3, <2>4, <2>5 DEF GoodbyeIsFree, Resting
  <2>7. QuietStep
    BY <2>1, <2>4, <2>5 DEF QuietStep, Resting, Writing, Piping
  <2> QED
    BY <2>6, <2>7, QuietIInv
<1>4. CASE Renames(p)
  <2>1. UNCHANGED <<step, id, taken>> /\ UNCHANGED fifos
    BY <1>4 DEF Renames, name
  <2>2. GoodbyeIsFree'
    BY <2>1 DEF GoodbyeIsFree, FifosIInv, Relations, Lines
  <2>3. QuietStep
    BY <2>1 DEF QuietStep
  <2> QED
    BY <2>2, <2>3, QuietIInv
<1>5. TableStep(p) => find_id(p) \/ take_id(p) \/ login(p)
  BY DEF TableStep
<1> QED
  BY <1>1, <1>2, <1>3, <1>4, <1>5

LEMMA ParentFifosIInv ==
    ASSUME FifosIInv, Parent \/ Connect \/ UNCHANGED tableVars, UNCHANGED fifos
    PROVE  Relations'
<1>0. step \in [Pids -> FifoSteps]
  BY InvTypes
<1>1. CASE UNCHANGED <<step, id, taken>>
  <2>1. GoodbyeIsFree'
    BY <1>1 DEF GoodbyeIsFree, FifosIInv, Relations, Lines
  <2>2. QuietStep
    BY <1>1 DEF QuietStep
  <2> QED
    BY <2>1, <2>2, QuietIInv
<1>2. CASE Accept
  <2>1. PICK p \in Pids : step[p] = "none" /\ step' = [step EXCEPT ![p] = "forked"]
    BY <1>2 DEF Accept, Begin, Become
  <2>2. UNCHANGED <<id, taken>>
    BY <1>2 DEF Accept, memory
  <2>3. \A q \in Pids : step'[q] = IF q = p THEN "forked" ELSE step[q]
    BY <1>0, <2>1
  <2>4. ~pending[p] /\ cursor[p] = 0
    BY <2>1 DEF FifosIInv, Relations, Lines, SignalsArrive, At
  <2>5. GoodbyeIsFree'
    BY <2>2, <2>3 DEF GoodbyeIsFree, FifosIInv, Relations, Lines
  <2>6. QuietStep
    BY <2>1, <2>2, <2>3, <2>4 DEF QuietStep, Piping, Writing
  <2> QED
    BY <2>5, <2>6, QuietIInv
<1> QED
  BY <1>1, <1>2 DEF Parent, Check, Connect, tableVars, memory

-----------------------------------------------------------------------------
(* A line of process p.                                                         *)
LEMMA TypeIInv ==
    ASSUME FifosIInv, calm', NEW p \in Pids,
           NEW from \in Table \cup {0}, NEW to \in Table \cup {0}, Type(p, from, to)
    PROVE  Relations'
<1> DEFINE new == [from |-> from, to |-> to, in |-> NoPipe]
<1>1. /\ Quiet /\ NobodyReads /\ step[p] = "prompt" /\ cursor[p] = 0 /\ ~pending[p]
      /\ id[p] \in Table /\ id[p] \notin {from, to}
      /\ line' = [line EXCEPT ![p] = new]
      /\ step' = [step EXCEPT ![p] = "get"]
      /\ UNCHANGED <<id, taken, fifo_check, userpipe, pending, cursor, opening,
                     commands, lost, alone>>
  BY DEF Type, AtPrompt, Goes, At, Begin, Become, memory
<1>2. step \in [Pids -> FifoSteps] /\ line \in [Pids -> LineShapes]
  BY InvTypes
<1>3. \A q \in Pids : step[q] \in Resting
  BY <1>1 DEF Quiet
<1>4. \A q \in Pids : step'[q] = IF q = p THEN "get" ELSE step[q]
  BY <1>1, <1>2
<1>5. /\ line'[p].from = from /\ line'[p].to = to /\ line'[p].in = NoPipe
      /\ \A q \in Pids : q # p => line'[q] = line[q]
  BY <1>1, <1>2
<1>6. \A q \in Pids : step[q] \notin Writing /\ step'[q] \notin Writing
  BY <1>3, <1>4 DEF Writing, Resting
<1>7. Lines'
  <2>1. SignalsArrive'
    BY <1>1, <1>4 DEF FifosIInv, Relations, Lines, SignalsArrive, At
  <2>2. LinesAreOwn'
    BY <1>1, <1>3, <1>4, <1>5
    DEF FifosIInv, Relations, Lines, LinesAreOwn, Piping, Resting, NobodyReads
  <2>3. GoodbyeIsFree'
    BY <1>1, <1>4 DEF FifosIInv, Relations, Lines, GoodbyeIsFree
  <2> QED
    BY <2>1, <2>2, <2>3 DEF Lines
<1>8. Writers'
  BY <1>1, <1>6, NoWriters, NoWritersNext DEF FifosIInv, Relations, Writers, AloneAreMarked
<1>9. Records'
  <2>1. MarksAreHeld' /\ HeldOnce'
    BY <1>1 DEF FifosIInv, Relations, Records, MarksAreHeld, HeldOnce, Holds
  <2>2. OutsAreMarked'
    BY <1>1, <1>3 DEF FifosIInv, Relations, Records, OutsAreMarked, Resting
  <2> QED
    BY <2>1, <2>2 DEF Records
<1> QED
  BY <1>7, <1>8, <1>9 DEF Relations

(* get_userpipe takes over a pipe that this process alone has.                  *)
LEMMA GetTakesIInv ==
    ASSUME FifosIInv, NEW p \in Pids, get_userpipe(p),
           line[p].from # 0, taken[line[p].from], Contains(userpipe[p], line[p].from)
    PROVE  Relations'
<1> DEFINE s == line[p].from
           r == id[p]
<1>1. /\ step[p] = "get" /\ step' = [step EXCEPT ![p] = "add"]
      /\ UNCHANGED <<id, taken, pending, cursor, opening, commands, lost, alone>>
      /\ userpipe' = [userpipe EXCEPT ![p] = RemoveFirst(@, s)]
      /\ fifo_check' = [fifo_check EXCEPT ![s][r] = 0]
      /\ line' = [line EXCEPT ![p].in = <<s, r>>]
  BY DEF get_userpipe, Goes, At, Become, rest, memory
<1>2. /\ step \in [Pids -> FifoSteps] /\ line \in [Pids -> LineShapes]
      /\ userpipe \in [Pids -> Seq(Table)]
      /\ fifo_check \in [Table -> [Table -> {0, 1, 2, Text}]]
      /\ commands \subseteq CommandShapes /\ 0 \notin Table
  BY InvTypes
<1>3. step[p] \in Piping
  BY <1>1 DEF Piping
<1>4. /\ r \in Table /\ NobodyReads /\ s # r /\ line[p].to # r
  BY <1>1, <1>3 DEF FifosIInv, Shape, PipersInTable, Relations, Lines, LinesAreOwn
<1>5. s \in Table
  BY <1>2 DEF LineShapes
<1>6. /\ \A q \in Pids : q # p => step[q] \in Resting
      /\ opening[p] = 0 /\ ~pending[p] /\ cursor[p] = 0 /\ step[p] \notin Outside
  BY <1>3, PiperIsBusy
<1>7. \A q \in Pids : step'[q] = IF q = p THEN "add" ELSE step[q]
  BY <1>1, <1>2
<1>8. \A q \in Pids : step[q] \notin Writing /\ step'[q] \notin Writing
  BY <1>1, <1>6, <1>7 DEF Writing, Resting
<1>9. /\ NoRepeat(userpipe[p]) /\ Holds(p, s)
  BY DEF FifosIInv, Relations, Records, HeldOnce, Holds
<1>10. /\ NoRepeat(RemoveFirst(userpipe[p], s))
       /\ \A t : Contains(RemoveFirst(userpipe[p], s), t)
                   <=> Contains(userpipe[p], t) /\ t # s
  BY <1>2, <1>9, RemoveFromList
<1>11. \A q \in Pids : userpipe'[q] = IF q = p THEN RemoveFirst(userpipe[p], s)
                                              ELSE userpipe[q]
  BY <1>1, <1>2
<1>12. \A q \in Pids, t \in Table : Holds(q, t)' <=> Holds(q, t) /\ ~(q = p /\ t = s)
  <2> SUFFICES ASSUME NEW q \in Pids, NEW t \in Table
               PROVE  Holds(q, t)' <=> Holds(q, t) /\ ~(q = p /\ t = s)
    OBVIOUS
  <2>1. CASE q = p
    BY <1>1, <1>2, <1>6, <1>10, <1>11, <2>1 DEF Holds
  <2>2. CASE q # p
    BY <1>1, <1>11, <2>2 DEF Holds
  <2> QED
    BY <2>1, <2>2
<1>13. /\ \A q \in Pids : q # p => line'[q] = line[q]
       /\ line'[p].from = s /\ line'[p].to = line[p].to /\ line'[p].in = <<s, r>>
  BY <1>1, <1>2 DEF LineShapes
<1>14. \A t, u \in Table : fifo_check'[t][u] = IF t = s /\ u = r THEN 0
                                               ELSE fifo_check[t][u]
  BY <1>1, <1>2, <1>4, <1>5
<1>15. fifo_check[s][r] = 1 /\ <<s, r>> \notin lost
  BY <1>4, <1>5, <1>9 DEF FifosIInv, Relations, Records, MarksAreHeld, HeldOnce
<1>16. Lines'
  <2>1. SignalsArrive'
    BY <1>1, <1>6, <1>7 DEF FifosIInv, Relations, Lines, SignalsArrive, At
  <2>2. LinesAreOwn'
    <3>1. \A q \in Pids : q # p => step[q] \notin Piping /\ line[q] = NoLine
      BY <1>6 DEF FifosIInv, Relations, Lines, LinesAreOwn, Resting, Piping
    <3>2. NobodyReads'
      BY <1>1, <1>4 DEF NobodyReads
    <3> QED
      BY <1>1, <1>4, <1>7, <1>13, <3>1, <3>2 DEF LinesAreOwn, Piping
  <2>3. GoodbyeIsFree'
    BY <1>1, <1>7 DEF FifosIInv, Relations, Lines, GoodbyeIsFree
  <2> QED
    BY <2>1, <2>2, <2>3 DEF Lines
<1>17. Writers'
  <2>1. \A t, u \in Table : fifo_check'[t][u] = 2 <=> fifo_check[t][u] = 2
    BY <1>14, <1>15
  <2>2. \A t, u \in Table : fifo_check'[t][u] = 2 => <<t, u>> \in alone
    BY <1>8, <2>1, NoWriters
  <2>3. \A q \in Pids : opening[q] # 0 => <<opening[q], id[q]>> \in alone
    BY <1>8, NoWriters
  <2>4. \A t, u \in Table : <<t, u>> \in alone =>
            fifo_check'[t][u] = 2 \/ \E q \in Pids : id[q] = u /\ opening[q] = t
    BY <2>1 DEF FifosIInv, Relations, Writers, AloneAreMarked
  <2> QED
    BY <1>1, <1>8, <2>2, <2>3, <2>4, NoWritersNext
<1>18. HeldOnce'
  <2>1. \A q \in Pids : NoRepeat(userpipe'[q])
    BY <1>10, <1>11 DEF FifosIInv, Relations, Records, HeldOnce
  <2>2. ASSUME NEW q \in Pids, NEW t \in Table
        PROVE  /\ Holds(q, t)' => <<t, id[q]>> \notin lost
               /\ ~(Contains(userpipe'[q], t) /\ opening[q] = t)
    <3>1. Holds(q, t)' => <<t, id[q]>> \notin lost
      BY <1>12 DEF FifosIInv, Relations, Records, HeldOnce
    <3>2. Contains(userpipe'[q], t) => Contains(userpipe[q], t)
      BY <1>10, <1>11
    <3> QED
      BY <3>1, <3>2 DEF FifosIInv, Relations, Records, HeldOnce
  <2> QED
    BY <1>1, <2>1, <2>2 DEF HeldOnce
<1>19. MarksAreHeld'
  <2> SUFFICES ASSUME NEW t \in Table, NEW u \in Table
               PROVE  fifo_check'[t][u] = 1 <=>
                          \/ <<t, u>> \in lost
                          \/ \E q \in Pids : id[q] = u /\ Holds(q, t)'
    BY <1>1 DEF MarksAreHeld
  <2>1. CASE t = s /\ u = r
    <3>1. ASSUME NEW q \in Pids, id[q] = r, Holds(q, t)' PROVE FALSE
      <4>1. Holds(q, s) /\ q # p
        BY <1>12, <2>1, <3>1
      <4> QED
        BY <1>5, <1>6, <3>1, <4>1, HoldersDiffer
    <3>2. fifo_check'[t][u] # 1 /\ <<t, u>> \notin lost
      BY <1>14, <1>15, <2>1
    <3> QED
      BY <2>1, <3>1, <3>2
  <2>2. CASE ~(t = s /\ u = r)
    <3>1. \A q \in Pids : id[q] = u => (Holds(q, t)' <=> Holds(q, t))
      BY <1>12, <2>2
    <3>2. fifo_check'[t][u] = fifo_check[t][u]
      BY <1>14, <2>2
    <3> QED
      BY <3>1, <3>2 DEF FifosIInv, Relations, Records, MarksAreHeld
  <2> QED
    BY <2>1, <2>2
<1>20. OutsAreMarked'
  <2> SUFFICES ASSUME NEW c \in commands, c.out # NoPipe
               PROVE  \/ fifo_check'[c.out[1]][c.out[2]] # 0
                      \/ \E d \in commands : d.in = c.out
                      \/ c.out = <<s, r>>
    BY <1>1, <1>7, <1>13 DEF OutsAreMarked
  <2>1. PICK t \in Table, u \in Table : c.out = <<t, u>>
    BY <1>2 DEF CommandShapes, Sides, Pipes
  <2>2. \/ fifo_check[c.out[1]][c.out[2]] # 0
        \/ \E d \in commands : d.in = c.out
        \/ \E q \in Pids : step[q] \in {"add", "signal", "open"}
    BY DEF FifosIInv, Relations, Records, OutsAreMarked
  <2>3. ~\E q \in Pids : step[q] \in {"add", "signal", "open"}
    BY <1>1, <1>6 DEF Resting
  <2>4. fifo_check[t][u] # 0 \/ \E d \in commands : d.in = c.out
    BY <2>1, <2>2, <2>3
  <2> QED
    BY <1>14, <2>1, <2>4
<1> QED
  BY <1>16, <1>17, <1>18, <1>19, <1>20 DEF Relations, Records

LEMMA GetNothingIInv ==
    ASSUME FifosIInv, NEW p \in Pids, get_userpipe(p), UNCHANGED <<userpipe, fifo_check, line>>
    PROVE  Relations'
<1>1. /\ step[p] = "get" /\ step' = [step EXCEPT ![p] = "add"]
      /\ UNCHANGED <<id, taken, pending, cursor, opening, commands, lost, alone>>
  BY DEF get_userpipe, Goes, At, Become, rest, memory
<1>3. step[p] \in Piping /\ step \in [Pids -> FifoSteps]
  BY <1>1, InvTypes DEF Piping
<1>6. /\ \A q \in Pids : q # p => step[q] \in Resting
      /\ ~pending[p] /\ cursor[p] = 0
  BY <1>3, PiperIsBusy
<1>7. \A q \in Pids : step'[q] = IF q = p THEN "add" ELSE step[q]
  BY <1>1, <1>3
<1>8. \A q \in Pids : step[q] \notin Writing /\ step'[q] \notin Writing
  BY <1>1, <1>6, <1>7 DEF Writing, Resting
<1>9. Lines'
  <2>1. SignalsArrive'
    BY <1>1, <1>6, <1>7 DEF FifosIInv, Relations, Lines, SignalsArrive, At
  <2>2. LinesAreOwn'
    BY <1>1, <1>7 DEF FifosIInv, Relations, Lines, LinesAreOwn, Piping, NobodyReads
  <2>3. GoodbyeIsFree'
    BY <1>1, <1>7 DEF FifosIInv, Relations, Lines, GoodbyeIsFree
  <2> QED
    BY <2>1, <2>2, <2>3 DEF Lines
<1>10. Writers'
  BY <1>1, <1>8, NoWriters, NoWritersNext DEF FifosIInv, Relations, Writers, AloneAreMarked
<1>11. Records'
  <2>1. MarksAreHeld' /\ HeldOnce'
    BY <1>1 DEF FifosIInv, Relations, Records, MarksAreHeld, HeldOnce, Holds
  <2>2. OutsAreMarked'
    BY <1>1, <1>7 DEF FifosIInv, Relations, Records, OutsAreMarked
  <2> QED
    BY <2>1, <2>2 DEF Records
<1> QED
  BY <1>9, <1>10, <1>11 DEF Relations

(* add_userpipe marks a pipe that has no mark: nobody holds it, and what wrote  *)
(* into it before has ended.                                                    *)
LEMMA AddAcceptedIInv ==
    ASSUME FifosIInv, NEW p \in Pids, add_userpipe(p),
           line[p].to # 0, taken[line[p].to], fifo_check[id[p]][line[p].to] = 0
    PROVE  Relations'
<1> DEFINE r == line[p].to
           s == id[p]
<1>1. /\ step[p] = "add" /\ step' = [step EXCEPT ![p] = "signal"]
      /\ fifo_check' = [fifo_check EXCEPT ![s][r] = 2]
      /\ UNCHANGED <<id, taken, userpipe, line, pending, cursor, opening, commands, lost, alone>>
  BY DEF add_userpipe, Goes, At, Become, rest, memory
<1>2. /\ step \in [Pids -> FifoSteps] /\ line \in [Pids -> LineShapes]
      /\ fifo_check \in [Table -> [Table -> {0, 1, 2, Text}]]
      /\ commands \subseteq CommandShapes /\ 0 \notin Table
  BY InvTypes
<1>3. step[p] \in Piping
  BY <1>1 DEF Piping
<1>4. /\ s \in Table /\ NobodyReads /\ s # r
      /\ line[p].in \in {NoPipe, <<line[p].from, s>>}
  BY <1>1, <1>3 DEF FifosIInv, Shape, PipersInTable, Relations, Lines, LinesAreOwn
<1>5. r \in Table
  BY <1>2 DEF LineShapes
<1>6. /\ \A q \in Pids : q # p => step[q] \in Resting
      /\ opening[p] = 0 /\ ~pending[p] /\ cursor[p] = 0
  BY <1>3, PiperIsBusy
<1>7. \A q \in Pids : step'[q] = IF q = p THEN "signal" ELSE step[q]
  BY <1>1, <1>2
<1>8. /\ \A q \in Pids : step[q] \notin Writing
      /\ \A q \in Pids : step'[q] \in Writing => q = p
  BY <1>1, <1>6, <1>7 DEF Writing, Resting
<1>9. \A t, u \in Table : fifo_check'[t][u] = IF t = s /\ u = r THEN 2
                                              ELSE fifo_check[t][u]
  BY <1>1, <1>2, <1>4, <1>5
<1>10. Lines'
  <2>1. SignalsArrive'
    BY <1>1, <1>6, <1>7 DEF FifosIInv, Relations, Lines, SignalsArrive, At
  <2>2. LinesAreOwn'
    BY <1>1, <1>7 DEF FifosIInv, Relations, Lines, LinesAreOwn, Piping, NobodyReads
  <2>3. GoodbyeIsFree'
    BY <1>1, <1>7 DEF FifosIInv, Relations, Lines, GoodbyeIsFree
  <2> QED
    BY <2>1, <2>2, <2>3 DEF Lines
<1>11. \A q \in Pids : id[q] = r => ~Holds(q, s)
  <2>1. fifo_check[s][r] # 1
    OBVIOUS
  <2>2. MarksAreHeld
    BY DEF FifosIInv, Relations, Records
  <2> HIDE DEF r, s
  <2> QED
    BY <1>4, <1>5, <2>1, <2>2 DEF MarksAreHeld
<1>12. WritersWait'
  BY <1>1, <1>4, <1>5, <1>8, <1>9 DEF WritersWait
<1>13. MarksHaveWriters'
  <2> SUFFICES ASSUME NEW t \in Table, NEW u \in Table, fifo_check'[t][u] = 2
               PROVE  <<t, u>> \in alone \/ \E q \in Pids : Writer(q, t, u)'
    BY <1>1 DEF MarksHaveWriters
  <2>1. CASE t = s /\ u = r
    <3>1. Writer(p, t, u)'
      BY <1>1, <1>7, <2>1 DEF Writer, Writing
    <3> QED
      BY <3>1
  <2>2. CASE ~(t = s /\ u = r)
    BY <1>8, <1>9, <2>2, NoWriters
  <2> QED
    BY <2>1, <2>2
<1>14. OpeningsHaveWriters'
  BY <1>1, <1>8, NoWriters DEF OpeningsHaveWriters
<1>15. WritersAreFresh'
  <2> SUFFICES /\ <<s, r>> \notin alone
               /\ \A c \in commands : c.out # <<s, r>>
               /\ \A q \in Pids : id[q] = r => ~Contains(userpipe[q], s)
    BY <1>1, <1>8 DEF WritersAreFresh
  <2>1. <<s, r>> \notin alone
    BY <1>4, <1>5, <1>11 DEF FifosIInv, Relations, Writers, AloneAreMarked, Holds
  <2>2. ASSUME NEW c \in commands, c.out = <<s, r>> PROVE FALSE
    <3>1. c.out # NoPipe /\ c.out[1] = s /\ c.out[2] = r
      BY <2>2, PipeIsAPair
    <3>2. \/ fifo_check[c.out[1]][c.out[2]] # 0
          \/ \E d \in commands : d.in = c.out
          \/ \E q \in Pids : step[q] \in {"add", "signal", "open"} /\ line[q].in = c.out
      BY <3>1 DEF FifosIInv, Relations, Records, OutsAreMarked
    <3>3. \A d \in commands : d.in # <<s, r>>
      BY <1>4, PipeIsAPair DEF NobodyReads
    <3>4. \A q \in Pids : step[q] \in {"add", "signal", "open"} => q = p
      BY <1>6 DEF Resting
    <3>5. line[p].in # <<s, r>>
      BY <1>4, PipeIsAPair
    <3> QED
      BY <2>2, <3>1, <3>2, <3>3, <3>4, <3>5
  <2> QED
    BY <1>11, <2>1, <2>2 DEF Holds
<1>16. AloneAreMarked'
  BY <1>1, <1>9 DEF FifosIInv, Relations, Writers, AloneAreMarked
<1>17. MarksAreHeld'
  <2>1. \A q \in Pids, t \in Table : Holds(q, t)' <=> Holds(q, t)
    BY <1>1 DEF Holds
  <2>2. \A t, u \in Table : fifo_check'[t][u] = 1 <=> fifo_check[t][u] = 1
    BY <1>9
  <2>3. ASSUME NEW t \in Table, NEW u \in Table
        PROVE  fifo_check'[t][u] = 1 <=> \/ <<t, u>> \in lost
                                         \/ \E q \in Pids : id[q] = u /\ Holds(q, t)'
    BY <2>1, <2>2 DEF FifosIInv, Relations, Records, MarksAreHeld
  <2> QED
    BY <1>1, <2>3 DEF MarksAreHeld
<1>18. HeldOnce'
  BY <1>1 DEF FifosIInv, Relations, Records, HeldOnce, Holds
<1>19. OutsAreMarked'
  <2> SUFFICES ASSUME NEW c \in commands, c.out # NoPipe
               PROVE  \/ fifo_check'[c.out[1]][c.out[2]] # 0
                      \/ \E d \in commands : d.in = c.out
                      \/ line[p].in = c.out
    BY <1>1, <1>7 DEF OutsAreMarked
  <2>1. PICK t \in Table, u \in Table : c.out = <<t, u>>
    BY <1>2 DEF CommandShapes, Sides, Pipes
  <2>2. \/ fifo_check[c.out[1]][c.out[2]] # 0
        \/ \E d \in commands : d.in = c.out
        \/ \E q \in Pids : step[q] \in {"add", "signal", "open"} /\ line[q].in = c.out
    BY DEF FifosIInv, Relations, Records, OutsAreMarked
  <2>3. \A q \in Pids : step[q] \in {"add", "signal", "open"} => q = p
    BY <1>6 DEF Resting
  <2>4. \/ fifo_check[t][u] # 0 \/ \E d \in commands : d.in = c.out
        \/ line[p].in = c.out
    BY <2>1, <2>2, <2>3
  <2> QED
    BY <1>9, <2>1, <2>4
<1> QED
  BY <1>10, <1>12, <1>13, <1>14, <1>15, <1>16, <1>17, <1>18, <1>19
  DEF Relations, Writers, Records

(* A command that the shell forks has its input from the line, and its own end  *)
(* of a FIFO only where the shell says so.                                      *)
LEMMA Forked1 ==
    ASSUME NEW p \in Pids, NEW out, NEW waiter, ForksCommand(p, out, waiter)
    PROVE  /\ commands \subseteq commands'
           /\ \A c \in commands' : c \in commands \/ (c.in = line[p].in /\ c.out = out)
           /\ line[p].in # NoPipe \/ out # NoPipe =>
                \E c \in commands' : c.in = line[p].in /\ c.out = out
<1> DEFINE held == {<<s, id[p]>> : s \in ToSet(userpipe[p])}
           c == [in |-> line[p].in, out |-> out, waiter |-> waiter, held |-> held]
<1>1. commands' = commands \cup
          {d \in {c} : d.in # NoPipe \/ d.out # NoPipe \/ d.held # {}}
  BY DEF ForksCommand
<1>2. c.in = line[p].in /\ c.out = out
  OBVIOUS
<1> HIDE DEF c
<1> QED
  BY <1>1, <1>2

(* Otherwise the shell goes on without a pipe to write into, and what it reads  *)
(* becomes the input of a command.                                              *)
LEMMA AddRefusedIInv ==
    ASSUME FifosIInv, NEW p \in Pids, add_userpipe(p),
           ~(line[p].to # 0 /\ taken[line[p].to] /\ fifo_check[id[p]][line[p].to] = 0)
    PROVE  Relations'
<1> DEFINE last == IF line[p].to = 0 THEN "wait" ELSE "prompt"
<1>1. /\ step[p] = "add" /\ step' = [step EXCEPT ![p] = last]
      /\ line' = IF line[p].to = 0 THEN line ELSE [line EXCEPT ![p] = NoLine]
      /\ ForksCommand(p, NoPipe, IF line[p].to = 0 THEN p ELSE 0)
      /\ UNCHANGED <<id, taken, fifo_check, userpipe, pending, cursor, opening, lost, alone>>
  BY DEF add_userpipe, Goes, At, Become, rest, memory
<1>2. /\ step \in [Pids -> FifoSteps] /\ line \in [Pids -> LineShapes]
  BY InvTypes
<1>3. step[p] \in Piping
  BY <1>1 DEF Piping
<1>4. /\ line[p].from # id[p] /\ line[p].to # id[p]
      /\ line[p].in \in {NoPipe, <<line[p].from, id[p]>>}
  BY <1>1, <1>3 DEF FifosIInv, Relations, Lines, LinesAreOwn
<1>5. /\ commands \subseteq commands'
      /\ \A c \in commands' : c \in commands \/ (c.in = line[p].in /\ c.out = NoPipe)
      /\ line[p].in # NoPipe => \E c \in commands' : c.in = line[p].in
  BY <1>1, Forked1
<1>6. /\ \A q \in Pids : q # p => step[q] \in Resting
      /\ ~pending[p] /\ cursor[p] = 0
  BY <1>3, PiperIsBusy
<1>7. \A q \in Pids : step'[q] = IF q = p THEN last ELSE step[q]
  BY <1>1, <1>2
<1>8. \A q \in Pids : step[q] \notin Writing /\ step'[q] \notin Writing
  BY <1>1, <1>6, <1>7 DEF Writing, Resting
<1>9. /\ \A q \in Pids : q # p => line'[q] = line[q]
      /\ IF last = "wait" THEN line'[p] = line[p] ELSE line'[p] = NoLine
  BY <1>1, <1>2
<1>10. Lines'
  <2>1. SignalsArrive'
    BY <1>1, <1>6, <1>7 DEF FifosIInv, Relations, Lines, SignalsArrive, At
  <2>2. LinesAreOwn'
    <3>1. \A q \in Pids : q # p => step[q] \notin Piping /\ line[q] = NoLine
      BY <1>6 DEF FifosIInv, Relations, Lines, LinesAreOwn, Resting, Piping
    <3> QED
      BY <1>1, <1>4, <1>7, <1>9, <3>1 DEF LinesAreOwn, Piping
  <2>3. GoodbyeIsFree'
    BY <1>1, <1>7 DEF FifosIInv, Relations, Lines, GoodbyeIsFree
  <2> QED
    BY <2>1, <2>2, <2>3 DEF Lines
<1>11. Writers'
  BY <1>1, <1>8, NoWriters, NoWritersNext DEF FifosIInv, Relations, Writers, AloneAreMarked
<1>12. Records'
  <2>1. MarksAreHeld' /\ HeldOnce'
    BY <1>1 DEF FifosIInv, Relations, Records, MarksAreHeld, HeldOnce, Holds
  <2>2. OutsAreMarked'
    <3> SUFFICES ASSUME NEW c \in commands', c.out # NoPipe
                 PROVE  \/ fifo_check[c.out[1]][c.out[2]] # 0
                        \/ \E d \in commands' : d.in = c.out
      BY <1>1 DEF OutsAreMarked
    <3>1. c \in commands
      BY <1>5
    <3>2. \/ fifo_check[c.out[1]][c.out[2]] # 0
          \/ \E d \in commands : d.in = c.out
          \/ \E q \in Pids : step[q] \in {"add", "signal", "open"} /\ line[q].in = c.out
      BY <3>1 DEF FifosIInv, Relations, Records, OutsAreMarked
    <3>3. \A q \in Pids : step[q] \in {"add", "signal", "open"} => q = p
      BY <1>6 DEF Resting
    <3> QED
      BY <1>5, <3>2, <3>3
  <2> QED
    BY <2>1, <2>2 DEF Records
<1> QED
  BY <1>10, <1>11, <1>12 DEF Relations

LEMMA SignalIInv ==
    ASSUME FifosIInv, NEW p \in Pids, Signal(p)
    PROVE  /\ Relations'
           /\ \E q \in Pids : /\ id[q] = line[p].to /\ step[q] = "prompt" /\ q # p
                              /\ pending'[q] /\ step'[q] = "prompt"
<1>1. /\ step[p] = "signal" /\ step' = [step EXCEPT ![p] = "open"]
      /\ UNCHANGED <<id, taken, fifo_check, userpipe, line, cursor, opening, commands, lost, alone>>
  BY DEF Signal, Goes, At, Become, rest, memory
<1>2. /\ step \in [Pids -> FifoSteps] /\ pending \in [Pids -> BOOLEAN]
  BY InvTypes
<1>3. step[p] \in Writing
  BY <1>1 DEF Writing
<1>4. /\ line[p].to \in Table /\ line[p].to # id[p]
      /\ \A q \in Pids : q # p => step[q] \in Resting
      /\ ~pending[p] /\ cursor[p] = 0
  BY <1>3, WriterIsAlone
<1>5. PICK q \in Pids : id[q] = line[p].to /\ step[q] = "prompt" /\ pid[line[p].to] = q
  <2>1. line[p].to \in Slots /\ taken[line[p].to]
    BY <1>3, <1>4, SharedBounds DEF Table, Slots, FifosIInv, Relations, Writers, WritersWait
  <2>2. PICK q \in Online : id[q] = line[p].to
    BY <2>1 DEF FifosIInv, TableIInv, Owned, SlotsAreOwned
  <2>3. q \in Pids /\ step[q] = "prompt"
    BY <1>4, <2>2 DEF Online, InTable, Outside, Resting
  <2>4. pid[id[q]] = q
    BY <2>2, <2>3 DEF FifosIInv, TableIInv, Owned, PidsAreOwn, At
  <2> QED
    BY <2>2, <2>3, <2>4
<1>6. /\ pending'[q]
      /\ \A x \in Pids : pending'[x] => pending[x] \/ x = q
  <2>1. q # NoPid
    BY SharedBounds DEF Pids, NoPid
  <2> QED
    BY <1>5, <2>1 DEF Signal
<1>7. \A x \in Pids : step'[x] = IF x = p THEN "open" ELSE step[x]
  BY <1>1, <1>2
<1>8. \A x \in Pids : step'[x] \in Writing <=> step[x] \in Writing
  BY <1>1, <1>7 DEF Writing
<1>9. Lines'
  <2>1. SignalsArrive'
    BY <1>1, <1>4, <1>5, <1>6, <1>7 DEF FifosIInv, Relations, Lines, SignalsArrive, At
  <2>2. LinesAreOwn'
    BY <1>1, <1>7 DEF FifosIInv, Relations, Lines, LinesAreOwn, Piping, NobodyReads
  <2>3. GoodbyeIsFree'
    BY <1>1, <1>7 DEF FifosIInv, Relations, Lines, GoodbyeIsFree
  <2> QED
    BY <2>1, <2>2, <2>3 DEF Lines
<1>10. Writers'
  <2>1. WritersWait' /\ MarksHaveWriters' /\ OpeningsHaveWriters'
    BY <1>1, <1>8 DEF FifosIInv, Relations, Writers, WritersWait, MarksHaveWriters,
      OpeningsHaveWriters, Writer
  <2>2. WritersAreFresh' /\ AloneAreMarked'
    BY <1>1, <1>8 DEF FifosIInv, Relations, Writers, WritersAreFresh, AloneAreMarked
  <2> QED
    BY <2>1, <2>2 DEF Writers
<1>11. Records'
  <2>1. MarksAreHeld' /\ HeldOnce'
    BY <1>1 DEF FifosIInv, Relations, Records, MarksAreHeld, HeldOnce, Holds
  <2>2. OutsAreMarked'
    BY <1>1, <1>7 DEF FifosIInv, Relations, Records, OutsAreMarked
  <2> QED
    BY <2>1, <2>2 DEF Records
<1>12. q # p /\ step'[q] = "prompt"
  BY <1>1, <1>5, <1>7
<1> QED
  BY <1>5, <1>6, <1>9, <1>10, <1>11, <1>12 DEF Relations

LEMMA WaitedIInv ==
    ASSUME FifosIInv, NEW p \in Pids, Waited(p)
    PROVE  Relations'
<1>1. /\ step[p] = "wait" /\ step' = [step EXCEPT ![p] = "prompt"]
      /\ line' = [line EXCEPT ![p] = NoLine]
      /\ UNCHANGED <<id, taken, fifo_check, userpipe, pending, cursor, opening,
                     commands, lost, alone>>
  BY DEF Waited, Goes, At, Become, rest, memory
<1>2. /\ step \in [Pids -> FifoSteps] /\ line \in [Pids -> LineShapes]
  BY InvTypes
<1>3. step[p] \in Piping
  BY <1>1 DEF Piping
<1>4. /\ \A q \in Pids : q # p => step[q] \in Resting
      /\ ~pending[p] /\ cursor[p] = 0
  BY <1>3, PiperIsBusy
<1>5. \A q \in Pids : step'[q] = IF q = p THEN "prompt" ELSE step[q]
  BY <1>1, <1>2
<1>6. \A q \in Pids : line'[q] = IF q = p THEN NoLine ELSE line[q]
  BY <1>1, <1>2
<1>7. \A q \in Pids : step[q] \notin Writing /\ step'[q] \notin Writing
  BY <1>1, <1>4, <1>5 DEF Writing, Resting
<1>8. \A q \in Pids : step'[q] \notin Piping
  BY <1>4, <1>5 DEF Piping, Resting
<1>9. Lines'
  <2>1. SignalsArrive'
    BY <1>1, <1>4, <1>5 DEF FifosIInv, Relations, Lines, SignalsArrive, At
  <2>2. LinesAreOwn'
    BY <1>4, <1>5, <1>6, <1>8 DEF FifosIInv, Relations, Lines, LinesAreOwn, Piping, Resting
  <2>3. GoodbyeIsFree'
    BY <1>1, <1>5 DEF FifosIInv, Relations, Lines, GoodbyeIsFree
  <2> QED
    BY <2>1, <2>2, <2>3 DEF Lines
<1>10. Writers'
  BY <1>1, <1>7, NoWriters, NoWritersNext DEF FifosIInv, Relations, Writers, AloneAreMarked
<1>11. Records'
  <2>1. MarksAreHeld' /\ HeldOnce'
    BY <1>1 DEF FifosIInv, Relations, Records, MarksAreHeld, HeldOnce, Holds
  <2>2. OutsAreMarked'
    BY <1>1, <1>5, <1>6 DEF FifosIInv, Relations, Records, OutsAreMarked
  <2> QED
    BY <2>1, <2>2 DEF Records
<1> QED
  BY <1>9, <1>10, <1>11 DEF Relations

-----------------------------------------------------------------------------
(* What is held does not change: the mark of a pipe, its list, and who opens it *)
(* agree as before.                                                             *)
LEMMA HeldAsBefore ==
    ASSUME FifosIInv, UNCHANGED <<id, fifo_check, lost>>,
           \A q \in Pids, t \in Table : Holds(q, t)' <=> Holds(q, t)
    PROVE  MarksAreHeld'
<1>1. ASSUME NEW t \in Table, NEW u \in Table
      PROVE  fifo_check[t][u] = 1 <=> \/ <<t, u>> \in lost
                                      \/ \E q \in Pids : id[q] = u /\ Holds(q, t)'
  BY DEF FifosIInv, Relations, Records, MarksAreHeld
<1> QED
  BY <1>1 DEF MarksAreHeld

(* The writer's open returns: its line is over, and its command writes into the *)
(* pipe, which is marked or has a reader.                                       *)
LEMMA WriterOpensLines ==
    ASSUME FifosIInv, NEW p \in Pids, WriterOpens(p), UNCHANGED <<id, taken, fifo_check, pending>>,
           fifo_check[id[p]][line[p].to] # 0,
           \A q \in Pids : cursor'[q] # cursor[q] => step[q] = "prompt"
    PROVE  Lines' /\ OutsAreMarked' /\ \A q \in Pids : step'[q] \notin Writing
<1> DEFINE pipe == <<id[p], line[p].to>>
<1>1. /\ step[p] = "open" /\ step' = [step EXCEPT ![p] = "prompt"]
      /\ line' = [line EXCEPT ![p] = NoLine]
      /\ ForksCommand(p, pipe, 0)
  BY DEF WriterOpens, Goes, At, Become
<1>2. /\ step \in [Pids -> FifoSteps] /\ line \in [Pids -> LineShapes]
  BY InvTypes
<1>3. step[p] \in Piping
  BY <1>1 DEF Piping
<1>4. /\ \A q \in Pids : q # p => step[q] \in Resting
      /\ ~pending[p] /\ cursor[p] = 0
  BY <1>3, PiperIsBusy
<1>5. \A q \in Pids : step'[q] = IF q = p THEN "prompt" ELSE step[q]
  BY <1>1, <1>2
<1>6. \A q \in Pids : line'[q] = IF q = p THEN NoLine ELSE line[q]
  BY <1>1, <1>2
<1>7. \A q \in Pids : step'[q] \notin Piping /\ step'[q] \notin Writing
  BY <1>4, <1>5 DEF Piping, Writing, Resting
<1>8. /\ commands \subseteq commands'
      /\ \A c \in commands' : c \in commands \/ (c.in = line[p].in /\ c.out = pipe)
      /\ line[p].in # NoPipe => \E c \in commands' : c.in = line[p].in
  BY <1>1, Forked1
<1>9. Lines'
  <2>1. SignalsArrive'
    BY <1>1, <1>4, <1>5 DEF FifosIInv, Relations, Lines, SignalsArrive, At
  <2>2. LinesAreOwn'
    <3>1. \A q \in Pids : q # p => line[q] = NoLine
      BY <1>4 DEF FifosIInv, Relations, Lines, LinesAreOwn, Resting, Piping
    <3> QED
      BY <1>6, <1>7, <3>1 DEF LinesAreOwn
  <2>3. GoodbyeIsFree'
    BY <1>1, <1>5 DEF FifosIInv, Relations, Lines, GoodbyeIsFree
  <2> QED
    BY <2>1, <2>2, <2>3 DEF Lines
<1>10. OutsAreMarked'
  <2> SUFFICES ASSUME NEW c \in commands', c.out # NoPipe
               PROVE  \/ fifo_check[c.out[1]][c.out[2]] # 0
                      \/ \E d \in commands' : d.in = c.out
    BY DEF OutsAreMarked
  <2>1. CASE c \in commands
    <3>1. \/ fifo_check[c.out[1]][c.out[2]] # 0
          \/ \E d \in commands : d.in = c.out
          \/ \E q \in Pids : step[q] \in {"add", "signal", "open"} /\ line[q].in = c.out
      BY <2>1 DEF FifosIInv, Relations, Records, OutsAreMarked
    <3>2. \A q \in Pids : step[q] \in {"add", "signal", "open"} => q = p
      BY <1>4 DEF Resting
    <3> QED
      BY <1>8, <3>1, <3>2
  <2>2. CASE c.out = pipe
    BY <2>2
  <2> QED
    BY <1>8, <2>1, <2>2
<1> QED
  BY <1>7, <1>9, <1>10

(* The handler's open returns: the pipe goes to the list.                       *)
LEMMA ReaderOpensRecords ==
    ASSUME FifosIInv, NEW q \in Pids, opening[q] # 0, ReaderOpens(q),
           UNCHANGED <<id, fifo_check, lost>>
    PROVE  /\ MarksAreHeld' /\ HeldOnce'
           /\ opening'[q] = 0
           /\ \A x \in Pids : x # q => opening'[x] = opening[x] /\ userpipe'[x] = userpipe[x]
           /\ \A x \in Pids : cursor'[x] # cursor[x] => step[x] = "prompt"
           /\ \A t : Contains(userpipe'[q], t) <=> Contains(userpipe[q], t) \/ t = opening[q]
<1> DEFINE s == opening[q]
<1>1. /\ userpipe \in [Pids -> Seq(Table)] /\ cursor \in [Pids -> Table \cup {0}]
      /\ opening \in [Pids -> Table \cup {0}] /\ 0 \notin Table
  BY InvTypes
<1>2. s \in Table /\ step[q] = "prompt" /\ Holds(q, s)
  BY OpenersHold
<1>3. /\ NoRepeat(userpipe[q]) /\ ~Contains(userpipe[q], s)
  BY <1>2 DEF FifosIInv, Relations, Records, HeldOnce
<1>4. /\ NoRepeat(Append(userpipe[q], s))
      /\ \A t : Contains(Append(userpipe[q], s), t) <=> Contains(userpipe[q], t) \/ t = s
  BY <1>1, <1>2, <1>3, AppendList
<1>5. /\ userpipe'[q] = Append(userpipe[q], s) /\ opening'[q] = 0
      /\ \A x \in Pids : x # q => /\ opening'[x] = opening[x] /\ userpipe'[x] = userpipe[x]
                                  /\ cursor'[x] = cursor[x]
  BY <1>1 DEF ReaderOpens
<1>6. ASSUME NEW x \in Pids, NEW t \in Table PROVE Holds(x, t)' <=> Holds(x, t)
  <2>1. CASE x = q
    BY <1>1, <1>4, <1>5, <2>1 DEF Holds
  <2>2. CASE x # q
    BY <1>5, <2>2 DEF Holds
  <2> QED
    BY <2>1, <2>2
<1>7. MarksAreHeld'
  BY <1>6, HeldAsBefore
<1>8. HeldOnce'
  <2>1. \A x \in Pids : NoRepeat(userpipe'[x])
    BY <1>4, <1>5 DEF FifosIInv, Relations, Records, HeldOnce
  <2>2. ASSUME NEW x \in Pids, NEW t \in Table
        PROVE  /\ Holds(x, t)' => <<t, id[x]>> \notin lost
               /\ ~(Contains(userpipe'[x], t) /\ opening'[x] = t)
    <3>1. Holds(x, t)' => <<t, id[x]>> \notin lost
      BY <1>6 DEF FifosIInv, Relations, Records, HeldOnce
    <3>2. ~(Contains(userpipe'[x], t) /\ opening'[x] = t)
      BY <1>1, <1>5 DEF FifosIInv, Relations, Records, HeldOnce
    <3> QED
      BY <3>1, <3>2
  <2> QED
    BY <2>1, <2>2 DEF HeldOnce
<1> QED
  BY <1>2, <1>4, <1>5, <1>7, <1>8

(* The writer goes in alone, through an end that a command has inherited.       *)
LEMMA OpensAloneIInv ==
    ASSUME FifosIInv, NEW p \in Pids, OpensAlone(p)
    PROVE  Relations'
<1> DEFINE s == id[p]
           r == line[p].to
<1>1. /\ step[p] = "open" /\ WriterOpens(p)
      /\ \A q \in Pids : ~OpensFor(q, <<s, r>>)
      /\ alone' = alone \cup {<<s, r>>}
      /\ UNCHANGED <<id, taken, fifo_check, userpipe, pending, cursor, opening, lost>>
  BY DEF OpensAlone, At, rest, memory
<1>2. step[p] \in Writing
  BY <1>1 DEF Writing
<1>3. /\ s \in Table /\ r \in Table /\ 0 \notin Table
      /\ \A x \in Pids : step[x] \in Writing => x = p
  BY <1>2, WriterIsAlone, InvTypes
<1>4. fifo_check[s][r] = 2
  <2>1. \/ fifo_check[s][r] = 2 \/ \E q \in Pids : id[q] = r /\ opening[q] = s
    BY <1>2 DEF FifosIInv, Relations, Writers, WritersWait
  <2> QED
    BY <1>1, <1>3, <2>1 DEF OpensFor, SameFile
<1>5. Lines' /\ OutsAreMarked' /\ \A q \in Pids : step'[q] \notin Writing
  BY <1>1, <1>4, WriterOpensLines
<1>6. \A t, u : (\E x \in Pids : Writer(x, t, u)) => <<t, u>> = <<s, r>>
  BY <1>3 DEF Writer
<1>7. Writers'
  <2>1. \A t, u \in Table : fifo_check'[t][u] = 2 => <<t, u>> \in alone'
    BY <1>1, <1>6 DEF FifosIInv, Relations, Writers, MarksHaveWriters
  <2>2. \A q \in Pids : opening'[q] # 0 => <<opening'[q], id'[q]>> \in alone'
    BY <1>1, <1>6 DEF FifosIInv, Relations, Writers, OpeningsHaveWriters
  <2>3. \A t, u \in Table : <<t, u>> \in alone' =>
            fifo_check'[t][u] = 2 \/ \E q \in Pids : id'[q] = u /\ opening'[q] = t
    BY <1>1, <1>4 DEF FifosIInv, Relations, Writers, AloneAreMarked
  <2> QED
    BY <1>5, <2>1, <2>2, <2>3, NoWritersNext
<1>8. MarksAreHeld' /\ HeldOnce'
  BY <1>1 DEF FifosIInv, Relations, Records, MarksAreHeld, HeldOnce, Holds
<1> QED
  BY <1>5, <1>7, <1>8 DEF Relations, Records

(* A writer and a handler that are in open for the same pipe.                   *)
LEMMA OpenIInv ==
    ASSUME FifosIInv, NEW p \in Pids, NEW q \in Pids, Open(p, q)
    PROVE  Relations'
<1> DEFINE s == id[p]
           r == line[p].to
<1>1. /\ step[p] = "open" /\ WriterOpens(p) /\ ReaderOpens(q)
      /\ opening[q] # 0 /\ SameFile(<<opening[q], id[q]>>, <<s, r>>)
      /\ UNCHANGED <<id, taken, fifo_check, pending, lost, alone>>
  BY DEF Open, OpensFor, At, rest, memory
<1>2. step[p] \in Writing
  BY <1>1 DEF Writing
<1>3. /\ s \in Table /\ r \in Table /\ 0 \notin Table
      /\ \A x \in Pids : step[x] \in Writing => x = p
  BY <1>2, WriterIsAlone, InvTypes
<1>4. opening[q] \in Table /\ id[q] \in Table /\ fifo_check[opening[q]][id[q]] = 1
      /\ step[q] = "prompt"
  BY <1>1, OpenersHold
<1>5. opening[q] = s /\ id[q] = r
  <2>1. <<opening[q], id[q]>> = <<s, r>>
    BY <1>1, <1>3, <1>4, SameFileSamePipe DEF Pipes
  <2> QED
    BY <2>1
<1>6. fifo_check[s][r] = 1 /\ <<s, r>> \notin alone
  BY <1>2, <1>4, <1>5 DEF FifosIInv, Relations, Writers, WritersAreFresh
<1>7. /\ MarksAreHeld' /\ HeldOnce' /\ opening'[q] = 0
      /\ \A x \in Pids : x # q => opening'[x] = opening[x]
      /\ \A x \in Pids : cursor'[x] # cursor[x] => step[x] = "prompt"
  BY <1>1, ReaderOpensRecords
<1>8. Lines' /\ OutsAreMarked' /\ \A x \in Pids : step'[x] \notin Writing
  BY <1>1, <1>6, <1>7, WriterOpensLines
<1>9. \A t, u : (\E x \in Pids : Writer(x, t, u)) => <<t, u>> = <<s, r>>
  BY <1>3 DEF Writer
<1>10. \A x \in Pids : opening[x] = s /\ id[x] = r => x = q
  BY <1>3, <1>4, <1>5, OpenersHold, LiveIdsDiffer DEF Outside
<1>11. Writers'
  <2>1. \A t, u \in Table : fifo_check'[t][u] = 2 => <<t, u>> \in alone'
    BY <1>1, <1>6, <1>9 DEF FifosIInv, Relations, Writers, MarksHaveWriters
  <2>2. ASSUME NEW x \in Pids, opening'[x] # 0
        PROVE  <<opening'[x], id'[x]>> \in alone'
    <3>1. x # q /\ opening'[x] = opening[x]
      BY <1>7, <2>2
    <3>2. \/ <<opening[x], id[x]>> \in alone
          \/ <<opening[x], id[x]>> = <<s, r>>
      BY <1>9, <2>2, <3>1 DEF FifosIInv, Relations, Writers, OpeningsHaveWriters
    <3>3. <<opening[x], id[x]>> # <<s, r>>
      BY <1>10, <3>1
    <3> QED
      BY <1>1, <3>1, <3>2, <3>3
  <2>3. ASSUME NEW t \in Table, NEW u \in Table, <<t, u>> \in alone'
        PROVE  fifo_check'[t][u] = 2 \/ \E x \in Pids : id'[x] = u /\ opening'[x] = t
    <3>1. fifo_check[t][u] = 2 \/ \E x \in Pids : id[x] = u /\ opening[x] = t
      BY <1>1, <2>3 DEF FifosIInv, Relations, Writers, AloneAreMarked
    <3>2. ~(id[q] = u /\ opening[q] = t)
      BY <1>1, <1>5, <1>6, <2>3
    <3> QED
      BY <1>1, <1>7, <3>1, <3>2
  <2> QED
    BY <1>8, <2>1, <2>2, <2>3, NoWritersNext
<1> QED
  BY <1>7, <1>8, <1>11 DEF Relations, Records

LEMMA CommandEndsIInv ==
    ASSUME FifosIInv, NEW c \in commands, CommandEnds(c)
    PROVE  Relations'
<1>1. /\ commands' = commands \ {c}
      /\ \A d \in commands : c.in # NoPipe => d.out # c.in
      /\ UNCHANGED <<step, id, taken, fifo_check, userpipe, line, pending, cursor, opening,
                     lost, alone>>
  BY DEF CommandEnds, tableVars, memory
<1>2. Lines'
  <2>1. SignalsArrive' /\ GoodbyeIsFree'
    BY <1>1 DEF FifosIInv, Relations, Lines, SignalsArrive, GoodbyeIsFree, At
  <2>2. LinesAreOwn'
    BY <1>1 DEF FifosIInv, Relations, Lines, LinesAreOwn, NobodyReads
  <2> QED
    BY <2>1, <2>2 DEF Lines
<1>3. Writers'
  <2>1. WritersWait' /\ MarksHaveWriters' /\ OpeningsHaveWriters'
    BY <1>1 DEF FifosIInv, Relations, Writers, WritersWait, MarksHaveWriters,
      OpeningsHaveWriters, Writer
  <2>2. WritersAreFresh' /\ AloneAreMarked'
    BY <1>1 DEF FifosIInv, Relations, Writers, WritersAreFresh, AloneAreMarked
  <2> QED
    BY <2>1, <2>2 DEF Writers
<1>4. Records'
  <2>1. MarksAreHeld' /\ HeldOnce'
    BY <1>1 DEF FifosIInv, Relations, Records, MarksAreHeld, HeldOnce, Holds
  <2>2. OutsAreMarked'
    <3> SUFFICES ASSUME NEW d \in commands, d.out # NoPipe
                 PROVE  \/ fifo_check[d.out[1]][d.out[2]] # 0
                        \/ \E e \in commands' : e.in = d.out
                        \/ \E p \in Pids : step[p] \in {"add", "signal", "open"}
                                                /\ line[p].in = d.out
      BY <1>1 DEF OutsAreMarked
    <3>1. \/ fifo_check[d.out[1]][d.out[2]] # 0
          \/ \E e \in commands : e.in = d.out
          \/ \E p \in Pids : step[p] \in {"add", "signal", "open"} /\ line[p].in = d.out
      BY DEF FifosIInv, Relations, Records, OutsAreMarked
    <3>2. c.in # d.out
      BY <1>1
    <3> QED
      BY <1>1, <3>1, <3>2
  <2> QED
    BY <2>1, <2>2 DEF Records
<1> QED
  BY <1>2, <1>3, <1>4 DEF Relations

-----------------------------------------------------------------------------
(* The handler: it begins, or looks at a user who has not marked a pipe.        *)
LEMMA LooksIInv ==
    ASSUME FifosIInv, NEW p \in Pids, Enter(p) \/ Pass(p)
    PROVE  Relations'
<1>1. UNCHANGED <<step, id, taken, fifo_check, userpipe, line, opening, commands, lost, alone>>
  BY DEF Enter, Pass, tableVars, memory
<1>2. step[p] = "prompt"
  BY DEF Enter, Pass, Looks, FifosIInv, Relations, Lines, SignalsArrive, At
<1>3. \A q \in Pids : q # p => pending'[q] = pending[q] /\ cursor'[q] = cursor[q]
  <2>1. pending \in [Pids -> BOOLEAN] /\ cursor \in [Pids -> Table \cup {0}]
    BY InvTypes
  <2> QED
    BY <2>1 DEF Enter, Pass
<1>4. Lines'
  <2>1. SignalsArrive'
    BY <1>1, <1>2, <1>3 DEF FifosIInv, Relations, Lines, SignalsArrive, At
  <2>2. LinesAreOwn' /\ GoodbyeIsFree'
    BY <1>1 DEF FifosIInv, Relations, Lines, LinesAreOwn, NobodyReads, GoodbyeIsFree
  <2> QED
    BY <2>1, <2>2 DEF Lines
<1>5. Writers'
  <2>1. WritersWait' /\ MarksHaveWriters' /\ OpeningsHaveWriters'
    BY <1>1 DEF FifosIInv, Relations, Writers, WritersWait, MarksHaveWriters,
      OpeningsHaveWriters, Writer
  <2>2. WritersAreFresh' /\ AloneAreMarked'
    BY <1>1 DEF FifosIInv, Relations, Writers, WritersAreFresh, AloneAreMarked
  <2> QED
    BY <2>1, <2>2 DEF Writers
<1>6. Records'
  BY <1>1 DEF FifosIInv, Relations, Records, MarksAreHeld, HeldOnce, Holds, OutsAreMarked
<1> QED
  BY <1>4, <1>5, <1>6 DEF Relations

(* It takes over a mark: the pipe that the mark stood for is now being opened.  *)
LEMMA TakeOverIInv ==
    ASSUME FifosIInv, NEW p \in Pids, TakeOver(p)
    PROVE  Relations'
<1> DEFINE s == cursor[p]
           r == id[p]
<1>1. /\ s # 0 /\ opening[p] = 0 /\ fifo_check[s][r] = 2
      /\ fifo_check' = [fifo_check EXCEPT ![s][r] = 1]
      /\ opening' = [opening EXCEPT ![p] = s]
      /\ UNCHANGED <<step, id, taken, userpipe, line, pending, cursor, commands, lost, alone>>
  BY DEF TakeOver, Looks, Marked, tableVars, memory
<1>2. /\ fifo_check \in [Table -> [Table -> {0, 1, 2, Text}]]
      /\ opening \in [Pids -> Table \cup {0}] /\ s \in Table /\ 0 \notin Table
      /\ commands \subseteq CommandShapes
  BY <1>1, InvTypes
<1>3. r \in Table
  BY <1>1 DEF FifosIInv, Shape, PipersInTable
<1>4. \A t, u \in Table : fifo_check'[t][u] = IF t = s /\ u = r THEN 1
                                              ELSE fifo_check[t][u]
  BY <1>1, <1>2, <1>3
<1>5. \A q \in Pids : opening'[q] = IF q = p THEN s ELSE opening[q]
  BY <1>1, <1>2
<1>6. /\ <<s, r>> \notin lost
      /\ \A q \in Pids : id[q] = r => ~Holds(q, s)
  <2>1. fifo_check[s][r] # 1
    BY <1>1
  <2>2. MarksAreHeld
    BY DEF FifosIInv, Relations, Records
  <2> HIDE DEF s, r
  <2> QED
    BY <1>2, <1>3, <2>1, <2>2 DEF MarksAreHeld
<1>7. Lines'
  BY <1>1 DEF FifosIInv, Relations, Lines, SignalsArrive, LinesAreOwn, NobodyReads,
    GoodbyeIsFree, At
<1>8. \A q \in Pids, t \in Table : opening[q] = t => opening'[q] = t
  BY <1>1, <1>2, <1>5
<1>9. WritersWait'
  <2> SUFFICES ASSUME NEW w \in Pids, step[w] \in Writing
               PROVE  /\ taken[line[w].to]
                      /\ \/ fifo_check'[id[w]][line[w].to] = 2
                         \/ \E q \in Pids : id[q] = line[w].to /\ opening'[q] = id[w]
    BY <1>1 DEF WritersWait
  <2>1. id[w] \in Table /\ line[w].to \in Table
    BY WriterIsAlone
  <2>2. /\ taken[line[w].to]
        /\ \/ fifo_check[id[w]][line[w].to] = 2
           \/ \E q \in Pids : id[q] = line[w].to /\ opening[q] = id[w]
    BY DEF FifosIInv, Relations, Writers, WritersWait
  <2>3. CASE id[w] = s /\ line[w].to = r
    BY <1>5, <2>2, <2>3
  <2>4. CASE ~(id[w] = s /\ line[w].to = r)
    BY <1>4, <1>8, <2>1, <2>2, <2>4
  <2> QED
    BY <2>3, <2>4
<1>10. \A t, u \in Table : fifo_check'[t][u] = 2 => fifo_check[t][u] = 2
  BY <1>4
<1>11. MarksHaveWriters'
  BY <1>1, <1>10 DEF FifosIInv, Relations, Writers, MarksHaveWriters, Writer
<1>12. OpeningsHaveWriters'
  <2> SUFFICES ASSUME NEW q \in Pids, opening'[q] # 0
               PROVE  \/ <<opening'[q], id[q]>> \in alone
                      \/ \E w \in Pids : Writer(w, opening'[q], id[q])
    BY <1>1 DEF OpeningsHaveWriters, Writer
  <2>1. CASE q = p
    BY <1>1, <1>2, <1>3, <1>5, <2>1 DEF FifosIInv, Relations, Writers, MarksHaveWriters
  <2>2. CASE q # p
    BY <1>5, <2>2 DEF FifosIInv, Relations, Writers, OpeningsHaveWriters
  <2> QED
    BY <2>1, <2>2
<1>13. WritersAreFresh'
  BY <1>1 DEF FifosIInv, Relations, Writers, WritersAreFresh
<1>14. AloneAreMarked'
  <2> SUFFICES ASSUME NEW t \in Table, NEW u \in Table, <<t, u>> \in alone
               PROVE  fifo_check'[t][u] = 2 \/ \E q \in Pids : id[q] = u /\ opening'[q] = t
    BY <1>1 DEF AloneAreMarked
  <2>1. CASE t = s /\ u = r
    BY <1>5, <2>1
  <2>2. CASE ~(t = s /\ u = r)
    BY <1>4, <1>8, <2>2 DEF FifosIInv, Relations, Writers, AloneAreMarked
  <2> QED
    BY <2>1, <2>2
<1>15. ASSUME NEW q \in Pids, NEW t \in Table
       PROVE  Holds(q, t)' <=> Holds(q, t) \/ (q = p /\ t = s)
  BY <1>1, <1>2, <1>5 DEF Holds
<1>16. MarksAreHeld'
  <2> SUFFICES ASSUME NEW t \in Table, NEW u \in Table
               PROVE  fifo_check'[t][u] = 1 <=>
                          \/ <<t, u>> \in lost
                          \/ \E q \in Pids : id[q] = u /\ Holds(q, t)'
    BY <1>1 DEF MarksAreHeld
  <2>1. CASE t = s /\ u = r
    BY <1>4, <1>15, <2>1
  <2>2. CASE ~(t = s /\ u = r)
    <3>1. \A q \in Pids : id[q] = u => (Holds(q, t)' <=> Holds(q, t))
      BY <1>15, <2>2
    <3>2. fifo_check'[t][u] = fifo_check[t][u]
      BY <1>4, <2>2
    <3> QED
      BY <3>1, <3>2 DEF FifosIInv, Relations, Records, MarksAreHeld
  <2> QED
    BY <2>1, <2>2
<1>17. HeldOnce'
  <2>1. ASSUME NEW q \in Pids PROVE NoRepeat(userpipe[q])
    BY DEF FifosIInv, Relations, Records, HeldOnce
  <2>2. ASSUME NEW q \in Pids, NEW t \in Table
        PROVE  /\ Holds(q, t)' => <<t, id[q]>> \notin lost
               /\ ~(Contains(userpipe[q], t) /\ opening'[q] = t)
    <3>1. CASE q = p /\ t = s
      BY <1>6, <3>1 DEF Holds
    <3>2. CASE ~(q = p /\ t = s)
      <4>1. Holds(q, t)' => <<t, id[q]>> \notin lost
        BY <1>15, <3>2 DEF FifosIInv, Relations, Records, HeldOnce
      <4>2. ~(Contains(userpipe[q], t) /\ opening'[q] = t)
        BY <1>5, <3>2 DEF FifosIInv, Relations, Records, HeldOnce
      <4> QED
        BY <4>1, <4>2
    <3> QED
      BY <3>1, <3>2
  <2> QED
    BY <1>1, <2>1, <2>2 DEF HeldOnce
<1>18. OutsAreMarked'
  <2> SUFFICES ASSUME NEW c \in commands, c.out # NoPipe
               PROVE  \/ fifo_check'[c.out[1]][c.out[2]] # 0
                      \/ \E d \in commands : d.in = c.out
                      \/ \E q \in Pids : step[q] \in {"add", "signal", "open"}
                                              /\ line[q].in = c.out
    BY <1>1 DEF OutsAreMarked
  <2>1. PICK t \in Table, u \in Table : c.out = <<t, u>>
    BY <1>2 DEF CommandShapes, Sides, Pipes
  <2>2. fifo_check[t][u] # 0 => fifo_check'[t][u] # 0
    BY <1>4
  <2>3. c.out[1] = t /\ c.out[2] = u
    BY <2>1
  <2> QED
    BY <2>2, <2>3 DEF FifosIInv, Relations, Records, OutsAreMarked
<1> QED
  BY <1>7, <1>9, <1>11, <1>12, <1>13, <1>14, <1>16, <1>17, <1>18
  DEF Relations, Writers, Records

(* Its open returns without a writer in open: the command of one who went in    *)
(* alone is still there.                                                        *)
LEMMA HandlerOpensIInv ==
    ASSUME FifosIInv, NEW q \in Pids, HandlerOpens(q)
    PROVE  Relations'
<1> DEFINE s == opening[q]
           r == id[q]
<1>1. /\ s # 0 /\ HasWriter(<<s, r>>) /\ ReaderOpens(q)
      /\ alone' = alone \ {<<s, r>>}
      /\ UNCHANGED <<step, id, taken, fifo_check, line, pending, commands, lost>>
  BY DEF HandlerOpens, tableVars, memory
<1>2. /\ s \in Table /\ r \in Table /\ step[q] = "prompt" /\ fifo_check[s][r] = 1
      /\ 0 \notin Table /\ commands \subseteq CommandShapes
  BY <1>1, OpenersHold, InvTypes
<1>3. PICK c \in commands : c.out = <<s, r>>
  <2>1. PICK c \in commands : c.out # NoPipe /\ SameFile(c.out, <<s, r>>)
    BY <1>1 DEF HasWriter
  <2>2. c.out \in Pipes /\ <<s, r>> \in Pipes
    BY <1>2, <2>1 DEF CommandShapes, Sides, Pipes
  <2> QED
    BY <2>1, <2>2, SameFileSamePipe
<1>4. ASSUME NEW w \in Pids, step[w] \in Writing PROVE <<id[w], line[w].to>> # <<s, r>>
  BY <1>3, <1>4 DEF FifosIInv, Relations, Writers, WritersAreFresh
<1>5. /\ MarksAreHeld' /\ HeldOnce' /\ opening'[q] = 0
      /\ \A x \in Pids : x # q => opening'[x] = opening[x] /\ userpipe'[x] = userpipe[x]
      /\ \A x \in Pids : cursor'[x] # cursor[x] => step[x] = "prompt"
      /\ \A t : Contains(userpipe'[q], t) <=> Contains(userpipe[q], t) \/ t = s
  BY <1>1, ReaderOpensRecords
<1>6. \A x \in Pids : opening[x] = s /\ id[x] = r => x = q
  BY <1>2, OpenersHold, LiveIdsDiffer DEF Outside
<1>7. Lines'
  <2>1. SignalsArrive'
    BY <1>1, <1>5 DEF FifosIInv, Relations, Lines, SignalsArrive, At
  <2>2. LinesAreOwn' /\ GoodbyeIsFree'
    BY <1>1 DEF FifosIInv, Relations, Lines, LinesAreOwn, NobodyReads, GoodbyeIsFree
  <2> QED
    BY <2>1, <2>2 DEF Lines
<1>8. WritersWait'
  <2> SUFFICES ASSUME NEW w \in Pids, step[w] \in Writing
               PROVE  /\ taken[line[w].to]
                      /\ \/ fifo_check[id[w]][line[w].to] = 2
                         \/ \E x \in Pids : id[x] = line[w].to /\ opening'[x] = id[w]
    BY <1>1 DEF WritersWait
  <2>1. /\ taken[line[w].to]
        /\ \/ fifo_check[id[w]][line[w].to] = 2
           \/ \E x \in Pids : id[x] = line[w].to /\ opening[x] = id[w]
    BY DEF FifosIInv, Relations, Writers, WritersWait
  <2>2. ~(id[q] = line[w].to /\ opening[q] = id[w])
    BY <1>4
  <2> QED
    BY <1>5, <2>1, <2>2
<1>9. MarksHaveWriters'
  <2> SUFFICES ASSUME NEW t \in Table, NEW u \in Table, fifo_check[t][u] = 2
               PROVE  <<t, u>> \in alone' \/ \E w \in Pids : Writer(w, t, u)
    BY <1>1 DEF MarksHaveWriters, Writer
  <2>1. <<t, u>> # <<s, r>>
    BY <1>2
  <2> QED
    BY <1>1, <2>1 DEF FifosIInv, Relations, Writers, MarksHaveWriters
<1>10. OpeningsHaveWriters'
  <2> SUFFICES ASSUME NEW x \in Pids, opening'[x] # 0
               PROVE  \/ <<opening'[x], id[x]>> \in alone'
                      \/ \E w \in Pids : Writer(w, opening'[x], id[x])
    BY <1>1 DEF OpeningsHaveWriters, Writer
  <2>1. x # q /\ opening'[x] = opening[x]
    BY <1>5
  <2>2. <<opening[x], id[x]>> # <<s, r>>
    BY <1>6, <2>1
  <2>3. \/ <<opening[x], id[x]>> \in alone
        \/ \E w \in Pids : Writer(w, opening[x], id[x])
    BY <2>1 DEF FifosIInv, Relations, Writers, OpeningsHaveWriters
  <2> QED
    BY <1>1, <2>1, <2>2, <2>3
<1>11. WritersAreFresh'
  <2> SUFFICES ASSUME NEW w \in Pids, step[w] \in Writing
               PROVE  /\ <<id[w], line[w].to>> \notin alone'
                      /\ \A d \in commands : d.out # <<id[w], line[w].to>>
                      /\ \A x \in Pids : id[x] = line[w].to => ~Contains(userpipe'[x], id[w])
    BY <1>1 DEF WritersAreFresh
  <2>1. /\ <<id[w], line[w].to>> \notin alone
        /\ \A d \in commands : d.out # <<id[w], line[w].to>>
        /\ \A x \in Pids : id[x] = line[w].to => ~Contains(userpipe[x], id[w])
    BY DEF FifosIInv, Relations, Writers, WritersAreFresh
  <2>2. ASSUME NEW x \in Pids, id[x] = line[w].to PROVE ~Contains(userpipe'[x], id[w])
    <3>1. CASE x = q
      BY <1>4, <1>5, <2>1, <2>2, <3>1
    <3>2. CASE x # q
      BY <1>5, <2>1, <2>2, <3>2
    <3> QED
      BY <3>1, <3>2
  <2> QED
    BY <1>1, <2>1, <2>2
<1>12. AloneAreMarked'
  <2> SUFFICES ASSUME NEW t \in Table, NEW u \in Table, <<t, u>> \in alone'
               PROVE  fifo_check[t][u] = 2 \/ \E x \in Pids : id[x] = u /\ opening'[x] = t
    BY <1>1 DEF AloneAreMarked
  <2>1. <<t, u>> \in alone /\ <<t, u>> # <<s, r>>
    BY <1>1
  <2>2. fifo_check[t][u] = 2 \/ \E x \in Pids : id[x] = u /\ opening[x] = t
    BY <2>1 DEF FifosIInv, Relations, Writers, AloneAreMarked
  <2>3. ~(id[q] = u /\ opening[q] = t)
    BY <2>1
  <2> QED
    BY <1>5, <2>2, <2>3
<1>13. OutsAreMarked'
  BY <1>1 DEF FifosIInv, Relations, Records, OutsAreMarked
<1> QED
  BY <1>5, <1>7, <1>8, <1>9, <1>10, <1>11, <1>12, <1>13
  DEF Relations, Writers, Records

-----------------------------------------------------------------------------
(* The end of a process: what it holds is lost, and its marks stay.             *)
LEMMA ExitIInv ==
    ASSUME FifosIInv, NEW p \in Pids, Exit(p)
    PROVE  Relations'
<1> DEFINE r == id[p]
<1>1. /\ step[p] = "goodbye" /\ step' = [step EXCEPT ![p] = "gone"]
      /\ id' = [id EXCEPT ![p] = 0]
      /\ userpipe' = [userpipe EXCEPT ![p] = <<>>]
      /\ pending' = [pending EXCEPT ![p] = FALSE]
      /\ lost' = lost \cup {<<s, r>> : s \in ToSet(userpipe[p])}
      /\ UNCHANGED <<taken, fifo_check, line, cursor, opening, commands, alone>>
  BY DEF Exit, Ends, At, Become
<1>2. /\ step \in [Pids -> FifoSteps] /\ userpipe \in [Pids -> Seq(Table)]
      /\ pending \in [Pids -> BOOLEAN] /\ id \in [Pids -> 0..(MaxUsers + 1)]
      /\ 0 \notin Table
  BY InvTypes
<1>3. /\ \A x \in Pids : x # p => step[x] \in Resting
      /\ opening[p] = 0 /\ cursor[p] = 0 /\ step[p] \notin Outside
  BY <1>1, PiperIsBusy
<1>4. \A x \in Pids : /\ step'[x] = IF x = p THEN "gone" ELSE step[x]
                      /\ id'[x] = IF x = p THEN 0 ELSE id[x]
                      /\ userpipe'[x] = IF x = p THEN <<>> ELSE userpipe[x]
                      /\ pending'[x] = IF x = p THEN FALSE ELSE pending[x]
  BY <1>1, <1>2
<1>5. \A x \in Pids : /\ step[x] \notin Piping /\ step'[x] \notin Piping
                      /\ step[x] \notin Writing /\ step'[x] \notin Writing
                      /\ step'[x] # "goodbye"
  <2>1. \A x \in Pids : step[x] \in Resting \cup {"goodbye"} /\ step'[x] \in Resting
    BY <1>1, <1>3, <1>4 DEF Resting
  <2> QED
    BY <2>1 DEF Piping, Writing, Resting
<1>6. Lines'
  <2>1. SignalsArrive'
    BY <1>1, <1>3, <1>4 DEF FifosIInv, Relations, Lines, SignalsArrive, At
  <2>2. LinesAreOwn'
    BY <1>1, <1>5 DEF FifosIInv, Relations, Lines, LinesAreOwn
  <2>3. GoodbyeIsFree'
    BY <1>5 DEF GoodbyeIsFree
  <2> QED
    BY <2>1, <2>2, <2>3 DEF Lines
<1>7. Writers'
  <2>1. \A t, u \in Table : fifo_check'[t][u] = 2 => <<t, u>> \in alone'
    BY <1>1, <1>5, NoWriters
  <2>2. \A x \in Pids : opening'[x] # 0 => <<opening'[x], id'[x]>> \in alone'
    BY <1>1, <1>3, <1>4, <1>5, NoWriters
  <2>3. ASSUME NEW t \in Table, NEW u \in Table, <<t, u>> \in alone'
        PROVE  fifo_check'[t][u] = 2 \/ \E x \in Pids : id'[x] = u /\ opening'[x] = t
    <3>1. fifo_check[t][u] = 2 \/ \E x \in Pids : id[x] = u /\ opening[x] = t
      BY <1>1, <2>3 DEF FifosIInv, Relations, Writers, AloneAreMarked
    <3>2. opening[p] # t
      BY <1>2, <1>3
    <3> QED
      BY <1>1, <1>4, <3>1, <3>2
  <2> QED
    BY <1>5, <2>1, <2>2, <2>3, NoWritersNext
<1>8. ASSUME NEW t \in Table, NEW u
      PROVE  <<t, u>> \in lost' <=> <<t, u>> \in lost \/ (u = r /\ Contains(userpipe[p], t))
  <2>1. t \in ToSet(userpipe[p]) <=> Contains(userpipe[p], t)
    BY ListedInTable DEF FifosIInv
  <2> QED
    BY <1>1, <2>1
<1>9. ASSUME NEW t \in Table PROVE ~Holds(p, t)' /\ (Holds(p, t) <=> Contains(userpipe[p], t))
  BY <1>1, <1>2, <1>3, <1>4, EmptyList DEF Holds
<1>10. ASSUME NEW x \in Pids, x # p, NEW t \in Table PROVE Holds(x, t)' <=> Holds(x, t)
  BY <1>1, <1>4, <1>10 DEF Holds
<1>11. MarksAreHeld'
  <2> SUFFICES ASSUME NEW t \in Table, NEW u \in Table
               PROVE  fifo_check[t][u] = 1 <=>
                          \/ <<t, u>> \in lost'
                          \/ \E x \in Pids : id'[x] = u /\ Holds(x, t)'
    BY <1>1 DEF MarksAreHeld
  <2>1. fifo_check[t][u] = 1 <=>
            <<t, u>> \in lost \/ \E x \in Pids : id[x] = u /\ Holds(x, t)
    BY DEF FifosIInv, Relations, Records, MarksAreHeld
  <2>2. (\E x \in Pids : id'[x] = u /\ Holds(x, t)')
            <=> \E x \in Pids : x # p /\ id[x] = u /\ Holds(x, t)
    BY <1>4, <1>9, <1>10
  <2> QED
    BY <1>8, <1>9, <2>1, <2>2
<1>12. HeldOnce'
  <2>1. \A x \in Pids : NoRepeat(userpipe'[x])
    <3>1. NoRepeat(<<>>)
      BY DEF NoRepeat
    <3> QED
      BY <1>4, <3>1 DEF FifosIInv, Relations, Records, HeldOnce
  <2>2. ASSUME NEW x \in Pids, NEW t \in Table
        PROVE  /\ Holds(x, t)' => <<t, id'[x]>> \notin lost'
               /\ ~(Contains(userpipe'[x], t) /\ opening[x] = t)
    <3>1. CASE x = p
      BY <1>4, <1>9, <3>1, EmptyList
    <3>2. CASE x # p
      <4>1. ASSUME Holds(x, t) PROVE <<t, id[x]>> \notin lost'
        <5>1. <<t, id[x]>> \notin lost
          BY <4>1 DEF FifosIInv, Relations, Records, HeldOnce
        <5>2. id[x] # r
          BY <1>3, <3>2, <4>1, HoldersDiffer
        <5> QED
          BY <1>8, <5>1, <5>2
      <4>2. ~(Contains(userpipe[x], t) /\ opening[x] = t)
        BY DEF FifosIInv, Relations, Records, HeldOnce
      <4> QED
        BY <1>4, <1>10, <3>2, <4>1, <4>2
    <3> QED
      BY <3>1, <3>2
  <2> QED
    BY <1>1, <2>1, <2>2 DEF HeldOnce
<1>13. OutsAreMarked'
  <2>1. \A x \in Pids : step[x] \notin {"add", "signal", "open"}
    BY <1>5 DEF Piping
  <2> QED
    BY <1>1, <2>1 DEF FifosIInv, Relations, Records, OutsAreMarked
<1> QED
  BY <1>6, <1>7, <1>11, <1>12, <1>13 DEF Relations, Records

(* A server that starts, or starts again, has no pipes.                         *)
Fresh ==
    /\ step \in [Pids -> {"none", "gone"}]
    /\ fifo_check = [s \in Table |-> [r \in Table |-> 0]]
    /\ userpipe = [p \in Pids |-> <<>>]
    /\ line = [p \in Pids |-> NoLine]
    /\ pending = [p \in Pids |-> FALSE]
    /\ cursor = [p \in Pids |-> 0]
    /\ opening = [p \in Pids |-> 0]
    /\ commands = {} /\ lost = {} /\ alone = {}

LEMMA FreshRelations == Fresh => Relations
<1> SUFFICES ASSUME Fresh PROVE Relations
  OBVIOUS
<1> USE DEF Fresh
<1>1. Lines
  BY DEF Lines, SignalsArrive, LinesAreOwn, GoodbyeIsFree, Piping
<1>2. Writers
  <2>1. \A p \in Pids : step[p] \notin Writing
    BY DEF Writing
  <2>2. \A s, r \in Table : fifo_check[s][r] # 2
    OBVIOUS
  <2> QED
    BY <2>1, <2>2 DEF Writers, WritersWait, MarksHaveWriters, OpeningsHaveWriters,
      WritersAreFresh, AloneAreMarked
<1>3. Records
  <2>1. 0 \notin Table
    BY SharedBounds DEF Table
  <2>2. \A q \in Pids, s \in Table : ~Contains(userpipe[q], s) /\ opening[q] # s
    BY <2>1, EmptyList
  <2>3. \A q \in Pids : NoRepeat(userpipe[q])
    BY DEF NoRepeat
  <2>4. \A s, r \in Table : fifo_check[s][r] = 0
    OBVIOUS
  <2> QED
    BY <2>2, <2>3, <2>4 DEF Records, MarksAreHeld, HeldOnce, OutsAreMarked, Holds
<1> QED
  BY <1>1, <1>2, <1>3 DEF Relations

LEMMA RestartRelations == ServerRestart => Relations'
<1>1. ServerRestart => Fresh'
  BY DEF Fresh, ServerRestart, Restart
<1> QED
  BY <1>1, FreshRelations, PTL

-----------------------------------------------------------------------------
LEMMA NextRelations == FifosIInv /\ calm' /\ [FifosNext]_vars => Relations'
<1> SUFFICES ASSUME FifosIInv, calm', [FifosNext]_vars PROVE Relations'
  OBVIOUS
<1>1. CASE (Parent \/ Connect \/ UNCHANGED tableVars) /\ UNCHANGED fifos
  BY <1>1, ParentFifosIInv
<1>2. ASSUME NEW p \in Pids, Process(p) PROVE Relations'
  <2>1. CASE TableStep(p)
    BY <2>1, TableStepIInv
  <2>2. CASE Exit(p)
    BY <2>2, ExitIInv
  <2>3. CASE get_userpipe(p)
    BY <2>3, GetTakesIInv, GetNothingIInv DEF get_userpipe
  <2>4. CASE add_userpipe(p)
    BY <2>4, AddAcceptedIInv, AddRefusedIInv
  <2>5. CASE Signal(p)
    BY <2>5, SignalIInv
  <2>6. CASE Waited(p)
    BY <2>6, WaitedIInv
  <2>7. CASE OpensAlone(p)
    BY <2>7, OpensAloneIInv
  <2>8. ASSUME NEW q \in Pids, Open(p, q) PROVE Relations'
    BY <2>8, OpenIInv
  <2> QED
    BY <1>2, <2>1, <2>2, <2>3, <2>4, <2>5, <2>6, <2>7, <2>8 DEF Process
<1>3. ASSUME NEW p \in Pids, handler_sig(p) PROVE Relations'
  BY <1>3, LooksIInv, TakeOverIInv, HandlerOpensIInv DEF handler_sig
<1>4. CASE ServerRestart
  BY <1>4, RestartRelations
<1>5. ASSUME NEW c \in commands, CommandEnds(c) PROVE Relations'
  BY <1>5, CommandEndsIInv
<1>6. ASSUME NEW p \in Pids, Leaves(p) \/ Renames(p) PROVE Relations'
  BY <1>6, TableStepIInv
<1>7. ASSUME NEW p \in Pids, NEW from \in Table \cup {0}, NEW to \in Table \cup {0},
             Type(p, from, to)
      PROVE  Relations'
  BY <1>7, TypeIInv
<1>8. CASE UNCHANGED vars
  BY <1>1, <1>8 DEF vars
<1> QED
  BY <1>1, <1>2, <1>3, <1>4, <1>5, <1>6, <1>7, <1>8 DEF FifosNext, Runs

LEMMA InitFifos == FifosInit => Shape /\ FifosIInv
<1> SUFFICES ASSUME FifosInit PROVE Shape /\ FifosIInv
  OBVIOUS
<1>1. Fresh
  BY DEF FifosInit, TableInit, Fresh
<1>2. TableIInv
  BY InitTableIInv DEF FifosInit
<1>3. FifosTypeOK
  <2>1. step \in [Pids -> FifoSteps]
    BY <1>1 DEF Fresh, FifoSteps, TableSteps
  <2>2. /\ fifo_check \in [Table -> [Table -> {0, 1, 2, Text}]]
        /\ \A s, r \in Table : fifo_check[s][r] # Text
    BY <1>1 DEF Fresh, Text
  <2>3. userpipe \in [Pids -> Seq(Table)]
    <3>1. <<>> \in Seq(Table)
      OBVIOUS
    <3> QED
      BY <1>1, <3>1 DEF Fresh
  <2>4. line \in [Pids -> [from : Table \cup {0}, to : Table \cup {0},
                           in : Pipes \cup {NoPipe}]]
    BY <1>1 DEF Fresh, NoLine
  <2>5. /\ pending \in [Pids -> BOOLEAN] /\ cursor \in [Pids -> Table \cup {0}]
        /\ opening \in [Pids -> Table \cup {0}]
        /\ \A p \in Pids : opening[p] \in {0, cursor[p]}
        /\ commands = {} /\ lost = {} /\ alone = {}
    BY <1>1 DEF Fresh
  <2> QED
    BY <1>2, <2>1, <2>2, <2>3, <2>4, <2>5 DEF FifosTypeOK, TableIInv
<1>4. Shape
  BY <1>1, <1>3 DEF Fresh, Shape, OutsideIsEmpty, PipersInTable, WritersName, Piping,
    Writing
<1> QED
  BY <1>1, <1>2, <1>4, FreshRelations DEF FifosIInv

(* Shapes always, and in calm the invariant of marks, lists, lines and          *)
(* commands: for any number of users, processes and restarts, whichever pipes   *)
(* they try and whatever their commands inherit.                                *)
THEOREM FifosInductiveInvariant == FifosSpec => [](Shape /\ (calm => FifosIInv))
<1>1. ASSUME Shape, calm => FifosIInv, [FifosNext]_vars
      PROVE  (Shape /\ (calm => FifosIInv))'
  <2>1. Shape'
    BY <1>1, NextShape
  <2>2. ASSUME calm' PROVE FifosIInv'
    <3>1. FifosIInv
      BY <1>1, <2>2, FifosCalmWasCalm
    <3>2. TableIInv'
      BY <1>1, <2>2, <3>1, NextFifosIInv DEF FifosIInv
    <3>3. Relations'
      BY <1>1, <2>2, <3>1, NextRelations
    <3> QED
      BY <2>1, <3>2, <3>3 DEF FifosIInv
  <2> QED
    BY <2>1, <2>2
<1> QED
  BY <1>1, InitFifos, PTL DEF FifosSpec

(* With the pipes there is still at most one user too many in calm, and that    *)
(* one has not announced himself.                                               *)
THEOREM AtMostOneIsTooMany == FifosSpec => []AtMostOneTooMany
<1>1. (calm => FifosIInv) => AtMostOneTooMany
  BY TableIInvSuffices DEF FifosIInv, AtMostOneTooMany
<1> QED
  BY <1>1, FifosInductiveInvariant, PTL

(* And ids, slots, pids and names agree with the processes.                     *)
THEOREM TableAndProcessesAgree == FifosSpec => []TableAgrees
<1>1. (calm => FifosIInv) => TableAgrees
  BY TableIInvSuffices DEF FifosIInv, TableAgrees
<1> QED
  BY <1>1, FifosInductiveInvariant, PTL

(* Shapes; every handler waits in open for the user that it looks at; no mark   *)
(* is overwritten in calm.                                                      *)
THEOREM FifosTypeCorrect == FifosSpec => []FifosTypeOK
<1>1. Shape => FifosTypeOK
  BY DEF Shape
<1> QED
  BY <1>1, FifosInductiveInvariant, PTL

(* In calm the mark in the shared memory and the list in the memory of the      *)
(* reader agree at every moment between signal, handler and open, but for       *)
(* readers who left.                                                            *)
THEOREM MarksAndListsAgree == FifosSpec => []RecordsAgree
<1>1. ASSUME FifosIInv PROVE RecordsAgree
  <2> SUFFICES ASSUME NEW s \in Table, NEW r \in Table
               PROVE  /\ fifo_check[s][r] = 1 <=>
                            \/ <<s, r>> \in lost
                            \/ \E q \in Pids : id[q] = r /\ step[q] # "gone"
                                    /\ (Contains(userpipe[q], s) \/ opening[q] = s)
                      /\ \A q \in Pids : NoRepeat(userpipe[q])
    BY DEF RecordsAgree, NoRepeat
  <2>1. \A q \in Pids : Holds(q, s) => step[q] # "gone"
    BY <1>1, HoldersLive DEF Outside
  <2> QED
    BY <1>1, <2>1 DEF FifosIInv, Relations, Records, MarksAreHeld, HeldOnce, Holds
<1>2. (calm => FifosIInv) => RecordsAgree
  BY <1>1 DEF RecordsAgree
<1> QED
  BY <1>2, FifosInductiveInvariant, PTL

(* In calm a writer opens a FIFO that nobody writes, reads or has on a list     *)
(* from an earlier pipe of the same two ids: what a command still writes keeps  *)
(* the mark, or its reader keeps turns.  Ends that are inherited are all that   *)
(* can be left of it.                                                           *)
THEOREM OpensFreshFifos == FifosSpec => []FifoIsFresh
<1>1. ASSUME FifosIInv, NEW p \in Pids, step[p] = "open"
      PROVE  /\ \A c \in commands : <<id[p], line[p].to>> \notin {c.in, c.out}
             /\ \A q \in Pids : id[q] = line[p].to => ~Contains(userpipe[q], id[p])
  <2>1. \A c \in commands : c.in = NoPipe
    BY <1>1 DEF FifosIInv, Relations, Lines, LinesAreOwn, Piping, NobodyReads
  <2>2. \A c \in commands : c.in # <<id[p], line[p].to>>
    BY <2>1, PipeIsAPair
  <2> QED
    BY <1>1, <2>2 DEF FifosIInv, Relations, Writers, WritersAreFresh, Writing
<1>2. (calm => FifosIInv) => FifoIsFresh
  BY <1>1 DEF FifoIsFresh
<1> QED
  BY <1>2, FifosInductiveInvariant, PTL

-----------------------------------------------------------------------------
(* A mark that is set will be seen: its reader is at the prompt and has the     *)
(* signal pending, also while its handler runs; or the handler has not gone     *)
(* past the mark; or the signal is still to be sent.                            *)
Seen(s, r) ==
    \E q \in Pids :
        /\ id[q] = r /\ step[q] = "prompt"
        /\ \/ pending[q]
           \/ cursor[q] \in 1..s
           \/ \E w \in Pids : Writer(w, s, r) /\ step[w] = "signal"
MarkIsSeen == calm => \A s, r \in Table : fifo_check[s][r] = 2 => Seen(s, r)

(* Who opens, or one of those it deals with, has a step of its own to take: the *)
(* writer and the reader of a pipe deal with each other, and a reader's handler *)
(* may be in open for a pipe of another.                                        *)
CanGoOn(q) ==
    \/ Goes(q, "signal")
    \/ pending[q] /\ cursor[q] = 0 /\ At(q, "prompt")
    \/ Looks(q)
    \/ opening[q] # 0 /\ HasWriter(<<opening[q], id[q]>>)
    \/ Goes(q, "open") /\ LET pipe == <<id[q], line[q].to>>
                          IN  HasReader(pipe) \/ \E x \in Pids : OpensFor(x, pipe)
Partners(p) ==
    {q \in Pids : \/ q = p
                  \/ At(p, "open") /\ id[q] = line[p].to
                  \/ opening[p] # 0 /\ Writer(q, opening[p], id[p])}
OpenersGoOn ==
    calm => \A p \in Pids : Opens(p) => WaitsInVain(p) \/ \E q \in Partners(p) : CanGoOn(q)

NewcomersGoOn ==
    calm /\ waiting /\ ~Full =>
        \/ main = "check" /\ n < MaxUsers
        \/ main = "accept" /\ \E p \in Pids : step[p] = "none"
        \/ \E p \in Pids : step[p] = "goodbye" /\ cursor[p] = 0

(* A step that moves no process but x, which is not about to send a signal, nor *)
(* at a prompt while a signal is on the way.                                    *)
MovesOnly(x) ==
    /\ \A q \in Pids : q # x =>
        /\ step'[q] = step[q] /\ id'[q] = id[q] /\ line'[q] = line[q]
        /\ pending'[q] = pending[q] /\ cursor'[q] = cursor[q]
    /\ x \in Pids => step[x] # "signal"
    /\ x \in Pids /\ step[x] = "prompt" =>
        ~pending[x] /\ cursor[x] = 0 /\ \A w \in Pids : step[w] # "signal"

LEMMA SeenStays ==
    ASSUME NEW x, MovesOnly(x), NEW s \in Table, NEW r \in Table, Seen(s, r)
    PROVE  Seen(s, r)'
<1>1. PICK q \in Pids :
        /\ id[q] = r /\ step[q] = "prompt"
        /\ \/ pending[q]
           \/ cursor[q] \in 1..s
           \/ \E w \in Pids : Writer(w, s, r) /\ step[w] = "signal"
  BY DEF Seen
<1>2. q # x
  <2>1. 0 \notin 1..s
    BY SharedBounds DEF Table
  <2> QED
    BY <1>1, <2>1 DEF MovesOnly
<1>3. ASSUME NEW w \in Pids, Writer(w, s, r), step[w] = "signal"
      PROVE  Writer(w, s, r)' /\ step'[w] = "signal"
  BY <1>3 DEF MovesOnly, Writer
<1>4. /\ id'[q] = r /\ step'[q] = "prompt"
      /\ pending'[q] = pending[q] /\ cursor'[q] = cursor[q]
  BY <1>1, <1>2 DEF MovesOnly
<1> QED
  BY <1>1, <1>3, <1>4 DEF Seen

LEMMA LineMovesOnly ==
    ASSUME FifosIInv, calm', NEW x \in Pids,
           \/ TableStep(x) \/ Exit(x) \/ get_userpipe(x) \/ add_userpipe(x) \/ Waited(x)
           \/ OpensAlone(x) \/ Leaves(x) \/ Renames(x)
           \/ \E from, to \in Table \cup {0} : Type(x, from, to)
    PROVE  MovesOnly(x)
<1>1. /\ step \in [Pids -> FifoSteps] /\ id \in [Pids -> 0..(MaxUsers + 1)]
      /\ line \in [Pids -> LineShapes] /\ pending \in [Pids -> BOOLEAN]
  BY InvTypes
<1> USE <1>1 DEF MovesOnly, At, Goes, Become, Begin, AtPrompt
<1>2. Turn => \A w \in Pids : step[w] # "signal"
  BY DEF Turn, Resting, Arriving
<1>3. CASE TableStep(x)
  BY <1>3 DEF TableStep, find_id, take_id, login
<1>4. CASE Exit(x)
  BY <1>4 DEF Exit, Ends
<1>5. CASE get_userpipe(x)
  BY <1>5 DEF get_userpipe, rest
<1>6. CASE add_userpipe(x)
  BY <1>6 DEF add_userpipe, rest
<1>7. CASE Waited(x)
  BY <1>7 DEF Waited, rest
<1>8. CASE OpensAlone(x)
  BY <1>8 DEF OpensAlone, WriterOpens, rest
<1>9. CASE Leaves(x)
  BY <1>2, <1>9 DEF Leaves, logout, fifos
<1>10. CASE Renames(x)
  BY <1>2, <1>10 DEF Renames, name, fifos
<1>11. CASE \E from, to \in Table \cup {0} : Type(x, from, to)
  BY <1>2, <1>11 DEF Type
<1> QED
  BY <1>3, <1>4, <1>5, <1>6, <1>7, <1>8, <1>9, <1>10, <1>11

(* A pipe is marked by add_userpipe alone, for a reader at the prompt.          *)
LEMMA NewMarkIsSeen ==
    ASSUME FifosIInv, NEW p \in Pids, add_userpipe(p), NEW s \in Table, NEW r \in Table,
           fifo_check[s][r] # 2, fifo_check'[s][r] = 2
    PROVE  Seen(s, r)'
<1>1. /\ step[p] = "add" /\ line[p].to # 0 /\ taken[line[p].to]
      /\ step' = [step EXCEPT ![p] = "signal"]
      /\ fifo_check' = [fifo_check EXCEPT ![id[p]][line[p].to] = 2]
      /\ UNCHANGED <<id, line>>
  BY DEF add_userpipe, Goes, At, Become, rest
<1>2. /\ step \in [Pids -> FifoSteps] /\ line \in [Pids -> LineShapes]
      /\ fifo_check \in [Table -> [Table -> {0, 1, 2, Text}]]
  BY InvTypes
<1>3. step[p] \in Piping
  BY <1>1 DEF Piping
<1>4. id[p] \in Table /\ line[p].to \in Table
  BY <1>1, <1>2, <1>3 DEF FifosIInv, Shape, PipersInTable, LineShapes
<1>5. s = id[p] /\ r = line[p].to
  BY <1>1, <1>2, <1>4
<1>6. \A x \in Pids : x # p => step[x] \in Resting
  BY <1>3, PiperIsBusy
<1>7. r # id[p]
  BY <1>3, <1>5 DEF FifosIInv, Relations, Lines, LinesAreOwn
<1>8. r \in Slots /\ taken[r]
  BY <1>1, <1>5, SharedBounds DEF Table, Slots
<1>9. PICK q \in Online : id[q] = r
  BY <1>8 DEF FifosIInv, TableIInv, Owned, SlotsAreOwned
<1>10. q \in Pids /\ q # p /\ step[q] = "prompt"
  BY <1>6, <1>7, <1>9 DEF Online, InTable, Outside, Resting
<1>11. step'[q] = "prompt" /\ step'[p] = "signal"
  BY <1>1, <1>2, <1>10
<1>12. Writer(p, s, r)'
  BY <1>1, <1>5, <1>11 DEF Writer, Writing
<1> QED
  BY <1>1, <1>9, <1>10, <1>11, <1>12 DEF Seen

(* Nobody else sets a mark.                                                     *)
LEMMA GetMarksNothing ==
    ASSUME FifosIInv, NEW p \in Pids, get_userpipe(p), NEW s \in Table, NEW r \in Table,
           fifo_check'[s][r] = 2
    PROVE  fifo_check[s][r] = 2
<1>1. fifo_check \in [Table -> [Table -> {0, 1, 2, Text}]]
  BY InvTypes
<1>2. CASE UNCHANGED fifo_check
  BY <1>2
<1>3. CASE fifo_check' = [fifo_check EXCEPT ![line[p].from][id[p]] = 0]
  BY <1>1, <1>3
<1> QED
  BY <1>2, <1>3 DEF get_userpipe

LEMMA HandlerMarksNothing ==
    ASSUME FifosIInv, NEW x \in Pids, handler_sig(x), NEW s \in Table, NEW r \in Table,
           fifo_check'[s][r] = 2
    PROVE  fifo_check[s][r] = 2
<1>1. fifo_check \in [Table -> [Table -> {0, 1, 2, Text}]]
  BY InvTypes
<1>2. CASE UNCHANGED fifo_check
  BY <1>2
<1>3. CASE fifo_check' = [fifo_check EXCEPT ![cursor[x]][id[x]] = 1]
  BY <1>1, <1>3
<1> QED
  BY <1>2, <1>3 DEF handler_sig, Enter, Pass, TakeOver, HandlerOpens

(* A handler that goes on from a user whose mark it has looked at.              *)
LEMMA GoesOnToMark ==
    ASSUME NEW q \in Pids, NEW s \in Table, cursor[q] \in 1..s, cursor[q] # s
    PROVE  NextCursor(q) \in 1..s
BY SharedBounds DEF Table, NextCursor

LEMMA HandlerSeesMark ==
    ASSUME FifosIInv, NEW x \in Pids, handler_sig(x), NEW s \in Table, NEW r \in Table,
           fifo_check'[s][r] = 2, Seen(s, r)
    PROVE  fifo_check[s][r] = 2 => Seen(s, r)'
<1> SUFFICES ASSUME fifo_check[s][r] = 2 PROVE Seen(s, r)'
  OBVIOUS
<1>1. PICK q \in Pids :
        /\ id[q] = r /\ step[q] = "prompt"
        /\ \/ pending[q]
           \/ cursor[q] \in 1..s
           \/ \E w \in Pids : Writer(w, s, r) /\ step[w] = "signal"
  BY DEF Seen
<1>2. UNCHANGED <<step, id, line>>
  BY DEF handler_sig, Enter, Pass, TakeOver, HandlerOpens, tableVars
<1>3. /\ pending \in [Pids -> BOOLEAN] /\ cursor \in [Pids -> Table \cup {0}]
      /\ fifo_check \in [Table -> [Table -> {0, 1, 2, Text}]] /\ 0 \notin Table
  BY InvTypes
<1>4. ASSUME pending'[q] \/ cursor'[q] \in 1..s PROVE Seen(s, r)'
  BY <1>1, <1>2, <1>4 DEF Seen
<1>5. CASE \E w \in Pids : Writer(w, s, r) /\ step[w] = "signal"
  BY <1>1, <1>2, <1>5 DEF Seen, Writer
<1>6. CASE x # q /\ (pending[q] \/ cursor[q] \in 1..s)
  <2>1. pending'[q] = pending[q] /\ cursor'[q] = cursor[q]
    BY <1>3, <1>6 DEF handler_sig, Enter, Pass, TakeOver, HandlerOpens, ReaderOpens
  <2> QED
    BY <1>4, <1>6, <2>1
<1>7. CASE x = q /\ Enter(q)
  <2>1. cursor'[q] = 1
    BY <1>1, <1>3, <1>7 DEF Enter, Outside
  <2>2. 1 \in 1..s
    BY SharedBounds DEF Table
  <2> QED
    BY <1>4, <2>1, <2>2
<1>8. CASE x = q /\ pending[q] /\ ~Enter(q)
  <2>1. pending'[q]
    BY <1>8 DEF handler_sig, Pass, TakeOver, HandlerOpens
  <2> QED
    BY <1>4, <2>1
<1>9. CASE x = q /\ cursor[q] \in 1..s /\ ~Enter(q)
  <2>1. CASE Pass(q)
    <3>1. cursor[q] # s
      BY <1>1, <2>1 DEF Pass, Marked
    <3>2. cursor'[q] = NextCursor(q)
      BY <1>3, <2>1 DEF Pass
    <3> QED
      BY <1>4, <1>9, <3>1, <3>2, GoesOnToMark
  <2>2. CASE TakeOver(q)
    BY <1>4, <1>9, <2>2 DEF TakeOver
  <2>3. CASE HandlerOpens(q)
    <3>1. opening[q] # 0 /\ cursor'[q] = NextCursor(q)
      BY <1>3, <2>3 DEF HandlerOpens, ReaderOpens
    <3>2. fifo_check[cursor[q]][id[q]] = 1
      BY <3>1, OpenersHold
    <3>3. cursor[q] # s
      BY <1>1, <3>2
    <3> QED
      BY <1>4, <1>9, <3>1, <3>3, GoesOnToMark
  <2> QED
    BY <1>9, <2>1, <2>2, <2>3 DEF handler_sig
<1> QED
  BY <1>1, <1>5, <1>6, <1>7, <1>8, <1>9

(* The two steps in which a writer meets a signal or its reader.                *)
LEMMA SignalIsSeen ==
    ASSUME FifosIInv, NEW p \in Pids, Signal(p), NEW s \in Table, NEW r \in Table, Seen(s, r)
    PROVE  Seen(s, r)'
<1>1. PICK q \in Pids :
        /\ id[q] = r /\ step[q] = "prompt"
        /\ \/ pending[q]
           \/ cursor[q] \in 1..s
           \/ \E w \in Pids : Writer(w, s, r) /\ step[w] = "signal"
  BY DEF Seen
<1>2. /\ step[p] = "signal" /\ step' = [step EXCEPT ![p] = "open"]
      /\ UNCHANGED <<id, line, cursor>>
      /\ \A x \in Pids : pending[x] => pending'[x]
  BY DEF Signal, Goes, At, Become, rest
<1>3. step \in [Pids -> FifoSteps]
  BY InvTypes
<1>4. CASE pending[q] \/ cursor[q] \in 1..s
  <2>1. step'[q] = "prompt"
    BY <1>1, <1>2, <1>3
  <2> QED
    BY <1>1, <1>2, <1>4, <2>1 DEF Seen
<1>5. CASE \E w \in Pids : Writer(w, s, r) /\ step[w] = "signal"
  <2>1. Writer(p, s, r)
    BY <1>2, <1>5, WriterIsAlone DEF Writing
  <2>2. PICK x \in Pids : id[x] = line[p].to /\ pending'[x] /\ step'[x] = "prompt"
    BY SignalIInv
  <2> QED
    BY <1>2, <2>1, <2>2 DEF Seen, Writer
<1> QED
  BY <1>1, <1>4, <1>5

LEMMA OpenSeesMark ==
    ASSUME FifosIInv, NEW p \in Pids, NEW x \in Pids, Open(p, x),
           NEW s \in Table, NEW r \in Table, fifo_check[s][r] = 2, Seen(s, r)
    PROVE  Seen(s, r)'
<1>1. PICK q \in Pids :
        /\ id[q] = r /\ step[q] = "prompt"
        /\ \/ pending[q]
           \/ cursor[q] \in 1..s
           \/ \E w \in Pids : Writer(w, s, r) /\ step[w] = "signal"
  BY DEF Seen
<1>2. /\ step[p] = "open" /\ step' = [step EXCEPT ![p] = "prompt"]
      /\ opening[x] # 0 /\ cursor' = [cursor EXCEPT ![x] = NextCursor(x)]
      /\ UNCHANGED <<id, pending>>
  BY DEF Open, WriterOpens, ReaderOpens, OpensFor, At, Become, rest
<1>3. /\ step \in [Pids -> FifoSteps] /\ cursor \in [Pids -> Table \cup {0}]
  BY InvTypes
<1>4. ~\E w \in Pids : Writer(w, s, r) /\ step[w] = "signal"
  BY <1>2, WriterIsAlone DEF Writing
<1>5. step'[q] = "prompt"
  BY <1>1, <1>2, <1>3
<1>6. CASE pending[q]
  BY <1>1, <1>2, <1>5, <1>6 DEF Seen
<1>7. CASE cursor[q] \in 1..s
  <2>1. cursor'[q] \in 1..s
    <3>1. CASE q = x
      <4>1. fifo_check[cursor[q]][id[q]] = 1
        BY <1>2, <3>1, OpenersHold
      <4>2. cursor[q] # s /\ cursor'[q] = NextCursor(q)
        BY <1>1, <1>2, <1>3, <3>1, <4>1
      <4> QED
        BY <1>7, <4>2, GoesOnToMark
    <3>2. CASE q # x
      BY <1>2, <1>3, <1>7, <3>2
    <3> QED
      BY <3>1, <3>2
  <2> QED
    BY <1>1, <1>2, <1>5, <2>1 DEF Seen
<1> QED
  BY <1>1, <1>4, <1>6, <1>7

LEMMA SeenNext ==
    FifosIInv /\ MarkIsSeen /\ calm' /\ [FifosNext]_vars => MarkIsSeen'
<1> SUFFICES ASSUME FifosIInv, MarkIsSeen, calm', [FifosNext]_vars,
                    NEW s \in Table, NEW r \in Table, fifo_check'[s][r] = 2
             PROVE  Seen(s, r)'
  BY DEF MarkIsSeen
<1>0. calm
  BY FifosCalmWasCalm
<1>1. fifo_check[s][r] = 2 => Seen(s, r)
  BY <1>0 DEF MarkIsSeen
<1>2. ASSUME fifo_check[s][r] = 2, NEW x, MovesOnly(x) PROVE Seen(s, r)'
  BY <1>1, <1>2, SeenStays
<1>3. CASE (Parent \/ Connect \/ UNCHANGED tableVars) /\ UNCHANGED fifos
  <2>1. \E x \in Pids \cup {NoPid} : MovesOnly(x)
    <3>1. CASE UNCHANGED <<step, id>>
      <4>1. NoPid \notin Pids
        BY SharedBounds DEF Pids, NoPid
      <4> QED
        BY <1>3, <3>1, <4>1 DEF MovesOnly, fifos
    <3>2. CASE Accept
      <4>1. step \in [Pids -> FifoSteps]
        BY InvTypes
      <4>2. PICK x \in Pids : step[x] = "none" /\ step' = [step EXCEPT ![x] = "forked"]
        BY <3>2 DEF Accept, Begin, Become
      <4>3. MovesOnly(x)
        BY <1>3, <3>2, <4>1, <4>2 DEF MovesOnly, Accept, fifos
      <4> QED
        BY <4>3
    <3> QED
      BY <1>3, <3>1, <3>2 DEF Parent, Check, Connect, tableVars
  <2> QED
    BY <1>2, <1>3, <2>1 DEF fifos
<1>4. ASSUME NEW c \in commands, CommandEnds(c) PROVE Seen(s, r)'
  <2>1. NoPid \notin Pids
    BY SharedBounds DEF Pids, NoPid
  <2>2. MovesOnly(NoPid) /\ fifo_check' = fifo_check
    BY <1>4, <2>1 DEF MovesOnly, CommandEnds, tableVars
  <2> QED
    BY <1>2, <2>2
<1>5. ASSUME NEW x \in Pids,
             \/ TableStep(x) \/ Exit(x) \/ get_userpipe(x) \/ add_userpipe(x) \/ Waited(x)
             \/ OpensAlone(x) \/ Leaves(x) \/ Renames(x)
             \/ \E from, to \in Table \cup {0} : Type(x, from, to)
      PROVE  Seen(s, r)'
  <2>1. CASE fifo_check[s][r] = 2
    BY <1>2, <1>5, <2>1, LineMovesOnly
  <2>2. CASE fifo_check[s][r] # 2 /\ add_userpipe(x)
    BY <2>2, NewMarkIsSeen
  <2>3. CASE get_userpipe(x)
    BY <2>1, <2>3, GetMarksNothing
  <2>4. CASE \/ Exit(x) \/ Waited(x) \/ OpensAlone(x) \/ Leaves(x) \/ Renames(x)
             \/ \E from, to \in Table \cup {0} : Type(x, from, to)
    <3>1. fifo_check' = fifo_check
      BY <2>4 DEF Exit, Waited, OpensAlone, Leaves, Renames, fifos, Type
    <3> QED
      BY <2>1, <3>1
  <2>5. CASE TableStep(x)
    <3>1. fifo_check' = fifo_check
      BY <2>5 DEF TableStep, find_id, take_id, login, At
    <3> QED
      BY <2>1, <3>1
  <2> QED
    BY <1>5, <2>1, <2>2, <2>3, <2>4, <2>5
<1>6. ASSUME NEW p \in Pids, Signal(p) PROVE Seen(s, r)'
  <2>1. fifo_check' = fifo_check
    BY <1>6 DEF Signal
  <2> QED
    BY <1>1, <1>6, <2>1, SignalIsSeen
<1>7. ASSUME NEW p \in Pids, NEW q \in Pids, Open(p, q) PROVE Seen(s, r)'
  <2>1. fifo_check' = fifo_check
    BY <1>7 DEF Open
  <2> QED
    BY <1>1, <1>7, <2>1, OpenSeesMark
<1>8. ASSUME NEW x \in Pids, handler_sig(x) PROVE Seen(s, r)'
  <2>1. fifo_check[s][r] = 2
    BY <1>8, HandlerMarksNothing
  <2> QED
    BY <1>1, <1>8, <2>1, HandlerSeesMark
<1>9. ~ServerRestart
  BY DEF ServerRestart
<1> QED
  BY <1>3, <1>4, <1>5, <1>6, <1>7, <1>8, <1>9 DEF FifosNext, Runs, Process, vars

(* Neither a signal is lost nor a mark passed over: in calm a mark that is set  *)
(* is always still to be seen by its reader, however signals are merged.        *)
THEOREM OpenersAreSeen == FifosSpec => []MarkIsSeen
<1>1. FifosInit => MarkIsSeen
  BY DEF FifosInit, MarkIsSeen
<1>2. (calm => FifosIInv) /\ MarkIsSeen /\ [FifosNext]_vars => MarkIsSeen'
  BY SeenNext, FifosCalmWasCalm DEF MarkIsSeen
<1> QED
  BY <1>1, <1>2, FifosInductiveInvariant, PTL DEF FifosSpec

(* In calm nobody waits in open for nothing but the handlers that the inherited *)
(* ends strand, and those who write to them: whoever waits can go on, or its    *)
(* partner can, who sends the signal, is on the way to the mark, or opens.      *)
THEOREM SomebodyGoesOn == FifosSpec => []OpenersGoOn
<1>1. ASSUME FifosIInv, NEW q \in Pids, opening[q] # 0,
             <<opening[q], id[q]>> \in alone
      PROVE  Stranded(q) \/ CanGoOn(q)
  BY <1>1 DEF Stranded, CanGoOn
<1>2. ASSUME FifosIInv, NEW w \in Pids, NEW q \in Pids, opening[q] # 0,
             Writer(w, opening[q], id[q])
      PROVE  CanGoOn(w)
  <2>1. step[w] \in Writing /\ cursor[w] = 0
    BY <1>2, WriterIsAlone DEF Writer
  <2>2. CASE step[w] = "signal"
    BY <2>1, <2>2 DEF CanGoOn, Goes, At
  <2>3. CASE step[w] = "open"
    <3>1. OpensFor(q, <<id[w], line[w].to>>)
      BY <1>2 DEF OpensFor, SameFile, Writer
    <3> QED
      BY <2>1, <2>3, <3>1 DEF CanGoOn, Goes, At
  <2> QED
    BY <2>1, <2>2, <2>3 DEF Writing
<1>3. ASSUME FifosIInv, MarkIsSeen, calm, NEW p \in Pids, Opens(p)
      PROVE  WaitsInVain(p) \/ \E q \in Partners(p) : CanGoOn(q)
  <2>0. p \in Partners(p)
    BY DEF Partners
  <2>1. CASE opening[p] # 0
    <3>1. CASE <<opening[p], id[p]>> \in alone
      BY <1>1, <1>3, <2>0, <2>1, <3>1 DEF WaitsInVain
    <3>2. ASSUME NEW w \in Pids, Writer(w, opening[p], id[p])
          PROVE  \E q \in Partners(p) : CanGoOn(q)
      <4>1. w \in Partners(p)
        BY <2>1, <3>2 DEF Partners
      <4> QED
        BY <1>2, <1>3, <2>1, <3>2, <4>1
    <3> QED
      BY <1>3, <2>1, <3>1, <3>2 DEF FifosIInv, Relations, Writers, OpeningsHaveWriters
  <2>2. CASE step[p] = "open"
    <3> DEFINE s == id[p]
               r == line[p].to
    <3>1. /\ step[p] \in Writing /\ s \in Table /\ r \in Table
          /\ \A w \in Pids : step[w] \in Writing => w = p
      BY <1>3, <2>2, WriterIsAlone DEF Writing
    <3>2. ASSUME NEW q \in Pids, id[q] = r, opening[q] # 0
          PROVE  WaitsInVain(p) \/ \E x \in Partners(p) : CanGoOn(x)
      <4>1. q \in Partners(p)
        BY <2>2, <3>2 DEF Partners, At
      <4>2. CASE <<opening[q], id[q]>> \in alone
        <5>1. Stranded(q) \/ CanGoOn(q)
          BY <1>1, <1>3, <3>2, <4>2
        <5>2. Stranded(q) => WaitsInVain(p)
          BY <2>2, <3>2 DEF WaitsInVain, At
        <5> QED
          BY <4>1, <5>1, <5>2
      <4>3. ASSUME NEW w \in Pids, Writer(w, opening[q], id[q]) PROVE CanGoOn(p)
        <5>1. w = p
          BY <3>1, <4>3 DEF Writer
        <5> QED
          BY <1>2, <1>3, <3>2, <4>3, <5>1
      <4> QED
        BY <1>3, <2>0, <3>2, <4>2, <4>3
        DEF FifosIInv, Relations, Writers, OpeningsHaveWriters
    <3>3. CASE fifo_check[s][r] = 2
      <4>1. Seen(s, r)
        BY <1>3, <3>1, <3>3 DEF MarkIsSeen
      <4>2. PICK q \in Pids :
              /\ id[q] = r /\ step[q] = "prompt"
              /\ pending[q] \/ cursor[q] \in 1..s
        BY <2>2, <3>1, <4>1 DEF Seen, Writer
      <4>3. q \in Partners(p)
        BY <2>2, <4>2 DEF Partners, At
      <4>4. 0 \notin 1..s
        BY <3>1, SharedBounds DEF Table
      <4>5. CASE opening[q] = 0
        <5>1. CanGoOn(q)
          BY <4>2, <4>4, <4>5 DEF CanGoOn, Looks, At
        <5> QED
          BY <4>3, <5>1
      <4> QED
        BY <3>2, <4>2, <4>5
    <3>4. CASE \E q \in Pids : id[q] = r /\ opening[q] = s
      <4>1. 0 \notin Table
        BY <1>3, InvTypes
      <4> QED
        BY <3>1, <3>2, <3>4, <4>1
    <3> QED
      BY <1>3, <3>1, <3>3, <3>4 DEF FifosIInv, Relations, Writers, WritersWait
  <2> QED
    BY <1>3, <2>1, <2>2 DEF Opens, At
<1>4. (calm => FifosIInv) /\ MarkIsSeen => OpenersGoOn
  BY <1>3 DEF OpenersGoOn
<1> QED
  BY <1>4, FifosInductiveInvariant, OpenersAreSeen, PTL

-----------------------------------------------------------------------------
(* A connection that waits has a process to be forked for it.                   *)
SessionLeft == waiting => \E p \in Pids : step[p] = "none"

LEMMA SessionLeftNext == Shape /\ SessionLeft /\ [FifosNext]_vars => SessionLeft'
<1> SUFFICES ASSUME Shape, SessionLeft, [FifosNext]_vars, waiting'
             PROVE  \E p \in Pids : step'[p] = "none"
  BY DEF SessionLeft
<1>0. step \in [Pids -> FifoSteps]
  BY ShapeTypes
<1>1. CASE Connect
  BY <1>1 DEF Connect
<1>2. CASE Accept \/ ServerRestart
  BY <1>2 DEF Accept, ServerRestart, Restart
<1>3. CASE Check \/ (\E c \in commands : CommandEnds(c)) \/ UNCHANGED vars
            \/ \E p \in Pids : handler_sig(p)
  BY <1>3 DEF SessionLeft, Check, CommandEnds, vars, tableVars, handler_sig, Enter, Pass,
              TakeOver, HandlerOpens
<1>4. ASSUME NEW p \in Pids,
             \/ Process(p) \/ Leaves(p) \/ Renames(p)
             \/ \E from, to \in Table \cup {0} : Type(p, from, to)
      PROVE  waiting' = waiting /\ step[p] # "none" /\ \A q \in Pids \ {p} : step'[q] = step[q]
  <2>1. CASE TableStep(p)
    BY <1>0, <2>1 DEF TableStep, find_id, take_id, login, At, Become
  <2>2. CASE Exit(p) \/ Leaves(p) \/ Renames(p)
    BY <1>0, <2>2 DEF Exit, Ends, Leaves, logout, Renames, name, Begin, At, Become
  <2>3. CASE \/ get_userpipe(p) \/ add_userpipe(p) \/ Signal(p) \/ Waited(p)
             \/ OpensAlone(p) \/ \E q \in Pids : Open(p, q)
    <3>1. PICK s : Within(p, s)
      BY <2>3, ProcessWithin
    <3> QED
      BY <1>0, <3>1 DEF Within, Outside
  <2>4. CASE \E from, to \in Table \cup {0} : Type(p, from, to)
    BY <1>0, <2>4 DEF Type, AtPrompt, Goes, At, Begin, Become
  <2> QED
    BY <1>4, <2>1, <2>2, <2>3, <2>4 DEF Process
<1>5. ASSUME NEW p \in Pids,
             \/ Process(p) \/ Leaves(p) \/ Renames(p)
             \/ \E from, to \in Table \cup {0} : Type(p, from, to)
      PROVE  \E q \in Pids : step'[q] = "none"
  BY <1>4, <1>5 DEF SessionLeft
<1> QED
  BY <1>1, <1>2, <1>3, <1>5 DEF FifosNext, Runs, Parent

(* In calm a client that connects is served unless the server is full: while    *)
(* there is room the parent can look or accept, or somebody is on the way out,  *)
(* whom no handler keeps from it.                                               *)
THEOREM NewcomersHaveAWay == FifosSpec => []NewcomersGoOn
<1>1. FifosInit => SessionLeft
  BY DEF FifosInit, TableInit, SessionLeft
<1>2. ASSUME FifosIInv, SessionLeft, waiting, ~Full
      PROVE  \/ main = "check" /\ n < MaxUsers
             \/ main = "accept" /\ \E p \in Pids : step[p] = "none"
             \/ \E p \in Pids : step[p] = "goodbye" /\ cursor[p] = 0
  <2>1. main \in {"check", "accept"} /\ n \in Int /\ n = Cardinality(Counted) + ghosts
    BY <1>2 DEF FifosIInv, TableIInv, TableTypeOK, CountIsRight
  <2>2. CASE main = "check" /\ ~(n < MaxUsers)
    <3>1. PICK p \in Pids : step[p] = "goodbye"
      <4>1. SUFFICES ASSUME \A p \in Pids : step[p] # "goodbye" PROVE FALSE
        OBVIOUS
      <4>2. Counted = Online
        BY <4>1 DEF Counted, Online, InTable
      <4> QED
        BY <1>2, <2>1, <2>2, <4>2, SharedBounds DEF Full
    <3>2. cursor[p] = 0
      BY <1>2, <3>1, PiperIsBusy
    <3> QED
      BY <3>1, <3>2
  <2> QED
    BY <1>2, <2>1, <2>2 DEF SessionLeft
<1>3. (calm => FifosIInv) /\ SessionLeft => NewcomersGoOn
  BY <1>2 DEF NewcomersGoOn
<1>4. FifosSpec => []SessionLeft
  BY <1>1, SessionLeftNext, FifosInductiveInvariant, PTL DEF FifosSpec
<1> QED
  BY <1>3, <1>4, FifosInductiveInvariant, PTL
=============================================================================
