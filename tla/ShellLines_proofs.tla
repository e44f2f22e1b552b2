-------------------------- MODULE ShellLines_proofs --------------------------
(* The lines of a shell, for every bound on numbers, lines and commands, in     *)
(* npshell and in the servers: each part, and the shell from input to input.    *)
(*                                                                              *)
(* The countdown of NumberedPipes keeps the schedule of PipeSchedule; the       *)
(* argument goes through one relation: line w writes to the pipe of number k.   *)
(* The cut is right for inputs of 1 to MaxCommands commands, for every such     *)
(* bound, and inside arrays of that size: while the loop runs, line p opens     *)
(* at Open, behind the last |N seen, and no command from there to i ends in |N. *)
(* So the shell runs lines that end in no more than one |N each, and every step *)
(* of it is one of the schedule or none.                                        *)
EXTENDS ShellLines, TLAPS

Writes(f, w, k) == \E r \in f : r.number = k /\ w \in r.writers

IsList(f, top) ==
    /\ f \subseteq [number : Int, writers : SUBSET (1..top)]
    /\ \A r \in f : r.number <= MaxSkip

Differ(f) ==
    \A r, s \in f : r.number = s.number \/ r.writers \cap s.writers # {} => r = s

-----------------------------------------------------------------------------
(* Decrementing moves every writer one line nearer, and keeps numbers apart.    *)
LEMMA TickList ==
    ASSUME NEW top \in Nat, NEW f, IsList(f, top)
    PROVE  /\ IsList(Tick(f), top)
           /\ \A s \in Tick(f) :
                \E r \in f : r.number = s.number + 1 /\ r.writers = s.writers
           /\ \A r \in f :
                \E s \in Tick(f) : s.number = r.number - 1 /\ s.writers = r.writers
<1>1. \A r \in f : /\ r \in [number : Int, writers : SUBSET (1..top)]
                   /\ r.number <= MaxSkip
  BY DEF IsList
<1>2. ASSUME NEW r \in f
      PROVE  LET s == [r EXCEPT !.number = @ - 1] IN
             /\ s \in [number : Int, writers : SUBSET (1..top)]
             /\ s.number = r.number - 1 /\ s.writers = r.writers
             /\ s.number <= MaxSkip
  BY <1>1, MaxSkipAssumption
<1>3. ASSUME NEW s \in Tick(f)
      PROVE  /\ s \in [number : Int, writers : SUBSET (1..top)]
             /\ s.number <= MaxSkip
             /\ \E r \in f : r.number = s.number + 1 /\ r.writers = s.writers
  <2> PICK r \in f : s = [r EXCEPT !.number = @ - 1]
    BY DEF Tick
  <2>1. s.number = r.number - 1 /\ r.number \in Int
    BY <1>1, <1>2
  <2>2. r.number = s.number + 1
    BY <2>1
  <2> QED
    BY <1>2, <2>2
<1>4. \A r \in f : [r EXCEPT !.number = @ - 1] \in Tick(f)
  BY DEF Tick
<1> QED
  BY <1>2, <1>3, <1>4 DEF IsList

LEMMA TickDiffer ==
    ASSUME NEW top \in Nat, NEW f, IsList(f, top), Differ(f)
    PROVE  Differ(Tick(f))
<1> SUFFICES ASSUME NEW x \in Tick(f), NEW y \in Tick(f),
                    x.number = y.number \/ x.writers \cap y.writers # {}
             PROVE  x = y
  BY DEF Differ
<1>1. PICK r \in f : x = [r EXCEPT !.number = @ - 1]
  BY DEF Tick
<1>2. PICK s \in f : y = [s EXCEPT !.number = @ - 1]
  BY DEF Tick
<1>3. /\ r \in [number : Int, writers : SUBSET (1..top)]
      /\ s \in [number : Int, writers : SUBSET (1..top)]
  BY DEF IsList
<1>4. /\ x.number = r.number - 1 /\ x.writers = r.writers
      /\ y.number = s.number - 1 /\ y.writers = s.writers
  BY <1>1, <1>2, <1>3
<1>5. r = s
  BY <1>3, <1>4 DEF Differ
<1> QED
  BY <1>1, <1>2, <1>5

LEMMA TickWrites ==
    ASSUME NEW top \in Nat, NEW f, IsList(f, top), NEW w, NEW k \in Int
    PROVE  Writes(Tick(f), w, k) <=> Writes(f, w, k + 1)
<1>1. \A r \in f : r.number \in Int
  BY DEF IsList
<1>2. \A s \in Tick(f) : s.number \in Int
  BY TickList DEF IsList
<1>3. ASSUME Writes(Tick(f), w, k)
      PROVE  Writes(f, w, k + 1)
  <2>1. PICK s \in Tick(f) : s.number = k /\ w \in s.writers
    BY <1>3 DEF Writes
  <2>2. PICK r \in f : r.number = s.number + 1 /\ r.writers = s.writers
    BY TickList
  <2> QED
    BY <2>1, <2>2 DEF Writes
<1>4. ASSUME Writes(f, w, k + 1)
      PROVE  Writes(Tick(f), w, k)
  <2>1. PICK r \in f : r.number = k + 1 /\ w \in r.writers
    BY <1>4 DEF Writes
  <2>2. PICK s \in Tick(f) : s.number = r.number - 1 /\ s.writers = r.writers
    BY TickList
  <2> QED
    BY <2>1, <2>2 DEF Writes
<1> QED
  BY <1>3, <1>4

(* Taking the pipe that is due leaves the others as they were.                  *)
LEMMA RestList ==
    ASSUME NEW top \in Nat, NEW f, IsList(f, top), Differ(f)
    PROVE  /\ IsList(f \ Zero(f), top)
           /\ Differ(f \ Zero(f))
           /\ \A w, k : Writes(f \ Zero(f), w, k) <=> k # 0 /\ Writes(f, w, k)
BY DEF IsList, Differ, Zero, Writes

(* The line that has just been run becomes a writer of the pipe of number nr, *)
(* and of no other.                                                             *)
LEMMA WriteList ==
    ASSUME NEW top \in Nat, NEW f, IsList(f, top), Differ(f),
           NEW nr \in 1..MaxSkip
    PROVE  /\ IsList(Write(f, nr, top + 1), top + 1)
           /\ Differ(Write(f, nr, top + 1))
           /\ \A r \in Write(f, nr, top + 1) : r.number = nr \/ r \in f
           /\ \A w, k : Writes(Write(f, nr, top + 1), w, k)
                          <=> Writes(f, w, k) \/ (k = nr /\ w = top + 1)
<1> DEFINE same == {r \in f : r.number = nr}
           T == [number : Int, writers : SUBSET (1..(top + 1))]
<1>1. \A r \in f : /\ r \in T
                   /\ r.number <= MaxSkip
                   /\ (top + 1) \notin r.writers
  BY DEF IsList
<1>2. nr \in Int /\ nr <= MaxSkip
  BY MaxSkipAssumption
<1>3. CASE same = {}
  <2> DEFINE new == [number |-> nr, writers |-> {top + 1}]
  <2>1. Write(f, nr, top + 1) = f \cup {new}
    BY <1>3 DEF Write
  <2>2. new \in T /\ new.number = nr /\ new.writers = {top + 1}
    BY <1>2
  <2>3. IsList(f \cup {new}, top + 1)
    BY <1>1, <1>2, <2>2 DEF IsList
  <2>4. Differ(f \cup {new})
    BY <1>1, <1>3, <2>2 DEF Differ
  <2>5. \A w, k : Writes(f \cup {new}, w, k)
                    <=> Writes(f, w, k) \/ (k = nr /\ w = top + 1)
    BY <2>2 DEF Writes
  <2>6. \A r \in f \cup {new} : r.number = nr \/ r \in f
    BY <2>2
  <2> QED
    BY <2>1, <2>3, <2>4, <2>5, <2>6
<1>4. CASE same # {}
  <2> PICK old \in f : old.number = nr
    BY <1>4
  <2> DEFINE new == [old EXCEPT !.writers = @ \cup {top + 1}]
  <2>1. same = {old}
    BY DEF Differ
  <2>2. {[r EXCEPT !.writers = @ \cup {top + 1}] : r \in same} = {new}
    BY <2>1
  <2>3. Write(f, nr, top + 1) = (f \ {old}) \cup {new}
    BY <1>4, <2>1, <2>2 DEF Write
  <2>4. old \in T
    BY <1>1
  <2>5. new \in T /\ new.number = nr /\ new.writers = old.writers \cup {top + 1}
    BY <2>4
  <2>6. IsList((f \ {old}) \cup {new}, top + 1)
    BY <1>1, <1>2, <2>5 DEF IsList
  <2>7. Differ((f \ {old}) \cup {new})
    BY <1>1, <2>5 DEF Differ
  <2>8. \A w, k : Writes((f \ {old}) \cup {new}, w, k)
                    <=> Writes(f, w, k) \/ (k = nr /\ w = top + 1)
    BY <2>5 DEF Writes
  <2>9. \A r \in (f \ {old}) \cup {new} : r.number = nr \/ r \in f
    BY <2>5
  <2> QED
    BY <2>3, <2>6, <2>7, <2>8, <2>9
<1> QED
  BY <1>3, <1>4

LEMMA WiderList ==
    ASSUME NEW top \in Nat, NEW f, IsList(f, top)
    PROVE  IsList(f, top + 1)
<1>1. \A S \in SUBSET (1..top) : S \in SUBSET (1..(top + 1))
  OBVIOUS
<1>2. \A r \in [number : Int, writers : SUBSET (1..top)] :
          r \in [number : Int, writers : SUBSET (1..(top + 1))]
  BY <1>1
<1> QED
  BY <1>2 DEF IsList

-----------------------------------------------------------------------------
IInv ==
    /\ forks \in BOOLEAN
    /\ lineno \in 0..MaxLines
    /\ stdin \subseteq 1..lineno
    /\ IsList(future, lineno)
    /\ Differ(future)
    /\ NothingOverdue

LEMMA InitIInv == Init => IInv
BY MaxLinesAssumption DEF Init, IInv, IsList, Differ, NothingOverdue

(* What a line finds after the decrement.                                       *)
LEMMA TickedList ==
    ASSUME IInv
    PROVE  /\ IsList(Tick(future), lineno) /\ Differ(Tick(future))
           /\ forks => \A r \in Tick(future) \ Zero(Tick(future)) : r.number > 0
           /\ lineno \in Nat
<1>1. lineno \in Nat /\ IsList(future, lineno) /\ Differ(future)
  BY MaxLinesAssumption DEF IInv
<1>2. IsList(Tick(future), lineno) /\ Differ(Tick(future))
  BY <1>1, TickList, TickDiffer
<1>3. ASSUME forks, NEW s \in Tick(future) \ Zero(Tick(future))
      PROVE  s.number > 0
  <2> PICK r \in future : r.number = s.number + 1
    BY <1>1, TickList
  <2>1. s.number \in Int /\ s.number # 0
    BY <1>2, <1>3 DEF IsList, Zero
  <2>2. r.number > 0
    BY <1>3 DEF IInv, NothingOverdue
  <2> QED
    BY <2>1, <2>2
<1> QED
  BY <1>1, <1>2, <1>3

LEMMA CommandLineIInv ==
    ASSUME IInv, NEW nr \in 0..MaxSkip, CommandLine(nr)
    PROVE  IInv'
<1> DEFINE ticked == Tick(future)
           rest == ticked \ Zero(ticked)
<1>1. /\ lineno \in Nat /\ lineno' = lineno + 1 /\ lineno' \in 0..MaxLines
      /\ IsList(ticked, lineno) /\ Differ(ticked)
  BY TickedList, MaxLinesAssumption DEF CommandLine, IInv
<1>2. IsList(rest, lineno) /\ Differ(rest)
  BY <1>1, RestList
<1>3. forks => \A r \in rest : r.number > 0
  BY TickedList
<1>0. forks \in BOOLEAN /\ forks' = forks
  BY DEF CommandLine, IInv
<1>4. stdin' \subseteq 1..lineno'
  <2>1. TakeHead(ticked)
    BY DEF CommandLine
  <2>2. \A r \in ticked : r.writers \subseteq 1..lineno
    BY <1>1 DEF IsList
  <2> QED
    BY <1>1, <2>1, <2>2 DEF TakeHead, Zero
<1>5. CASE nr > 0
  <2>1. nr \in 1..MaxSkip /\ future' = Write(rest, nr, lineno + 1)
    BY <1>1, <1>5 DEF CommandLine
  <2>2. /\ IsList(future', lineno') /\ Differ(future')
        /\ \A r \in future' : r.number = nr \/ r \in rest
    BY <1>1, <1>2, <2>1, WriteList
  <2>3. NothingOverdue'
    <3>1. ASSUME forks', NEW r \in future' PROVE r.number > 0
      BY <1>0, <1>3, <1>5, <2>2, <3>1
    <3> QED
      BY <3>1 DEF NothingOverdue
  <2> QED
    BY <1>0, <1>1, <1>4, <2>2, <2>3 DEF IInv
<1>6. CASE ~(nr > 0)
  <2>1. future' = rest
    BY <1>6 DEF CommandLine
  <2> QED
    BY <1>0, <1>1, <1>2, <1>3, <1>4, <2>1, WiderList DEF IInv, NothingOverdue
<1> QED
  BY <1>5, <1>6

LEMMA BuiltinLineIInv ==
    ASSUME IInv, BuiltinLine
    PROVE  IInv'
<1> DEFINE ticked == Tick(future)
           rest == ticked \ Zero(ticked)
<1>1. /\ lineno \in Nat /\ lineno' = lineno + 1 /\ lineno' \in 0..MaxLines
      /\ IsList(ticked, lineno) /\ Differ(ticked)
  BY TickedList, MaxLinesAssumption DEF BuiltinLine, IInv
<1>2. IsList(rest, lineno) /\ Differ(rest)
  BY <1>1, RestList
<1>3. forks => \A r \in rest : r.number > 0
  BY TickedList
<1>4. /\ future' = IF forks THEN rest ELSE ticked
      /\ forks \in BOOLEAN /\ forks' = forks
  BY DEF BuiltinLine, IInv
<1>5. IsList(future', lineno') /\ Differ(future') /\ NothingOverdue'
  BY <1>1, <1>2, <1>3, <1>4, WiderList DEF NothingOverdue
<1> QED
  BY <1>1, <1>4, <1>5 DEF IInv, BuiltinLine

LEMMA NextIInv == IInv /\ [Next]_vars => IInv'
<1> SUFFICES ASSUME IInv, [Next]_vars PROVE IInv'
  OBVIOUS
<1>1. CASE BuiltinLine
  BY <1>1, BuiltinLineIInv
<1>2. ASSUME NEW nr \in 0..MaxSkip, CommandLine(nr) PROVE IInv'
  BY <1>2, CommandLineIInv
<1>3. CASE UNCHANGED vars
  BY <1>3, Zenon DEF vars, IInv, IsList, Differ, NothingOverdue
<1> QED
  BY <1>1, <1>2, <1>3 DEF Next

(* Numbers in the list differ, and each record is an appointment for the line   *)
(* its number names.                                                            *)
THEOREM InductiveInvariant == Spec => []IInv
BY InitIInv, NextIInv, PTL DEF Spec

(* A pipe is written by lines that were run, under a number |N can say.         *)
THEOREM TypeCorrect == Spec => []TypeOK
<1>1. IInv => TypeOK
  BY DEF IInv, TypeOK, IsList
<1> QED
  BY <1>1, InductiveInvariant, PTL

(* Two records of the list never have the same number or share a pipe.          *)
THEOREM NumbersAreDifferent == Spec => []NumbersDiffer
<1>1. IInv => NumbersDiffer
  BY DEF IInv, NumbersDiffer, Differ
<1> QED
  BY <1>1, InductiveInvariant, PTL

(* In npshell every pipe is taken by the line that it was meant for.            *)
THEOREM NothingIsOverdue == Spec => []NothingOverdue
<1>1. IInv => NothingOverdue
  BY DEF IInv
<1> QED
  BY <1>1, InductiveInvariant, PTL

-----------------------------------------------------------------------------
(* The refinement: an output is pending for line l when its pipe has l - lineno *)
(* lines to go.                                                                 *)
Places == [from : 1..MaxLines, to : 1..(MaxLines + MaxSkip)]

LEMMA AppointmentsAre ==
    ASSUME IInv
    PROVE  \A o \in Places : o \in Appointments
                <=> o.to > lineno /\ Writes(future, o.from, o.to - lineno)
<1>1. \A r \in future : r.number \in Int
  BY DEF IInv, IsList
<1>2. lineno \in Int
  BY DEF IInv
<1> QED
  BY <1>1, <1>2 DEF Appointments, Places, Writes

(* What the first command of the next line reads is what is due at that line.   *)
LEMMA HeadReadsDue ==
    ASSUME IInv, lineno < MaxLines, TakeHead(Tick(future))
    PROVE  stdin' = Schedule!Due(lineno + 1)
<1> DEFINE ticked == Tick(future)
<1>1. lineno \in Nat /\ IsList(future, lineno) /\ IsList(ticked, lineno) /\ Differ(ticked)
  BY TickedList DEF IInv
<1>2. \A w : w \in stdin' <=> Writes(ticked, w, 0)
  BY <1>1 DEF TakeHead, Zero, Writes, Differ
<1>3. \A w : Writes(ticked, w, 0) <=> Writes(future, w, 1)
  BY <1>1, TickWrites
<1>4. \A w : Writes(future, w, 1) => w \in 1..lineno
  BY <1>1 DEF Writes, IsList
<1>5. \A w \in 1..MaxLines : w \in Schedule!Due(lineno + 1) <=> Writes(future, w, 1)
  <2> SUFFICES ASSUME NEW w \in 1..MaxLines
               PROVE  w \in Schedule!Due(lineno + 1) <=> Writes(future, w, 1)
    OBVIOUS
  <2> DEFINE o == [from |-> w, to |-> lineno + 1]
  <2>1. o \in Places /\ o.from = w /\ o.to = lineno + 1
    BY <1>1, MaxSkipAssumption, MaxLinesAssumption DEF Places
  <2>2. o \in Appointments <=> Writes(future, w, 1)
    BY <1>1, <2>1, AppointmentsAre
  <2>3. \A q \in Appointments : q.to = lineno + 1 /\ q.from = w => q = o
    BY DEF Appointments
  <2> QED
    BY <2>1, <2>2, <2>3 DEF Schedule!Due
<1>6. \A w \in Schedule!Due(lineno + 1) : w \in 1..MaxLines
  BY DEF Schedule!Due, Appointments
<1>7. \A w : w \in 1..lineno => w \in 1..MaxLines
  BY <1>1, MaxLinesAssumption
<1> QED
  BY <1>2, <1>3, <1>4, <1>5, <1>6, <1>7

LEMMA CommandLineRefines ==
    ASSUME IInv, NEW nr \in 0..MaxSkip, CommandLine(nr)
    PROVE  Schedule!CommandLine(nr)
<1> DEFINE ticked == Tick(future)
           rest == ticked \ Zero(ticked)
           due == lineno + 1
           new == [from |-> due, to |-> due + nr]
<1>1. /\ lineno < MaxLines /\ lineno' = due /\ lineno \in Nat /\ due \in 1..MaxLines
      /\ IsList(future, lineno) /\ IsList(ticked, lineno) /\ Differ(ticked)
  BY TickedList, MaxLinesAssumption DEF CommandLine, IInv
<1>2. stdin' = Schedule!Due(due)
  BY <1>1, HeadReadsDue DEF CommandLine
<1>3. IsList(rest, lineno) /\ Differ(rest)
  BY <1>1, RestList
<1>4. \A w, k : k \in Int =>
          (Writes(rest, w, k) <=> k # 0 /\ Writes(future, w, k + 1))
  BY <1>1, RestList, TickWrites
<1>5. \A w, k : Writes(future', w, k)
                  <=> Writes(rest, w, k) \/ (nr > 0 /\ k = nr /\ w = due)
  <2>1. CASE nr > 0
    BY <1>1, <1>3, <2>1, WriteList DEF CommandLine
  <2>2. CASE ~(nr > 0)
    BY <2>2 DEF CommandLine
  <2> QED
    BY <2>1, <2>2
<1>6. \A o \in Places : o \in Appointments'
        <=> \/ o \in Schedule!After(due)
            \/ nr > 0 /\ o = new
  <2> SUFFICES ASSUME NEW o \in Places
               PROVE  o \in Appointments'
                        <=> \/ o \in Schedule!After(due)
                            \/ nr > 0 /\ o = new
    OBVIOUS
  <2>1. o.from \in Int /\ o.to \in Int /\ o = [from |-> o.from, to |-> o.to]
    BY MaxSkipAssumption, MaxLinesAssumption DEF Places
  <2>2. o \in Appointments' <=> o.to > due /\ Writes(future', o.from, o.to - due)
    <3>1. IInv'
      BY CommandLineIInv
    <3>2. (\A r \in future' : r.number \in Int) /\ lineno' \in Int
      BY <3>1 DEF IInv, IsList
    <3>3. o \in Appointments' <=>
            \E r \in future' : r.number > 0 /\ o.from \in r.writers
                              /\ o.to = due + r.number
      BY <1>1 DEF Appointments, Places
    <3> QED
      BY <1>1, <2>1, <3>2, <3>3 DEF Writes
  <2>3. o.to > due => (Writes(rest, o.from, o.to - due)
                         <=> Writes(future, o.from, o.to - lineno))
    <3>1. o.to - due \in Int /\ (o.to - due) + 1 = o.to - lineno
      BY <1>1, <2>1
    <3>2. Writes(rest, o.from, o.to - due)
            <=> o.to - due # 0 /\ Writes(future, o.from, (o.to - due) + 1)
      BY <1>4, <3>1
    <3> QED
      BY <1>1, <2>1, <3>1, <3>2
  <2>4. o \in Schedule!After(due)
          <=> o.to > due /\ Writes(future, o.from, o.to - lineno)
    BY <1>1, <2>1, AppointmentsAre DEF Schedule!After
  <2>5. (o.from = due /\ o.to - due = nr) <=> o = new
    BY <1>1, <2>1
  <2> QED
    BY <1>1, <1>5, <2>1, <2>2, <2>3, <2>4, <2>5
<1>7. new \in Places
  BY <1>1, MaxSkipAssumption, MaxLinesAssumption DEF Places
<1>8. Appointments' \subseteq Places /\ Appointments \subseteq Places
  BY DEF Appointments, Places
<1>9. Appointments' = Schedule!After(due) \cup {o \in {new} : nr > 0}
  BY <1>6, <1>7, <1>8 DEF Schedule!After
<1> QED
  BY <1>1, <1>2, <1>9 DEF Schedule!CommandLine

LEMMA BuiltinLineRefines ==
    ASSUME IInv, BuiltinLine
    PROVE  Schedule!BuiltinLine
<1> DEFINE ticked == Tick(future)
           rest == ticked \ Zero(ticked)
           due == lineno + 1
<1>1. /\ lineno < MaxLines /\ lineno' = due /\ lineno \in Nat /\ due \in 1..MaxLines
      /\ IsList(future, lineno) /\ IsList(ticked, lineno) /\ Differ(ticked)
  BY TickedList, MaxLinesAssumption DEF BuiltinLine, IInv
<1>2. \A w, k : k \in Int /\ k # 0 =>
          (Writes(future', w, k) <=> Writes(future, w, k + 1))
  BY <1>1, RestList, TickWrites DEF BuiltinLine
<1>3. \A o \in Places : o \in Appointments' <=> o \in Schedule!After(due)
  <2> SUFFICES ASSUME NEW o \in Places
               PROVE  o \in Appointments' <=> o \in Schedule!After(due)
    OBVIOUS
  <2>1. o.from \in Int /\ o.to \in Int
    BY MaxSkipAssumption, MaxLinesAssumption DEF Places
  <2>2. o \in Appointments' <=> o.to > due /\ Writes(future', o.from, o.to - due)
    <3>1. IInv'
      BY BuiltinLineIInv
    <3>2. (\A r \in future' : r.number \in Int) /\ lineno' \in Int
      BY <3>1 DEF IInv, IsList
    <3> QED
      BY <1>1, <3>2 DEF Appointments, Places, Writes
  <2>3. o \in Schedule!After(due)
          <=> o.to > due /\ Writes(future, o.from, o.to - lineno)
    BY <1>1, <2>1, AppointmentsAre DEF Schedule!After
  <2> QED
    BY <1>1, <1>2, <2>1, <2>2, <2>3
<1>4. Appointments' \subseteq Places /\ Appointments \subseteq Places
  BY DEF Appointments, Places
<1>5. Appointments' = Schedule!After(due)
  BY <1>3, <1>4 DEF Schedule!After
<1> QED
  BY <1>1, <1>5 DEF Schedule!BuiltinLine, BuiltinLine

LEMMA ListStarts == Init => Schedule!Init
BY DEF Init, Schedule!Init, Appointments

LEMMA ListStep ==
    ASSUME IInv, [Next]_vars
    PROVE  [Schedule!Next]_<<lineno, Appointments, stdin>>
<1>1. CASE BuiltinLine
  BY <1>1, BuiltinLineRefines DEF Schedule!Next
<1>2. ASSUME NEW nr \in 0..MaxSkip, CommandLine(nr)
      PROVE  Schedule!Next
  BY <1>2, CommandLineRefines DEF Schedule!Next
<1>3. CASE UNCHANGED vars
  BY <1>3 DEF vars, Appointments
<1> QED
  BY <1>1, <1>2, <1>3 DEF Next

(* The list with its countdown implements the schedule, built-in lines counted. *)
THEOREM Refinement == Spec => KeepsSchedule
BY ListStarts, ListStep, InductiveInvariant, PTL DEF Spec, KeepsSchedule, Schedule!Spec

-----------------------------------------------------------------------------
(* The cut of an input into lines.                                              *)
Open == IF p = 0 THEN 0 ELSE line_t[p - 1] + 1

Closed ==
    /\ p \in 0..i /\ (p = 0 => i = 0 \/ ~EndsInNumber(0))
    /\ p = i => i = 0 \/ EndsInNumber(i - 1)
    /\ DOMAIN line_t = 0..(p - 1)
    /\ \A l \in 0..(p - 1) : /\ line_t[l] \in 0..(i - 1)
                             /\ EndsInNumber(line_t[l])
                             /\ line_h[l] \in 0..line_t[l]
                             /\ \A c \in line_h[l]..line_t[l] :
                                    EndsInNumber(c) => c = line_t[l]
    /\ \A l \in 1..(p - 1) : line_h[l] = line_t[l - 1] + 1

Opened ==
    /\ DOMAIN line_h = IF Open < n \/ p = 0 THEN 0..p ELSE 0..(p - 1)
    /\ line_h[0] = 0
    /\ p > 0 /\ Open < n => line_h[p] = Open
    /\ Open \in 0..i
    /\ \A c \in Open..(i - 1) : ~EndsInNumber(c)

Typed ==
    /\ n \in 0..MaxCommands
    /\ skip \in [0..(n - 1) -> -1..MaxSkip]
    /\ before \in BOOLEAN
    /\ i \in 0..n
    /\ pc \in {"loop", "done"}

SplitIInv ==
    /\ Typed
    /\ pc = "loop" => Closed /\ Opened
    /\ SplitTypeOK
    /\ LinesPartition
    /\ BuiltinIsEmpty

-----------------------------------------------------------------------------
LEMMA PutIs ==
    ASSUME NEW a, NEW k, NEW v
    PROVE  /\ DOMAIN Put(a, k, v) = DOMAIN a \cup {k}
           /\ Put(a, k, v)[k] = v
           /\ \A x \in DOMAIN a : x # k => Put(a, k, v)[x] = a[x]
BY DEF Put

(* Writing the next cell of an array of m cells, and writing a cell again.      *)
LEMMA PutNext ==
    ASSUME NEW a, NEW m \in Nat, DOMAIN a = 0..(m - 1), NEW v
    PROVE  /\ DOMAIN Put(a, m, v) = 0..m
           /\ Put(a, m, v)[m] = v
           /\ \A x \in 0..(m - 1) : Put(a, m, v)[x] = a[x]
<1>1. 0..m = (0..(m - 1)) \cup {m}
  OBVIOUS
<1>2. \A x \in 0..(m - 1) : x # m /\ x \in 0..m
  OBVIOUS
<1>3. DOMAIN Put(a, m, v) = 0..m
  BY <1>1 DEF Put
<1>4. m \in 0..m
  OBVIOUS
<1>5. Put(a, m, v) = [x \in 0..m |-> IF x = m THEN v ELSE a[x]]
  BY <1>1 DEF Put
<1> QED
  BY <1>2, <1>3, <1>4, <1>5

LEMMA PutAgain ==
    ASSUME NEW a, NEW m \in DOMAIN a
    PROVE  /\ DOMAIN Put(a, m, a[m]) = DOMAIN a
           /\ \A x \in DOMAIN a : Put(a, m, a[m])[x] = a[x]
BY DEF Put

LEMMA EmptyArray == DOMAIN Empty = 0..-1
BY DEF Empty

LEMMA SplitInitIInv == SplitInit => SplitIInv
<1> SUFFICES ASSUME SplitInit PROVE SplitIInv
  OBVIOUS
<1>1. DOMAIN line_h = 0..0 /\ line_h[0] = 0 /\ DOMAIN line_t = 0..-1
  <2>1. DOMAIN Empty = {} /\ {0} = 0..0
    BY DEF Empty
  <2>2. DOMAIN Put(Empty, 0, 0) = 0..0 /\ Put(Empty, 0, 0)[0] = 0
    BY <2>1 DEF Put
  <2> QED
    BY <2>2, EmptyArray DEF SplitInit
<1>2. Typed /\ SplitTypeOK
  BY <1>1, MaxCommandsAssumption DEF SplitInit, Typed, SplitTypeOK
<1>3. Closed /\ Opened
  BY <1>1, <1>2 DEF SplitInit, Closed, Opened, Open, Typed
<1> QED
  BY <1>2, <1>3 DEF SplitInit, SplitIInv, LinesPartition, BuiltinIsEmpty

LEMMA CutIInv ==
    ASSUME SplitIInv, Cut
    PROVE  SplitIInv'
<1>1. /\ Closed /\ Opened /\ Typed /\ SplitTypeOK
      /\ i \in 0..(n - 1) /\ n \in Nat /\ i \in Nat /\ p \in 0..i
      /\ EndsInNumber(i) /\ pc = "loop"
  BY MaxCommandsAssumption DEF SplitIInv, Cut, Typed, Closed
<1>2. /\ i' = i + 1 /\ p' = p + 1 /\ n' = n /\ skip' = skip /\ before' = before
      /\ pc' = "loop"
  BY <1>1 DEF Cut
<1>3. \A c : EndsInNumber(c)' <=> EndsInNumber(c)
  BY <1>2 DEF EndsInNumber
<1>4. /\ DOMAIN line_t' = 0..p /\ line_t'[p] = i
      /\ \A l \in 0..(p - 1) : line_t'[l] = line_t[l]
  <2>1. p \in Nat /\ DOMAIN line_t = 0..(p - 1) /\ line_t' = Put(line_t, p, i)
    BY <1>1 DEF Cut, Closed
  <2> QED
    BY <2>1, PutNext
<1>5. Open < n /\ Open \in 0..i
  BY <1>1 DEF Opened
<1>6. DOMAIN line_h = 0..p /\ line_h[p] = Open
  BY <1>1, <1>5 DEF Opened, Open
<1>7. /\ DOMAIN line_h' = IF i + 1 < n THEN 0..(p + 1) ELSE 0..p
      /\ \A l \in 0..p : line_h'[l] = line_h[l]
      /\ i + 1 < n => line_h'[p + 1] = i + 1
  <2>1. CASE i + 1 < n
    <3>1. /\ p + 1 \in Nat /\ DOMAIN line_h = 0..((p + 1) - 1)
          /\ line_h' = Put(line_h, p + 1, i + 1)
      BY <1>1, <1>6, <2>1 DEF Cut
    <3>2. /\ DOMAIN line_h' = 0..(p + 1) /\ line_h'[p + 1] = i + 1
          /\ \A l \in 0..((p + 1) - 1) : line_h'[l] = line_h[l]
      BY <3>1, PutNext
    <3> QED
      BY <1>1, <2>1, <3>2
  <2>2. CASE ~(i + 1 < n)
    BY <1>1, <1>6, <2>2 DEF Cut
  <2> QED
    BY <2>1, <2>2
<1>8. Open' = i + 1
  BY <1>1, <1>2, <1>4 DEF Open
<1>9. Closed'
  <2>1. ASSUME NEW l \in 0..p
        PROVE  /\ line_t'[l] \in 0..i
               /\ EndsInNumber(line_t'[l])
               /\ line_h'[l] \in 0..line_t'[l]
               /\ \A c \in line_h'[l]..line_t'[l] :
                        EndsInNumber(c) => c = line_t'[l]
    <3>1. CASE l = p
      BY <1>1, <1>4, <1>5, <1>6, <1>7, <3>1 DEF Opened
    <3>2. CASE l # p
      <4>1. /\ l \in 0..(p - 1) /\ line_t'[l] = line_t[l] /\ line_h'[l] = line_h[l]
        BY <1>1, <1>4, <1>7, <3>2
      <4>2. /\ line_t[l] \in 0..(i - 1)
            /\ EndsInNumber(line_t[l])
            /\ line_h[l] \in 0..line_t[l]
            /\ \A c \in line_h[l]..line_t[l] :
                    EndsInNumber(c) => c = line_t[l]
        BY <1>1, <4>1 DEF Closed
      <4> QED
        BY <1>1, <4>1, <4>2
    <3> QED
      BY <3>1, <3>2
  <2>2. ASSUME NEW l \in 1..p PROVE line_h'[l] = line_t'[l - 1] + 1
    <3>1. CASE l = p
      BY <1>1, <1>4, <1>6, <1>7, <3>1 DEF Open
    <3>2. CASE l # p
      BY <1>1, <1>4, <1>7, <3>2 DEF Closed
    <3> QED
      BY <3>1, <3>2
  <2> QED
    BY <1>1, <1>2, <1>3, <1>4, <2>1, <2>2 DEF Closed
<1>10. Opened'
  <2>1. line_h'[0] = 0
    BY <1>1, <1>7 DEF Opened
  <2> QED
    BY <1>1, <1>2, <1>7, <1>8, <2>1 DEF Opened
<1>11. Typed'
  BY <1>1, <1>2 DEF Typed
<1>12. SplitTypeOK'
  <2>1. \A l \in DOMAIN line_t' : line_t'[l] \in 0..(n - 1)
    BY <1>1, <1>2, <1>4, <1>9 DEF Closed
  <2>2. \A l \in DOMAIN line_h' : line_h'[l] \in 0..n /\ line_h'[l] < n
    <3> SUFFICES ASSUME NEW l \in DOMAIN line_h'
                 PROVE  line_h'[l] \in 0..n /\ line_h'[l] < n
      OBVIOUS
    <3>1. CASE l \in 0..p
      BY <1>1, <1>2, <1>9, <2>1, <1>4, <3>1 DEF Closed
    <3>2. CASE l \notin 0..p
      BY <1>1, <1>7, <3>2
    <3> QED
      BY <3>1, <3>2
  <2>3. n <= MaxCommands /\ MaxCommands \in Nat
    BY <1>1, MaxCommandsAssumption DEF Typed
  <2>4. \A l \in DOMAIN line_h' : l \in 0..(MaxCommands - 1)
    BY <1>1, <1>7, <2>3
  <2>5. \A l \in DOMAIN line_t' : l \in 0..(MaxCommands - 1)
    BY <1>1, <1>4, <2>3
  <2>6. p' \in 0..n
    BY <1>1, <1>2
  <2>7. \A l \in DOMAIN line_h' : line_h'[l] \in 0..(n - 1)
    BY <1>1, <2>2
  <2>8. \A l \in DOMAIN line_t' : line_t'[l] \in 0..(n - 1)
    BY <1>1, <2>1
  <2> QED
    BY <1>2, <1>11, <2>4, <2>5, <2>6, <2>7, <2>8 DEF SplitTypeOK, Typed
<1> QED
  BY <1>2, <1>9, <1>10, <1>11, <1>12 DEF SplitIInv, LinesPartition, BuiltinIsEmpty

LEMMA PassIInv ==
    ASSUME SplitIInv, Pass
    PROVE  SplitIInv'
<1>1. /\ Closed /\ Opened /\ Typed /\ SplitTypeOK
      /\ i \in 0..(n - 1) /\ n \in Nat /\ i \in Nat /\ p \in 0..i
      /\ ~EndsInNumber(i) /\ pc = "loop"
  BY MaxCommandsAssumption DEF SplitIInv, Pass, Typed, Closed
<1>2. i' = i + 1 /\ UNCHANGED <<n, skip, before, p, line_h, line_t, pc>>
  BY DEF Pass
<1>3. \A c : EndsInNumber(c)' <=> EndsInNumber(c)
  BY <1>2 DEF EndsInNumber
<1>4. Open' = Open
  BY <1>2 DEF Open
<1>5. Closed'
  BY <1>1, <1>2, <1>3 DEF Closed
<1>6. Opened'
  BY <1>1, <1>2, <1>3, <1>4 DEF Opened
<1>7. Typed' /\ SplitTypeOK'
  BY <1>1, <1>2 DEF Typed, SplitTypeOK
<1> QED
  BY <1>1, <1>2, <1>5, <1>6, <1>7 DEF SplitIInv, LinesPartition, BuiltinIsEmpty

LEMMA CloseIInv ==
    ASSUME SplitIInv, Close
    PROVE  SplitIInv'
<1>1. /\ Closed /\ Opened /\ Typed /\ SplitTypeOK /\ i = n /\ n \in Nat /\ p \in 0..n
      /\ line_t' = Put(line_t, p' - 1, n - 1) /\ pc' = "done"
      /\ UNCHANGED <<n, skip, before, i, line_h>>
  BY MaxCommandsAssumption DEF SplitIInv, Close, Typed, Closed
<1>2. \A c : EndsInNumber(c)' <=> EndsInNumber(c)
  BY <1>1 DEF EndsInNumber
<1>3. CASE EndsInNumber(n - 1) /\ n > 0
  <2>1. n > 0 /\ p' = p
    BY <1>1, <1>3 DEF Close
  <2>2. Open = n /\ p > 0 /\ line_t[p - 1] = n - 1
    BY <1>1, <1>3, <2>1 DEF Opened, Closed, Open
  <2>3. DOMAIN line_t' = 0..(p - 1) /\ \A l \in 0..(p - 1) : line_t'[l] = line_t[l]
    <3>1. p - 1 \in DOMAIN line_t /\ DOMAIN line_t = 0..(p - 1)
      BY <1>1, <2>2 DEF Closed
    <3>2. line_t' = Put(line_t, p - 1, line_t[p - 1])
      BY <1>1, <2>1, <2>2
    <3> QED
      BY <3>1, <3>2, PutAgain
  <2>4. DOMAIN line_h = 0..(p - 1)
    BY <1>1, <2>2 DEF Opened
  <2>5. LinesPartition'
    <3>1. \A l \in 0..(p - 1) : /\ line_h[l] <= line_t[l]
                                /\ EndsInNumber(line_t[l])
                                /\ \A c \in line_h[l]..line_t[l] :
                                        EndsInNumber(c) => c = line_t[l]
      BY <1>1 DEF Closed
    <3>2. \A l \in 1..(p - 1) : line_h[l] = line_t[l - 1] + 1
      BY <1>1 DEF Closed
    <3>3. \A l \in 0..(p - 1) : /\ line_h'[l] = line_h[l] /\ line_t'[l] = line_t[l]
                                /\ l - 1 \in 0..(p - 1) \/ l = 0
      BY <1>1, <2>3
    <3>4. /\ p' = p /\ n' = n /\ p - 1 \in 0..(p - 1) /\ line_h'[0] = 0
          /\ DOMAIN line_h' = 0..(p - 1) /\ DOMAIN line_t' = 0..(p - 1)
      BY <1>1, <2>1, <2>2, <2>3, <2>4 DEF Opened
    <3>5. \A l \in 0..(p - 1) : /\ line_h'[l] <= line_t'[l]
                                /\ EndsInNumber(line_t'[l])
                                /\ \A c \in line_h'[l]..line_t'[l] :
                                        EndsInNumber(c) => c = line_t'[l]
      BY <3>1, <3>3
    <3>6. \A l \in 1..(p - 1) : line_h'[l] = line_t'[l - 1] + 1
      BY <3>2, <3>3
    <3>7. line_t'[p - 1] = n - 1
      BY <2>2, <3>3, <3>4
    <3>8. \A l \in 0..(p - 2) : l \in 0..(p - 1)
      BY <1>1
    <3> QED
      BY <1>2, <2>2, <3>4, <3>5, <3>6, <3>7, <3>8 DEF LinesPartition
  <2>6. SplitTypeOK'
    BY <1>1, <2>1, <2>3, <2>4 DEF SplitTypeOK, Closed
  <2> QED
    BY <1>1, <2>1, <2>5, <2>6 DEF SplitIInv, Typed, BuiltinIsEmpty
<1>4. CASE ~EndsInNumber(n - 1)
  <2>1. p' = p + 1
    BY <1>1, <1>4 DEF Close
  <2>2. /\ DOMAIN line_t' = 0..p /\ line_t'[p] = n - 1
        /\ \A l \in 0..(p - 1) : line_t'[l] = line_t[l]
    <3>1. p \in Nat /\ DOMAIN line_t = 0..(p - 1) /\ line_t' = Put(line_t, p, n - 1)
      BY <1>1, <2>1 DEF Closed
    <3> QED
      BY <3>1, PutNext
  <2>3. CASE n > 0
    <3>1. Open < n
      <4>1. Open \in 0..n
        BY <1>1 DEF Opened
      <4>2. ASSUME Open = n PROVE FALSE
        <5>1. p > 0 /\ line_t[p - 1] + 1 = n
          BY <2>3, <4>2, <1>1 DEF Open
        <5>2. EndsInNumber(line_t[p - 1]) /\ line_t[p - 1] \in Int
          BY <1>1, <5>1 DEF Closed
        <5>3. line_t[p - 1] = n - 1
          BY <1>1, <5>1, <5>2
        <5> QED
          BY <1>4, <5>2, <5>3
      <4> QED
        BY <1>1, <4>1, <4>2
    <3>2. DOMAIN line_h = 0..p /\ line_h[p] = Open /\ Open \in 0..(n - 1)
      BY <1>1, <3>1 DEF Opened, Open
    <3>3. \A c \in Open..(n - 1) : ~EndsInNumber(c)
      BY <1>1 DEF Opened
    <3>4. ASSUME NEW l \in 0..p
          PROVE  /\ line_h[l] <= line_t'[l]
                 /\ \A c \in line_h[l]..line_t'[l] :
                        EndsInNumber(c) => c = line_t'[l]
      <4>1. CASE l = p
        <5>1. line_h[l] = Open /\ line_t'[l] = n - 1
          BY <1>1, <2>2, <3>2, <4>1
        <5>2. Open <= n - 1 /\ \A c \in Open..(n - 1) : ~EndsInNumber(c)
          BY <1>1, <3>2, <3>3
        <5> QED
          BY <5>1, <5>2
      <4>2. CASE l # p
        BY <1>1, <2>2, <4>2 DEF Closed
      <4> QED
        BY <4>1, <4>2
    <3>5. ASSUME NEW l \in 1..p PROVE line_h[l] = line_t'[l - 1] + 1
      <4>1. CASE l = p
        BY <1>1, <2>2, <3>2, <4>1 DEF Open
      <4>2. CASE l # p
        BY <1>1, <2>2, <4>2 DEF Closed
      <4> QED
        BY <4>1, <4>2
    <3>6. \A l \in 0..(p - 1) : EndsInNumber(line_t'[l])
      BY <1>1, <2>2 DEF Closed
    <3>7. LinesPartition'
      BY <1>1, <1>2, <2>1, <2>2, <2>3, <3>2, <3>4, <3>5, <3>6
      DEF LinesPartition, Opened
    <3>8. p < n
      <4>1. EndsInNumber(i - 1) => p # i
        BY <1>1, <1>4
      <4>2. i # 0
        BY <1>1, <2>3
      <4>3. p = i => EndsInNumber(i - 1)
        BY <1>1, <4>2 DEF Closed
      <4> QED
        BY <1>1, <4>1, <4>3
    <3>9. n <= MaxCommands /\ MaxCommands \in Nat
      BY <1>1, MaxCommandsAssumption DEF Typed
    <3>10. \A l \in 0..p : l \in 0..(MaxCommands - 1)
      BY <1>1, <3>8, <3>9
    <3>11. \A l \in 0..p : line_h[l] \in 0..(n - 1)
      <4>1. \A l \in DOMAIN line_h :
                line_h[l] \in 0..(n - 1) \/ (n = 0 /\ line_h[l] = 0)
        BY <1>1, Zenon DEF SplitTypeOK
      <4>2. n # 0
        BY <2>3
      <4> QED
        BY <3>2, <4>1, <4>2
    <3>12. \A l \in 0..p : line_t'[l] \in 0..(n - 1)
      <4> SUFFICES ASSUME NEW l \in 0..p PROVE line_t'[l] \in 0..(n - 1)
        OBVIOUS
      <4>1. CASE l = p
        BY <1>1, <2>2, <2>3, <4>1
      <4>2. CASE l # p
        <5>1. l \in 0..(p - 1) /\ line_t'[l] = line_t[l]
          BY <1>1, <2>2, <4>2
        <5>2. line_t[l] \in 0..(i - 1)
          BY <1>1, <5>1 DEF Closed
        <5> QED
          BY <1>1, <5>1, <5>2
      <4> QED
        BY <4>1, <4>2
    <3>13. p' \in 0..n
      BY <1>1, <2>1, <3>8
    <3>14. SplitTypeOK'
      BY <1>1, <2>2, <3>2, <3>10, <3>11, <3>12, <3>13 DEF SplitTypeOK
    <3> QED
      BY <1>1, <2>3, <3>7, <3>14 DEF SplitIInv, Typed, BuiltinIsEmpty
  <2>4. CASE n = 0
    <3>1. p = 0 /\ DOMAIN line_h = 0..0 /\ line_h[0] = 0
      BY <1>1, <2>4 DEF Opened
    <3>2. DOMAIN line_t' = 0..0 /\ line_t'[0] = -1
      BY <2>2, <2>4, <3>1
    <3>3. SplitTypeOK'
      BY <1>1, <2>1, <2>4, <3>1, <3>2 DEF SplitTypeOK
    <3> QED
      BY <1>1, <2>1, <2>4, <3>1, <3>2, <3>3
      DEF SplitIInv, Typed, LinesPartition, BuiltinIsEmpty
  <2> QED
    BY <1>1, <2>3, <2>4
<1>5. CASE EndsInNumber(n - 1) /\ n = 0
  <2>1. p = 0 /\ p' = 0 /\ before /\ DOMAIN line_t = 0..-1
    BY <1>1, <1>5 DEF Close, Closed, EndsInNumber
  <2>2. DOMAIN line_t' = {-1} /\ line_t'[-1] = -1
    BY <1>1, <1>5, <2>1 DEF Put
  <2>3. DOMAIN line_h = 0..0 /\ line_h[0] = 0
    BY <1>1, <2>1 DEF Opened
  <2>4. SplitTypeOK'
    BY <1>1, <1>5, <2>1, <2>2, <2>3, MaxCommandsAssumption DEF SplitTypeOK, Typed
  <2> QED
    BY <1>1, <1>5, <2>1, <2>4 DEF SplitIInv, Typed, LinesPartition, BuiltinIsEmpty
<1> QED
  BY <1>1, <1>3, <1>4, <1>5

LEMMA SplitNextIInv == SplitIInv /\ [SplitNext]_splitvars => SplitIInv'
<1>1. CASE UNCHANGED splitvars
  BY <1>1
  DEF splitvars, SplitIInv, Typed, Closed, Opened, Open, SplitTypeOK, LinesPartition,
      BuiltinIsEmpty, EndsInNumber
<1> QED
  BY <1>1, CutIInv, PassIInv, CloseIInv DEF SplitNext

(* The loop invariant: closed lines are cut right behind their numbers, and the *)
(* open one begins where the last ended.                                        *)
THEOREM SplitInductiveInvariant == SplitSpec => []SplitIInv
BY SplitInitIInv, SplitNextIInv, PTL DEF SplitSpec

(* In arrays of MaxCommands cells the loop stays inside, for every input of so  *)
(* many commands; only a built-in command of a server reads the cell before     *)
(* skip, and writes the one before line_t when it finds a number there.         *)
THEOREM SplitTypeCorrect == SplitSpec => []SplitTypeOK
<1>1. SplitIInv => SplitTypeOK
  BY DEF SplitIInv
<1> QED
  BY <1>1, SplitInductiveInvariant, PTL

(* Each command belongs to exactly one line, and lines end where |N says.       *)
THEOREM CutIsRight == SplitSpec => []LinesPartition
<1>1. SplitIInv => LinesPartition
  BY DEF SplitIInv
<1> QED
  BY <1>1, SplitInductiveInvariant, PTL

(* A built-in command of a server runs nothing, whatever lies before skip: it   *)
(* is one empty line, or no line at all if a number above 0 lies there.         *)
THEOREM BuiltinRunsNothing == SplitSpec => []BuiltinIsEmpty
<1>1. SplitIInv => BuiltinIsEmpty
  BY DEF SplitIInv
<1> QED
  BY <1>1, SplitInductiveInvariant, PTL

-----------------------------------------------------------------------------
(* The shell, from input to input.  Its steps are steps of one part at a time,  *)
(* except that an input starts the cut again.                                   *)
ShellIInv ==
    /\ IInv /\ SplitIInv
    /\ j \in Nat

LEMMA ShellInitInv == ShellInit => ShellIInv
BY InitIInv, SplitInitIInv DEF ShellInit, ShellIInv

(* The line that is run is one of those that were cut, with a number the list   *)
(* can take.                                                                    *)
LEMMA RunsALine ==
    ASSUME ShellIInv, RunCommands
    PROVE  \E nr \in 0..MaxSkip : CommandLine(nr)
<1> DEFINE c == line_t[j]
<1>1. pc = "done" /\ j \in 0..(p - 1) /\ p \in Int
  BY DEF RunCommands, Runs, ShellIInv, SplitIInv, SplitTypeOK
<1>2. j \in DOMAIN line_t
  <2>1. CASE n > 0
    BY <1>1, <2>1 DEF ShellIInv, SplitIInv, LinesPartition
  <2>2. CASE ~(n > 0)
    <3>1. n = 0
      BY <2>2 DEF ShellIInv, SplitIInv, SplitTypeOK
    <3> QED
      BY <1>1, <3>1 DEF ShellIInv, SplitIInv, BuiltinIsEmpty
  <2> QED
    BY <2>1, <2>2
<1>3. /\ c \in 0..(n - 1) /\ n \in Nat /\ skip \in [0..(n - 1) -> -1..MaxSkip]
  <2>1. n \in Nat /\ skip \in [0..(n - 1) -> -1..MaxSkip]
    BY DEF ShellIInv, SplitIInv, SplitTypeOK
  <2>2. c \in 0..(n - 1) \/ (n = 0 /\ c = -1)
    BY <1>2, Zenon DEF ShellIInv, SplitIInv, SplitTypeOK
  <2>3. n = 0 => line_h[j] = 0 /\ line_t[j] = -1
    BY <1>1 DEF ShellIInv, SplitIInv, BuiltinIsEmpty
  <2>4. n # 0
    BY <2>3, ~(0 <= -1) DEF RunCommands
  <2>5. c \in 0..(n - 1)
    BY <2>2, <2>4, Zenon
  <2> QED
    BY <2>1, <2>5
<1>4. EndsInNumber(c) => skip[c] \in 0..MaxSkip
  BY <1>3, MaxSkipAssumption DEF EndsInNumber
<1>5. 0 \in 0..MaxSkip
  BY MaxSkipAssumption
<1>6. CommandLine(IF EndsInNumber(c) THEN skip[c] ELSE 0)
  BY DEF RunCommands
<1> HIDE DEF c
<1> QED
  BY <1>4, <1>5, <1>6

(* An input starts the cut: what holds initially holds again.                   *)
LEMMA InputStarts ==
    ASSUME ShellIInv, Input
    PROVE  SplitInit'
BY DEF Input, SplitInit

(* Every step of the shell is one of its list of pipes, or leaves it alone.     *)
LEMMA ShellStepIsLine ==
    ASSUME ShellIInv, [ShellNext]_shellvars
    PROVE  [Next]_vars
<1>1. CASE Input \/ Split \/ UNCHANGED shellvars
  BY <1>1 DEF Input, Split, shellvars
<1>2. CASE RunCommands
  BY <1>2, RunsALine DEF Next
<1>3. CASE RunBuiltin
  BY <1>3 DEF RunBuiltin, Next
<1> QED
  BY <1>1, <1>2, <1>3 DEF ShellNext

LEMMA ShellNextInv == ShellIInv /\ [ShellNext]_shellvars => ShellIInv'
<1> SUFFICES ASSUME ShellIInv, [ShellNext]_shellvars PROVE ShellIInv'
  OBVIOUS
<1>1. IInv'
  BY ShellStepIsLine, NextIInv DEF ShellIInv
<1>2. SplitIInv'
  <2>1. CASE Input
    <3>1. SplitInit'
      BY <2>1, InputStarts
    <3>2. (SplitInit => SplitIInv)'
      BY SplitInitIInv, PTL
    <3> QED
      BY <3>1, <3>2
  <2>2. CASE Split \/ RunCommands \/ RunBuiltin \/ UNCHANGED shellvars
    <3>1. [SplitNext]_splitvars
      BY <2>2 DEF Split, RunCommands, RunBuiltin, Runs, shellvars
    <3> QED
      BY <3>1, SplitNextIInv DEF ShellIInv
  <2> QED
    BY <2>1, <2>2 DEF ShellNext
<1>3. j' \in Nat
  BY DEF ShellIInv, ShellNext, Input, Split, RunCommands, RunBuiltin, Runs, shellvars
<1> QED
  BY <1>1, <1>2, <1>3 DEF ShellIInv

(* The lines that a shell cuts and runs, input after input, keep everything     *)
(* that was shown of the cut and of the list of pipes.                          *)
THEOREM ShellIsRight ==
    ShellSpec => [](/\ TypeOK /\ NumbersDiffer /\ NothingOverdue
                    /\ SplitTypeOK /\ LinesPartition /\ BuiltinIsEmpty)
<1>1. ShellIInv => /\ TypeOK /\ NumbersDiffer /\ NothingOverdue
                   /\ SplitTypeOK /\ LinesPartition /\ BuiltinIsEmpty
  BY DEF ShellIInv, IInv, SplitIInv, TypeOK, IsList, NumbersDiffer, Differ
<1> QED
  BY <1>1, ShellInitInv, ShellNextInv, PTL DEF ShellSpec

(* Typed input after input, numbered pipes keep their appointments: the output  *)
(* of a line that ends in |N is read N lines later, however inputs were cut.    *)
THEOREM ShellKeepsSchedule == ShellSpec => KeepsSchedule
<1>1. ShellInit => Schedule!Init
  BY ListStarts DEF ShellInit
<1>2. ShellIInv /\ [ShellNext]_shellvars => [Schedule!Next]_<<lineno, Appointments, stdin>>
  BY ShellStepIsLine, ListStep DEF ShellIInv
<1> QED
  BY <1>1, <1>2, ShellInitInv, ShellNextInv, PTL DEF ShellSpec, KeepsSchedule, Schedule!Spec
=============================================================================
