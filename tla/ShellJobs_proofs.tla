-------------------------- MODULE ShellJobs_proofs --------------------------
(* Who holds which end of which pipe, for any lines, commands, processes and    *)
(* pipes.  The shell holds both ends of exactly the pipes that have no reader   *)
(* yet: those of its list, each once, and the one of the last command.  A fork  *)
(* hands the front pipe over in one step, so that a pipe that a process reads   *)
(* is never inherited by a younger one, and a pipe that is written is held      *)
(* either by the shell or by the process that it was for.                       *)
EXTENDS ShellJobs, SequenceTheorems, WellFoundedInduction, TLAPS

Numbered == {r.pipe : r \in future}

(* What is forked and opened stays within the bounds of the input.              *)
RoomForLine == nproc + Len(line) <= MaxProcs /\ npipe + Len(line) <= MaxPipes

(* B is the pipe between two commands of a line, and nothing else.              *)
BetweenCommands == (head <=> B = NoPipe) /\ (line = <<>> => head)

(* No two records have the same number or the same pipe, and B is in none.      *)
ListDiffers ==
    /\ \A r, s \in future : r.number = s.number \/ r.pipe = s.pipe => r = s
    /\ B \notin Numbered

(* Only pipes that were opened are held, read or written, and only by processes *)
(* that were forked.                                                            *)
OnlyOpened ==
    /\ Numbered \subseteq 1..npipe /\ B <= npipe
    /\ \A q \in 0..MaxProcs : fdR[q] \cup fdW[q] \subseteq 1..npipe
    /\ \A q \in 0..MaxProcs : q > nproc => fdR[q] = {} /\ fdW[q] = {}
    /\ \A p \in 1..nproc : proc[p].stdin <= npipe /\ proc[p].stdout <= npipe

(* The shell gives a pipe away with the process that reads it, which does not   *)
(* write the same pipe.                                                         *)
GivenAway ==
    \A p \in 1..nproc : proc[p].stdin # NoPipe =>
        proc[p].stdin \notin fdR[Shell] /\ proc[p].stdin # proc[p].stdout

(* A pipe that is written has its reader, or the shell still has it.            *)
Has(q, k) == proc[q].stdin = k /\ (proc[q].st = "done" \/ k \in fdR[q])
OutputKept ==
    \A p \in 1..nproc : proc[p].stdout # NoPipe =>
        proc[p].stdout \in fdR[Shell] \/ \E q \in 1..nproc : Has(q, proc[p].stdout)

Ends ==
    /\ RoomForLine
    /\ BetweenCommands
    /\ ListDiffers
    /\ OnlyOpened
    /\ GivenAway

IInv == TypeOK /\ Ends /\ ReadersWaitForOlder /\ OutputKept

-----------------------------------------------------------------------------
(* The list after the decrement at the head of a line.                          *)
LEMMA TickedIs ==
    ASSUME TypeOK, Ends
    PROVE  /\ Ticked \subseteq [number : Nat, pipe : Pipes]
           /\ ~head => Ticked = future
           /\ \A r \in future : \E s \in Ticked : s.pipe = r.pipe
           /\ \A s \in Ticked : \E r \in future : s.pipe = r.pipe
           /\ \A s, t \in Ticked : s.number = t.number \/ s.pipe = t.pipe => s = t
<1>1. \A r \in future : r \in [number : Nat \ {0}, pipe : Pipes]
  BY DEF TypeOK
<1>2. \A r, s \in future : r.number = s.number \/ r.pipe = s.pipe => r = s
  BY DEF Ends, ListDiffers
<1>3. CASE head
  <2>1. Ticked = {[r EXCEPT !.number = @ - 1] : r \in future}
    BY <1>3 DEF Ticked
  <2>2. ASSUME NEW r \in future
        PROVE  /\ [r EXCEPT !.number = @ - 1] \in [number : Nat, pipe : Pipes]
               /\ [r EXCEPT !.number = @ - 1].number = r.number - 1
               /\ [r EXCEPT !.number = @ - 1].pipe = r.pipe
    BY <1>1
  <2>3. ASSUME NEW s \in Ticked
        PROVE  \E r \in future : /\ s = [r EXCEPT !.number = @ - 1]
                                 /\ s \in [number : Nat, pipe : Pipes]
                                 /\ s.number = r.number - 1 /\ s.pipe = r.pipe
    BY <2>1, <2>2
  <2>4. ASSUME NEW s \in Ticked, NEW t \in Ticked,
               s.number = t.number \/ s.pipe = t.pipe
        PROVE  s = t
    <3>1. PICK r \in future : /\ s = [r EXCEPT !.number = @ - 1]
                              /\ s.number = r.number - 1 /\ s.pipe = r.pipe
      BY <2>3
    <3>2. PICK q \in future : /\ t = [q EXCEPT !.number = @ - 1]
                              /\ t.number = q.number - 1 /\ t.pipe = q.pipe
      BY <2>3
    <3>3. r.number \in Nat /\ q.number \in Nat
      BY <1>1
    <3>4. r.number = q.number \/ r.pipe = q.pipe
      BY <2>4, <3>1, <3>2, <3>3
    <3>. QED
      BY <1>2, <3>1, <3>2, <3>4
  <2>5. \A r \in future : \E s \in Ticked : s.pipe = r.pipe
    BY <2>1, <2>2
  <2>. QED
    BY <1>3, <2>3, <2>4, <2>5
<1>4. CASE ~head
  <2>1. Ticked = future
    BY <1>4 DEF Ticked
  <2>. QED
    BY <1>1, <1>2, <2>1
<1>. QED
  BY <1>3, <1>4

(* The front pipe is one that the shell has, and the only one that it gives up. *)
LEMMA FrontIs ==
    ASSUME TypeOK, Ends
    PROVE  /\ Front \in 0..npipe
           /\ Front # NoPipe => Front \in fdR[Shell]
           /\ {s.pipe : s \in Ticked \ DueNow} = fdR[Shell] \ {Front}
<1>0. /\ fdR[Shell] = Numbered \cup ({B} \ {NoPipe})
      /\ head => B = NoPipe
      /\ B \notin Numbered /\ B \in 0..npipe /\ npipe \in Nat
      /\ Numbered \subseteq 1..npipe
  BY BoundsAssumption DEF TypeOK, Numbered, Ends, BetweenCommands, ListDiffers, OnlyOpened,
        Pipes, NoPipe
<1>1. {s.pipe : s \in Ticked} = Numbered
  BY TickedIs DEF Numbered
<1>2. CASE ~head
  <2>1. DueNow = {} /\ Front = B
    BY <1>2 DEF DueNow, Front
  <2>2. B # NoPipe
    BY <1>2 DEF Ends, BetweenCommands
  <2>. QED
    BY <1>0, <1>1, <2>1, <2>2
<1>3. CASE head /\ DueNow = {}
  <2>1. Front = NoPipe
    BY <1>3 DEF Front
  <2>2. NoPipe \notin Numbered /\ NoPipe \in 0..npipe
    BY <1>0 DEF NoPipe
  <2>. QED
    BY <1>0, <1>1, <1>3, <2>1, <2>2
<1>4. CASE head /\ DueNow # {}
  <2>1. PICK r \in DueNow : Front = r.pipe
    BY <1>4 DEF Front
  <2>2. DueNow = {r}
    <3>1. \A s \in DueNow : s \in Ticked /\ s.number = 0
      BY <1>4 DEF DueNow
    <3>. QED
      BY <2>1, <3>1, TickedIs
  <2>3. r \in Ticked
    BY <1>4, <2>1 DEF DueNow
  <2>4. \A s \in Ticked : s.pipe = r.pipe => s = r
    BY <2>3, TickedIs
  <2>5. r.pipe \in Numbered
    BY <1>1, <2>3
  <2>6. {s.pipe : s \in Ticked \ DueNow} = Numbered \ {r.pipe}
    BY <1>1, <2>2, <2>3, <2>4
  <2>7. B = NoPipe /\ {B} \ {NoPipe} = {}
    BY <1>0, <1>4
  <2>8. fdR[Shell] = Numbered
    BY <1>0, <2>7
  <2>9. Front \in fdR[Shell] /\ {s.pipe : s \in Ticked \ DueNow} = fdR[Shell] \ {Front}
    BY <2>1, <2>5, <2>6, <2>8
  <2>10. Front \in 1..npipe
    BY <1>0, <2>1, <2>5
  <2>. QED
    BY <1>0, <2>9, <2>10
<1>. QED
  BY <1>2, <1>3, <1>4

(* The rear pipe is a new one, or one of the list that stays there.             *)
LEMMA RearIs ==
    ASSUME TypeOK, Ends, line # <<>>
    PROVE  /\ OpensPipe => Rear = npipe + 1
           /\ ~OpensPipe /\ Rear # NoPipe => Rear \in fdR[Shell] \ {Front}
           /\ ~OpensPipe => Rear \in 0..npipe
<1>1. CASE OpensPipe
  BY <1>1 DEF Rear
<1>2. CASE ~OpensPipe /\ Head(line).skip > 0
  <2>1. Same # {} /\ Rear = (CHOOSE r \in Same : TRUE).pipe
    BY <1>2 DEF OpensPipe, Rear
  <2>2. PICK r \in Same : Rear = r.pipe
    BY <2>1
  <2>3. r \in Ticked \ DueNow
    BY DEF Same
  <2>4. Rear \in fdR[Shell] \ {Front}
    BY <2>2, <2>3, FrontIs
  <2>5. fdR[Shell] \subseteq 1..npipe /\ npipe \in Nat
    BY BoundsAssumption DEF TypeOK, Ends, OnlyOpened, Shell
  <2>. QED
    BY <1>2, <2>4, <2>5
<1>3. CASE ~OpensPipe /\ ~(Head(line).skip > 0)
  <2>1. Rear = NoPipe
    BY <1>3 DEF Rear
  <2>. QED
    BY <1>3, <2>1 DEF NoPipe, TypeOK
<1>. QED
  BY <1>1, <1>2, <1>3

LEMMA LineIs ==
    ASSUME TypeOK, line # <<>>
    PROVE  /\ Head(line) \in Commands
           /\ Tail(line) \in Seq(Commands)
           /\ Len(line) \in Nat /\ Len(line) > 0 /\ Len(Tail(line)) = Len(line) - 1
           /\ Len(line) = 1 <=> Tail(line) = <<>>
<1>1. line \in Seq(Commands)
  BY DEF TypeOK
<1>2. /\ Head(line) \in Commands /\ Tail(line) \in Seq(Commands)
      /\ Len(Tail(line)) = Len(line) - 1
  BY <1>1, HeadTailProperties
<1>3. Len(line) \in Nat /\ Len(line) > 0
  BY <1>1, EmptySeq, LenProperties
<1>4. Len(Tail(line)) = 0 <=> Tail(line) = <<>>
  BY <1>2, EmptySeq
<1>. QED
  BY <1>2, <1>3, <1>4

LEMMA ProcIs ==
    ASSUME TypeOK
    PROVE  /\ nproc \in Nat /\ proc \in Seq(Processes) /\ DOMAIN proc = 1..nproc
           /\ \A p \in 1..nproc : proc[p] \in Processes
BY LenProperties, ElementOfSeq DEF TypeOK, nproc

(* What a fork does to the ends that are held, and to the list.                 *)
Opened == IF OpensPipe THEN {npipe + 1} ELSE {}
Forked == [st |-> "forked", stdin |-> Front, stdout |-> Rear,
           reads |-> Head(line).reads, owes |-> Head(line).out]

LEMMA ForkDoes ==
    ASSUME TypeOK, Ends, Fork
    PROVE  /\ line # <<>> /\ waiting = Shell
           /\ nproc + 1 \in 1..MaxProcs /\ nproc \in Nat /\ npipe \in Nat
           /\ npipe' = npipe + (IF OpensPipe THEN 1 ELSE 0) /\ npipe' \in 0..MaxPipes
           /\ proc' = Append(proc, Forked) /\ Forked \in Processes
           /\ fdR' \in [0..MaxProcs -> SUBSET Pipes]
           /\ fdW' \in [0..MaxProcs -> SUBSET Pipes]
           /\ fdR'[Shell] = (fdR[Shell] \cup Opened) \ {Front} /\ fdW'[Shell] = fdR'[Shell]
           /\ fdR'[nproc + 1] = fdR[Shell] \cup Opened
           /\ fdW'[nproc + 1] = fdR[Shell] \cup Opened
           /\ \A q \in 1..MaxProcs : q # nproc + 1 => fdR'[q] = fdR[q] /\ fdW'[q] = fdW[q]
<1>1. line # <<>> /\ waiting = Shell
  BY DEF Fork
<1>2. /\ Len(line) \in Nat /\ Len(line) > 0 /\ nproc \in Nat /\ npipe \in Nat
      /\ nproc + 1 \in 1..MaxProcs /\ npipe + 1 \in 1..MaxPipes
  <2>1. Len(line) \in Nat /\ Len(line) > 0
    BY <1>1, LineIs
  <2>2. nproc \in Nat
    BY ProcIs
  <2>3. npipe \in Nat
    BY BoundsAssumption DEF TypeOK
  <2>4. nproc + Len(line) <= MaxProcs /\ npipe + Len(line) <= MaxPipes
    BY DEF Ends, RoomForLine
  <2>. HIDE DEF nproc
  <2>. QED
    BY <2>1, <2>2, <2>3, <2>4, BoundsAssumption
<1>3. npipe' = npipe + (IF OpensPipe THEN 1 ELSE 0)
  BY DEF Fork
<1>4. npipe' \in 0..MaxPipes
  BY <1>2, <1>3, BoundsAssumption
<1>5. Front \in Pipes \cup {NoPipe} /\ Rear \in Pipes \cup {NoPipe}
  <2>1. Front \in 0..npipe /\ Rear \in 0..(npipe + 1)
    BY <1>1, <1>2, FrontIs, RearIs
  <2>. QED
    BY <2>1, <1>2, BoundsAssumption DEF Pipes, NoPipe
<1>6. Forked \in Processes
  BY <1>1, <1>5, LineIs DEF Forked, Processes, Commands
<1>7. proc' = Append(proc, Forked)
  BY DEF Fork, Forked
<1>8. Opened \subseteq Pipes
  BY <1>2 DEF Opened, Pipes
<1>9. /\ fdR \in [0..MaxProcs -> SUBSET Pipes] /\ fdW \in [0..MaxProcs -> SUBSET Pipes]
      /\ fdW[Shell] = fdR[Shell]
  BY DEF TypeOK
<1>10. /\ fdR' = [fdR EXCEPT ![Shell] = (fdR[Shell] \cup Opened) \ {Front},
                             ![nproc + 1] = fdR[Shell] \cup Opened]
       /\ fdW' = [fdW EXCEPT ![Shell] = (fdW[Shell] \cup Opened) \ {Front},
                             ![nproc + 1] = fdW[Shell] \cup Opened]
  BY DEF Fork, KeptByShell, Opened
<1>11. Shell \in 0..MaxProcs /\ nproc + 1 \in 0..MaxProcs /\ Shell # nproc + 1
       /\ \A q \in 1..MaxProcs : q \in 0..MaxProcs /\ q # Shell
  BY <1>2, BoundsAssumption DEF Shell
<1>12. /\ fdR' \in [0..MaxProcs -> SUBSET Pipes]
       /\ fdR'[Shell] = (fdR[Shell] \cup Opened) \ {Front}
       /\ fdR'[nproc + 1] = fdR[Shell] \cup Opened
       /\ \A q \in 1..MaxProcs : q # nproc + 1 => fdR'[q] = fdR[q]
  BY <1>8, <1>9, <1>10, <1>11
<1>13. /\ fdW' \in [0..MaxProcs -> SUBSET Pipes]
       /\ fdW'[Shell] = (fdW[Shell] \cup Opened) \ {Front}
       /\ fdW'[nproc + 1] = fdW[Shell] \cup Opened
       /\ \A q \in 1..MaxProcs : q # nproc + 1 => fdW'[q] = fdW[q]
  BY <1>8, <1>9, <1>10, <1>11
<1>. QED
  BY <1>1, <1>2, <1>3, <1>4, <1>6, <1>7, <1>9, <1>12, <1>13

(* The list after a fork: the record that was due is gone, one may be new.      *)
LEMMA ForkList ==
    ASSUME TypeOK, Ends, Fork
    PROVE  /\ future' \subseteq [number : Nat \ {0}, pipe : Pipes]
           /\ ListDiffers' /\ BetweenCommands'
           /\ Numbered' \cup ({B'} \ {NoPipe}) = fdR'[Shell]
           /\ B' \in 0..npipe'
<1> DEFINE kept == Ticked \ DueNow
           skip == Head(line).skip
           new == [number |-> skip, pipe |-> npipe + 1]
<1>1. /\ line # <<>> /\ npipe \in Nat /\ npipe' = npipe + (IF OpensPipe THEN 1 ELSE 0)
      /\ fdR'[Shell] = (fdR[Shell] \cup Opened) \ {Front}
  BY ForkDoes
<1>2. npipe + 1 \in Pipes
  BY <1>1, LineIs, BoundsAssumption DEF Ends, RoomForLine, Pipes
<1>3. skip \in Int
  BY <1>1, LineIs DEF Commands
<1>4. kept \subseteq [number : Nat \ {0}, pipe : Pipes]
  <2>1. \A s \in Ticked : s \in [number : Nat, pipe : Pipes]
    BY TickedIs
  <2>2. CASE head
    <3>1. \A s \in kept : s \in Ticked /\ s.number # 0
      BY <2>2 DEF DueNow
    <3>. QED
      BY <2>1, <3>1
  <2>3. CASE ~head
    BY <2>3, TickedIs DEF TypeOK
  <2>. QED
    BY <2>2, <2>3
<1>5. \A r, s \in kept : r.number = s.number \/ r.pipe = s.pipe => r = s
  BY TickedIs
<1>6. /\ {s.pipe : s \in kept} = fdR[Shell] \ {Front}
      /\ fdR[Shell] \subseteq 1..npipe /\ Front \in 0..npipe
  <2>1. {s.pipe : s \in kept} = fdR[Shell] \ {Front} /\ Front \in 0..npipe
    BY FrontIs
  <2>2. Shell \in 0..MaxProcs
    BY BoundsAssumption DEF Shell
  <2>3. \A q \in 0..MaxProcs : fdR[q] \cup fdW[q] \subseteq 1..npipe
    BY DEF Ends, OnlyOpened
  <2>. QED
    BY <2>1, <2>2, <2>3
<1>7. \A s \in kept : s.pipe # npipe + 1
  <2>1. \A s \in kept : s.pipe \in fdR[Shell]
    BY <1>6
  <2>2. npipe + 1 \notin fdR[Shell]
    BY <1>1, <1>6
  <2>. QED
    BY <2>1, <2>2
<1>8. /\ future' = kept \cup {r \in {new} : skip > 0 /\ Same = {}}
      /\ B' = (IF IsTail THEN NoPipe ELSE Rear) /\ head' = IsTail /\ line' = Tail(line)
  BY DEF Fork
<1> HIDE DEF kept, skip
<1>9. npipe + 1 # NoPipe /\ npipe + 1 # Front /\ npipe + 1 \notin fdR[Shell]
  BY <1>1, <1>6 DEF NoPipe
<1>10. CASE skip > 0 /\ Same = {}
  <2>1. OpensPipe /\ IsTail
    BY <1>10 DEF OpensPipe, IsTail, skip
  <2>2. future' = kept \cup {new} /\ B' = NoPipe /\ head'
    BY <1>8, <1>10, <2>1
  <2>3. new.number = skip /\ new.pipe = npipe + 1 /\ new \in [number : Nat \ {0}, pipe : Pipes]
    BY <1>2, <1>3, <1>10
  <2>4. \A s \in kept : s.number # skip
    BY <1>10 DEF Same, kept, skip
  <2>5. \A r, s \in future' : r.number = s.number \/ r.pipe = s.pipe => r = s
    BY <1>5, <1>7, <2>2, <2>3, <2>4
  <2>6. Numbered' = (fdR[Shell] \ {Front}) \cup {npipe + 1}
    BY <1>6, <2>2, <2>3 DEF Numbered
  <2>7. NoPipe \notin Numbered'
    BY <1>6, <1>9, <2>6 DEF NoPipe
  <2>8. fdR'[Shell] = (fdR[Shell] \ {Front}) \cup {npipe + 1}
    BY <1>1, <1>9, <2>1 DEF Opened
  <2>9. ListDiffers' /\ BetweenCommands'
    BY <2>2, <2>5, <2>7 DEF ListDiffers, BetweenCommands
  <2>10. B' \in 0..npipe' /\ future' \subseteq [number : Nat \ {0}, pipe : Pipes]
    BY <1>1, <1>4, <2>1, <2>2, <2>3 DEF NoPipe
  <2>. QED
    BY <2>2, <2>6, <2>8, <2>9, <2>10
<1>11. CASE ~(skip > 0 /\ Same = {})
  <2>1. future' = kept
    BY <1>8, <1>11
  <2>2. Numbered' = fdR[Shell] \ {Front}
    BY <1>6, <2>1 DEF Numbered
  <2>3. OpensPipe <=> ~IsTail
    BY <1>11 DEF OpensPipe, skip
  <2>4. \A r, s \in future' : r.number = s.number \/ r.pipe = s.pipe => r = s
    BY <1>5, <2>1
  <2>5. CASE IsTail
    <3>1. B' = NoPipe /\ head' /\ Opened = {} /\ npipe' = npipe
      BY <1>1, <1>8, <2>3, <2>5 DEF Opened
    <3>2. NoPipe \notin Numbered'
      BY <1>6, <2>2 DEF NoPipe
    <3>3. fdR'[Shell] = fdR[Shell] \ {Front}
      BY <1>1, <3>1
    <3>4. ListDiffers' /\ BetweenCommands'
      BY <2>4, <3>1, <3>2 DEF ListDiffers, BetweenCommands
    <3>5. B' \in 0..npipe' /\ future' \subseteq [number : Nat \ {0}, pipe : Pipes]
      BY <1>1, <1>4, <2>1, <3>1 DEF NoPipe
    <3>. QED
      BY <2>2, <3>1, <3>3, <3>4, <3>5
  <2>6. CASE ~IsTail
    <3>1. B' = npipe + 1 /\ ~head' /\ Opened = {npipe + 1} /\ npipe' = npipe + 1
      BY <1>1, <1>8, <2>3, <2>6, RearIs DEF Opened
    <3>2. npipe + 1 \notin Numbered'
      BY <1>9, <2>2
    <3>3. fdR'[Shell] = (fdR[Shell] \ {Front}) \cup {npipe + 1}
      BY <1>1, <1>9, <3>1
    <3>4. Tail(line) # <<>>
      BY <1>1, <2>6, LineIs DEF IsTail
    <3>5. ListDiffers' /\ BetweenCommands'
      BY <1>8, <1>9, <2>4, <3>1, <3>2, <3>4 DEF ListDiffers, BetweenCommands
    <3>6. B' \in 0..npipe' /\ future' \subseteq [number : Nat \ {0}, pipe : Pipes]
      BY <1>1, <1>4, <2>1, <3>1
    <3>. QED
      BY <2>2, <3>1, <3>3, <3>5, <3>6, <1>9
  <2>. QED
    BY <2>5, <2>6
<1>. QED
  BY <1>10, <1>11

-----------------------------------------------------------------------------
LEMMA InitInv == Init => IInv
<1>. SUFFICES ASSUME Init PROVE IInv
  OBVIOUS
<1>1. /\ line = <<>> /\ head = TRUE /\ B = 0 /\ future = {} /\ waiting = 0
      /\ fdR = [q \in 0..MaxProcs |-> {}] /\ fdW = [q \in 0..MaxProcs |-> {}]
      /\ fill = [k \in Pipes |-> 0] /\ proc = <<>> /\ npipe = 0
  BY DEF Init, NoPipe, Shell
<1>2. nproc = 0 /\ 1..nproc = {} /\ Len(line) = 0
  BY <1>1, EmptySeq DEF nproc
<1>3. 0 \in 0..MaxProcs /\ 0 \in 0..MaxPipes /\ 0 \in 0..Capacity
  BY BoundsAssumption
<1>4. fdR[Shell] = {} /\ fdW[Shell] = {} /\ Numbered = {}
  BY <1>1, <1>3 DEF Shell, Numbered
<1>5. TypeOK
  <2>1. line \in Seq(Commands) /\ proc \in Seq(Processes)
    BY <1>1, EmptySeq
  <2>2. fdR[Shell] = {r.pipe : r \in future} \cup ({B} \ {NoPipe})
    BY <1>1, <1>4 DEF NoPipe, Numbered
  <2>3. /\ fdR \in [0..MaxProcs -> SUBSET Pipes] /\ fdW \in [0..MaxProcs -> SUBSET Pipes]
        /\ fill \in [Pipes -> 0..Capacity]
    BY <1>1, <1>3
  <2>4. future \subseteq [number : Nat \ {0}, pipe : Pipes]
    BY <1>1
  <2>5. B \in Pipes \cup {NoPipe} /\ waiting \in 0..nproc /\ head \in BOOLEAN
    BY <1>1, <1>2 DEF NoPipe
  <2>. HIDE DEF nproc
  <2>. QED
    BY <1>1, <1>3, <1>4, <2>1, <2>2, <2>3, <2>4, <2>5 DEF TypeOK
<1>6. RoomForLine /\ BetweenCommands /\ ListDiffers /\ GivenAway
  BY <1>1, <1>2, <1>4, BoundsAssumption
      DEF RoomForLine, BetweenCommands, ListDiffers, GivenAway, NoPipe
<1>7. OnlyOpened
  <2>1. \A q \in 0..MaxProcs : fdR[q] = {} /\ fdW[q] = {}
    BY <1>1
  <2>. QED
    BY <1>1, <1>2, <1>4, <2>1 DEF OnlyOpened
<1>8. ReadersWaitForOlder /\ OutputKept
  BY <1>2 DEF ReadersWaitForOlder, OutputKept
<1>. QED
  BY <1>5, <1>6, <1>7, <1>8 DEF IInv, Ends

-----------------------------------------------------------------------------
(* A fork.  The front pipe leaves the shell: the new process is the youngest,   *)
(* and no process that reads one of the older pipes is affected.                *)
LEMMA ForkInv ==
    ASSUME IInv, Fork
    PROVE  IInv'
<1> DEFINE n == nproc + 1
<1>1. TypeOK /\ Ends /\ ReadersWaitForOlder /\ OutputKept
  BY DEF IInv
<1>2. /\ line # <<>> /\ waiting = Shell
      /\ n \in 1..MaxProcs /\ nproc \in Nat /\ npipe \in Nat
      /\ npipe' = npipe + (IF OpensPipe THEN 1 ELSE 0) /\ npipe' \in 0..MaxPipes
      /\ proc' = Append(proc, Forked) /\ Forked \in Processes
      /\ fdR' \in [0..MaxProcs -> SUBSET Pipes]
      /\ fdW' \in [0..MaxProcs -> SUBSET Pipes]
      /\ fdR'[Shell] = (fdR[Shell] \cup Opened) \ {Front} /\ fdW'[Shell] = fdR'[Shell]
      /\ fdR'[n] = fdR[Shell] \cup Opened
      /\ fdW'[n] = fdR[Shell] \cup Opened
      /\ \A q \in 1..MaxProcs : q # n => fdR'[q] = fdR[q] /\ fdW'[q] = fdW[q]
  BY <1>1, ForkDoes
<1>3. /\ future' \subseteq [number : Nat \ {0}, pipe : Pipes]
      /\ ListDiffers' /\ BetweenCommands'
      /\ Numbered' \cup ({B'} \ {NoPipe}) = fdR'[Shell]
      /\ B' \in 0..npipe'
  BY <1>1, ForkList
<1>4. /\ proc \in Seq(Processes) /\ nproc = Len(proc)
      /\ Len(proc') = n /\ nproc' = n /\ proc' \in Seq(Processes)
      /\ proc'[n] = Forked
      /\ \A p \in 1..nproc : proc'[p] = proc[p]
  <2>1. proc \in Seq(Processes) /\ nproc = Len(proc)
    BY <1>1 DEF TypeOK, nproc
  <2>2. /\ Append(proc, Forked) \in Seq(Processes)
        /\ Len(Append(proc, Forked)) = Len(proc) + 1
        /\ Append(proc, Forked)[Len(proc) + 1] = Forked
        /\ \A i \in 1..Len(proc) : Append(proc, Forked)[i] = proc[i]
    BY <1>2, <2>1, AppendProperties
  <2>3. nproc' = Len(proc')
    BY DEF nproc
  <2>. QED
    BY <1>2, <2>1, <2>2, <2>3
<1>5. \A p \in 1..n : p \in 1..nproc \/ p = n
  BY <1>2
<1>6. Front \in 0..npipe /\ (Front # NoPipe => Front \in fdR[Shell])
  BY <1>1, FrontIs
<1>7. /\ OpensPipe => Rear = npipe + 1
      /\ ~OpensPipe /\ Rear # NoPipe => Rear \in fdR[Shell] \ {Front}
      /\ ~OpensPipe => Rear \in 0..npipe
  BY <1>1, <1>2, RearIs
<1>8. Forked.stdin = Front /\ Forked.stdout = Rear /\ Forked.st = "forked"
  BY DEF Forked
<1>9. Rear # NoPipe => Rear \in fdR'[Shell] /\ Rear # Front
  <2>1. CASE OpensPipe
    BY <1>2, <1>6, <1>7, <2>1 DEF Opened
  <2>2. CASE ~OpensPipe
    BY <1>2, <1>7, <2>2
  <2>. QED
    BY <2>1, <2>2
<1>10. \A p \in 1..nproc : p \in 1..MaxProcs /\ p \in 0..MaxProcs /\ p # n /\ p # Shell
  BY <1>2, BoundsAssumption DEF Shell
<1>11. Shell \in 0..MaxProcs /\ n \in 0..MaxProcs /\ Shell # n
  BY <1>2, BoundsAssumption DEF Shell
<1>12. \A q \in 0..MaxProcs : q = Shell \/ q = n \/ (q \in 1..MaxProcs /\ q # n)
  BY BoundsAssumption DEF Shell
<1>13. \A p \in 1..nproc : proc[p].stdin <= npipe /\ proc[p].stdout <= npipe
  BY <1>1 DEF Ends, OnlyOpened
<1>14. \A p \in 1..nproc : proc[p].stdin # NoPipe =>
          /\ proc[p].stdin \notin fdR[Shell] \cup Opened
          /\ proc[p].stdin # Front
          /\ proc[p].stdin # proc[p].stdout
  <2>. SUFFICES ASSUME NEW p \in 1..nproc, proc[p].stdin # NoPipe
                PROVE  /\ proc[p].stdin \notin fdR[Shell] \cup Opened
                       /\ proc[p].stdin # Front
                       /\ proc[p].stdin # proc[p].stdout
    OBVIOUS
  <2>1. proc[p].stdin \notin fdR[Shell] /\ proc[p].stdin # proc[p].stdout
    BY <1>1 DEF Ends, GivenAway
  <2>2. proc[p].stdin <= npipe /\ proc[p].stdin \in Int
    BY <1>1, <1>13, ProcIs DEF Processes, Pipes, NoPipe
  <2>3. proc[p].stdin \notin Opened
    BY <1>2, <2>2 DEF Opened
  <2>. QED
    BY <1>6, <2>1, <2>3
<1> HIDE DEF n
<1>15. GivenAway'
  <2>. SUFFICES ASSUME NEW p \in 1..n, proc'[p].stdin # NoPipe
                PROVE  proc'[p].stdin \notin fdR'[Shell] /\ proc'[p].stdin # proc'[p].stdout
    BY <1>4 DEF GivenAway
  <2>1. CASE p \in 1..nproc
    BY <1>2, <1>4, <1>14, <2>1
  <2>2. CASE p = n
    BY <1>2, <1>4, <1>8, <1>9, <2>2
  <2>. QED
    BY <1>5, <2>1, <2>2
<1>16. TypeOK'
  <2>1. line' \in Seq(Commands) /\ head' \in BOOLEAN
    BY <1>1, <1>2, LineIs DEF Fork, IsTail
  <2>2. waiting' \in 0..n
    BY <1>2 DEF Fork, WaitsFor, Shell, n
  <2>3. B' \in Pipes \cup {NoPipe}
    BY <1>2, <1>3, BoundsAssumption DEF Pipes, NoPipe
  <2>4. fill' \in [Pipes -> 0..Capacity]
    BY <1>1 DEF TypeOK, Fork
  <2>5. fdR'[Shell] = {r.pipe : r \in future'} \cup ({B'} \ {NoPipe})
    BY <1>3 DEF Numbered
  <2>. QED
    BY <1>2, <1>3, <1>4, <2>1, <2>2, <2>3, <2>4, <2>5 DEF TypeOK
<1>17. RoomForLine'
  <2>1. /\ Len(line) \in Nat /\ Len(Tail(line)) = Len(line) - 1
    BY <1>1, <1>2, LineIs
  <2>2. nproc + Len(line) <= MaxProcs /\ npipe + Len(line) <= MaxPipes
    BY <1>1 DEF Ends, RoomForLine
  <2>3. line' = Tail(line) /\ nproc' = nproc + 1
    BY <1>4 DEF Fork, n
  <2>4. nproc' + Len(line') <= MaxProcs
    BY <1>2, <2>1, <2>2, <2>3, BoundsAssumption
  <2>5. npipe' + Len(line') <= MaxPipes
    BY <1>2, <2>1, <2>2, <2>3, BoundsAssumption
  <2>. QED
    BY <2>4, <2>5 DEF RoomForLine
<1>18. OnlyOpened'
  <2>1. npipe <= npipe' /\ Opened \subseteq 1..npipe' /\ \A k \in 1..npipe : k \in 1..npipe'
    BY <1>2 DEF Opened
  <2>2. \A q \in 0..MaxProcs : fdR[q] \cup fdW[q] \subseteq 1..npipe
    BY <1>1 DEF Ends, OnlyOpened
  <2>3. \A q \in 0..MaxProcs : fdR'[q] \cup fdW'[q] \subseteq 1..npipe'
    <3>. SUFFICES ASSUME NEW q \in 0..MaxProcs
                  PROVE  fdR'[q] \subseteq 1..npipe' /\ fdW'[q] \subseteq 1..npipe'
      OBVIOUS
    <3>1. CASE q = Shell \/ q = n
      BY <1>2, <1>11, <2>1, <2>2, <3>1
    <3>2. CASE q \in 1..MaxProcs /\ q # n
      BY <1>2, <2>1, <2>2, <3>2
    <3>. QED
      BY <1>12, <3>1, <3>2
  <2>4. \A q \in 0..MaxProcs : q > n => fdR'[q] = {} /\ fdW'[q] = {}
    <3>. SUFFICES ASSUME NEW q \in 0..MaxProcs, q > n
                  PROVE  fdR'[q] = {} /\ fdW'[q] = {}
      OBVIOUS
    <3>1. q > nproc /\ q # n /\ q \in 1..MaxProcs
      BY <1>2 DEF n
    <3>2. fdR[q] = {} /\ fdW[q] = {}
      BY <1>1, <3>1 DEF Ends, OnlyOpened
    <3>. QED
      BY <1>2, <3>1, <3>2
  <2>5. \A p \in 1..n : proc'[p].stdin <= npipe' /\ proc'[p].stdout <= npipe'
    <3>. SUFFICES ASSUME NEW p \in 1..n
                  PROVE  proc'[p].stdin <= npipe' /\ proc'[p].stdout <= npipe'
      OBVIOUS
    <3>1. CASE p \in 1..nproc
      <4>1. proc[p].stdin \in Int /\ proc[p].stdout \in Int
        BY <1>1, <3>1, ProcIs DEF Processes, Pipes, NoPipe
      <4>. QED
        BY <1>2, <1>4, <1>13, <2>1, <3>1, <4>1
    <3>2. CASE p = n
      BY <1>2, <1>4, <1>6, <1>7, <1>8, <3>2
    <3>. QED
      BY <1>5, <3>1, <3>2
  <2>6. Numbered' \subseteq 1..npipe'
    BY <1>3, <1>11, <2>3
  <2>7. B' <= npipe'
    BY <1>2, <1>3
  <2>. QED
    BY <1>4, <2>3, <2>4, <2>5, <2>6, <2>7 DEF OnlyOpened
<1>19. ReadersWaitForOlder'
  <2>. SUFFICES ASSUME NEW p \in 1..n, proc'[p].stdin # NoPipe
                PROVE  /\ \A q \in 1..n : proc'[q].stdin = proc'[p].stdin => q = p
                       /\ \A q \in 0..MaxProcs :
                             proc'[p].stdin \in fdR'[q] \cup fdW'[q] => q \in 1..p
                       /\ proc'[p].st # "forked" => proc'[p].stdin \notin fdW'[p]
    BY <1>4 DEF ReadersWaitForOlder, Readers, Writers
  <2>1. CASE p \in 1..nproc
    <3>1. proc'[p] = proc[p] /\ proc[p].stdin # NoPipe
      BY <1>4, <2>1
    <3>2. /\ \A q \in 1..nproc : proc[q].stdin = proc[p].stdin => q = p
          /\ \A q \in 0..MaxProcs : proc[p].stdin \in fdR[q] \cup fdW[q] => q \in 1..p
          /\ proc[p].st # "forked" => proc[p].stdin \notin fdW[p]
      BY <1>1, <1>10, <2>1, <3>1 DEF ReadersWaitForOlder, Readers, Writers
    <3>3. proc[p].stdin \notin fdR[Shell] \cup Opened /\ proc[p].stdin # Front
      BY <1>14, <2>1, <3>1
    <3>4. \A q \in 1..n : proc'[q].stdin = proc'[p].stdin => q = p
      BY <1>4, <1>5, <1>8, <3>1, <3>2, <3>3
    <3>5. \A q \in 0..MaxProcs : proc'[p].stdin \in fdR'[q] \cup fdW'[q] => q \in 1..p
      BY <1>2, <1>12, <3>1, <3>2, <3>3
    <3>6. fdW'[p] = fdW[p]
      BY <1>2, <1>10, <2>1
    <3>. QED
      BY <3>1, <3>2, <3>4, <3>5, <3>6
  <2>2. CASE p = n
    <3>1. proc'[p].stdin = Front /\ Front # NoPipe /\ proc'[p].st = "forked"
      BY <1>4, <1>8, <2>2
    <3>2. Front \in fdR[Shell]
      BY <1>6, <3>1
    <3>3. \A q \in 1..n : proc'[q].stdin = proc'[p].stdin => q = p
      BY <1>4, <1>5, <1>14, <2>2, <3>1
    <3>4. Front \notin fdR'[Shell] \cup fdW'[Shell]
      BY <1>2
    <3>5. ASSUME NEW q \in 0..MaxProcs, Front \in fdR'[q] \cup fdW'[q]
          PROVE  q \in 1..p
      <4>1. CASE q = Shell
        BY <3>4, <3>5, <4>1
      <4>2. CASE q = n
        BY <1>2, <2>2, <4>2
      <4>3. CASE q \in 1..MaxProcs /\ q # n
        <5>1. Front \in fdR[q] \cup fdW[q]
          BY <1>2, <3>5, <4>3
        <5>2. ~(q > nproc)
          BY <1>1, <5>1 DEF Ends, OnlyOpened
        <5>. QED
          BY <1>2, <2>2, <4>3, <5>2 DEF n
      <4>. QED
        BY <1>12, <4>1, <4>2, <4>3
    <3>. QED
      BY <3>1, <3>3, <3>5
  <2>. QED
    BY <1>5, <2>1, <2>2
<1>20. OutputKept'
  <2> DEFINE HasThen(q, k) == proc'[q].stdin = k /\ (proc'[q].st = "done" \/ k \in fdR'[q])
  <2>1. \A k \in Pipes : \A q \in 1..nproc : Has(q, k) => HasThen(q, k)
    BY <1>2, <1>4, <1>10 DEF Has
  <2>2. Front # NoPipe => HasThen(n, Front)
    BY <1>2, <1>4, <1>6, <1>8
  <2>3. n \in 1..n /\ \A q \in 1..nproc : q \in 1..n
    BY <1>2 DEF n
  <2> HIDE DEF HasThen
  <2>4. ASSUME NEW p \in 1..n, proc'[p].stdout # NoPipe
        PROVE  proc'[p].stdout \in fdR'[Shell] \/ \E q \in 1..n : HasThen(q, proc'[p].stdout)
    <3>1. CASE p = n
      BY <1>4, <1>8, <1>9, <2>4, <3>1
    <3>2. CASE p \in 1..nproc
      <4>1. proc'[p] = proc[p] /\ proc[p].stdout # NoPipe
        BY <1>4, <2>4, <3>2
      <4>2. proc[p].stdout \in Pipes
        BY <1>1, <3>2, <4>1, ProcIs DEF Processes
      <4>3. CASE proc[p].stdout \in fdR[Shell]
        <5>1. CASE proc[p].stdout = Front
          BY <2>2, <2>3, <4>1, <5>1
        <5>2. CASE proc[p].stdout # Front
          BY <1>2, <4>1, <4>3, <5>2
        <5>. QED
          BY <5>1, <5>2
      <4>4. CASE \E q \in 1..nproc : Has(q, proc[p].stdout)
        BY <2>1, <2>3, <4>1, <4>2, <4>4
      <4>. QED
        BY <1>1, <3>2, <4>1, <4>3, <4>4 DEF OutputKept
    <3>. QED
      BY <1>5, <3>1, <3>2
  <2>. QED
    BY <1>4, <2>4 DEF OutputKept, Has, HasThen
<1>. QED
  BY <1>15, <1>16, <1>17, <1>18, <1>19, <1>20, <1>3 DEF IInv, Ends

-----------------------------------------------------------------------------
(* A step of a process: it gives ends back and takes none, and it gives the     *)
(* read end of its own input back only when it ends.                            *)
LEMMA ChildInv ==
    ASSUME IInv, NEW p \in 1..nproc, UNCHANGED shell,
           NEW now \in Processes, proc' = [proc EXCEPT ![p] = now],
           now.stdin = proc[p].stdin, now.stdout = proc[p].stdout,
           proc[p].st = "done" => now.st = "done",
           NEW r \in SUBSET fdR[p], fdR' = [fdR EXCEPT ![p] = r],
           NEW w \in SUBSET fdW[p], fdW' = [fdW EXCEPT ![p] = w],
           now.stdin \in fdR[p] => now.stdin \in r \/ now.st = "done",
           now.st # "forked" /\ now.stdin # NoPipe => now.stdin \notin w,
           fill' \in [Pipes -> 0..Capacity]
    PROVE  IInv'
<1>1. TypeOK /\ Ends /\ ReadersWaitForOlder /\ OutputKept
  BY DEF IInv
<1>2. /\ line' = line /\ head' = head /\ B' = B /\ future' = future
      /\ waiting' = waiting /\ npipe' = npipe
  BY DEF shell
<1>3. /\ nproc \in Nat /\ DOMAIN proc = 1..nproc /\ proc \in Seq(Processes)
      /\ \A q \in 1..nproc : proc[q] \in Processes
  BY <1>1, ProcIs
<1>4. proc' \in Seq(Processes) /\ Len(proc') = Len(proc) /\ nproc' = nproc
  <2>1. /\ [proc EXCEPT ![p] = now] \in Seq(Processes)
        /\ Len([proc EXCEPT ![p] = now]) = Len(proc)
    BY <1>3, ExceptSeq DEF nproc
  <2>. QED
    BY <2>1 DEF nproc
<1>5. /\ proc'[p] = now
      /\ \A q \in 1..nproc : q # p => proc'[q] = proc[q]
  BY <1>3
<1>6. \A q \in 1..nproc : proc'[q].stdin = proc[q].stdin /\ proc'[q].stdout = proc[q].stdout
  BY <1>5
<1>7. nproc <= MaxProcs /\ p \in 0..MaxProcs /\ p # Shell /\ Shell \in 0..MaxProcs
  <2>1. Len(line) \in Nat
    BY <1>1, LenProperties DEF TypeOK
  <2>2. nproc + Len(line) <= MaxProcs
    BY <1>1 DEF Ends, RoomForLine
  <2>. HIDE DEF nproc
  <2>. QED
    BY <1>3, <2>1, <2>2, BoundsAssumption DEF Shell
<1>8. fdR \in [0..MaxProcs -> SUBSET Pipes] /\ fdW \in [0..MaxProcs -> SUBSET Pipes]
  BY <1>1 DEF TypeOK
<1>9. /\ fdR' \in [0..MaxProcs -> SUBSET Pipes] /\ fdW' \in [0..MaxProcs -> SUBSET Pipes]
      /\ fdR'[p] = r /\ fdW'[p] = w
      /\ \A q \in 0..MaxProcs : q # p => fdR'[q] = fdR[q] /\ fdW'[q] = fdW[q]
  BY <1>7, <1>8
<1>10. \A q \in 0..MaxProcs : fdR'[q] \subseteq fdR[q] /\ fdW'[q] \subseteq fdW[q]
  BY <1>9
<1>11. fdR'[Shell] = fdR[Shell] /\ fdW'[Shell] = fdW[Shell]
  BY <1>7, <1>9
<1>12. TypeOK'
  BY <1>1, <1>2, <1>4, <1>9, <1>11 DEF TypeOK
<1>13. RoomForLine' /\ BetweenCommands' /\ ListDiffers'
  BY <1>1, <1>2, <1>4 DEF Ends, RoomForLine, BetweenCommands, ListDiffers, Numbered
<1>14. OnlyOpened'
  <2>1. \A q \in 0..MaxProcs : fdR'[q] \cup fdW'[q] \subseteq 1..npipe
    BY <1>1, <1>10 DEF Ends, OnlyOpened
  <2>2. \A q \in 0..MaxProcs : q > nproc => fdR'[q] = {} /\ fdW'[q] = {}
    <3>1. \A q \in 0..MaxProcs : q > nproc => fdR[q] = {} /\ fdW[q] = {}
      BY <1>1 DEF Ends, OnlyOpened
    <3>. QED
      BY <1>10, <3>1
  <2>3. \A q \in 1..nproc : proc'[q].stdin <= npipe /\ proc'[q].stdout <= npipe
    BY <1>1, <1>6 DEF Ends, OnlyOpened
  <2>4. Numbered' \subseteq 1..npipe /\ B' <= npipe
    BY <1>1, <1>2 DEF Ends, OnlyOpened, Numbered
  <2>. QED
    BY <1>2, <1>4, <2>1, <2>2, <2>3, <2>4 DEF OnlyOpened
<1>15. GivenAway'
  BY <1>1, <1>4, <1>6, <1>11 DEF Ends, GivenAway
<1>16. ReadersWaitForOlder'
  <2>. SUFFICES ASSUME NEW o \in 1..nproc, proc'[o].stdin # NoPipe
                PROVE  /\ \A q \in 1..nproc : proc'[q].stdin = proc'[o].stdin => q = o
                       /\ \A q \in 0..MaxProcs :
                             proc'[o].stdin \in fdR'[q] \cup fdW'[q] => q \in 1..o
                       /\ proc'[o].st # "forked" => proc'[o].stdin \notin fdW'[o]
    BY <1>4, <1>7 DEF ReadersWaitForOlder, Readers, Writers
  <2>1. /\ \A q \in 1..nproc : proc[q].stdin = proc[o].stdin => q = o
        /\ \A q \in 0..MaxProcs : proc[o].stdin \in fdR[q] \cup fdW[q] => q \in 1..o
        /\ proc[o].st # "forked" => proc[o].stdin \notin fdW[o]
    <3>1. o \in 0..MaxProcs
      BY <1>3, <1>7, BoundsAssumption
    <3>. QED
      BY <1>1, <1>6, <3>1 DEF ReadersWaitForOlder, Readers, Writers
  <2>2. \A q \in 1..nproc : proc'[q].stdin = proc'[o].stdin => q = o
    BY <1>6, <2>1
  <2>3. \A q \in 0..MaxProcs : proc'[o].stdin \in fdR'[q] \cup fdW'[q] => q \in 1..o
    BY <1>6, <1>10, <2>1
  <2>4. proc'[o].st # "forked" => proc'[o].stdin \notin fdW'[o]
    <3>1. CASE o = p
      BY <1>5, <1>9, <3>1
    <3>2. CASE o # p
      <4>1. o \in 0..MaxProcs
        BY <1>3, <1>7, BoundsAssumption
      <4>. QED
        BY <1>5, <1>9, <2>1, <3>2, <4>1
    <3>. QED
      BY <3>1, <3>2
  <2>. QED
    BY <2>2, <2>3, <2>4
<1>17. OutputKept'
  <2> DEFINE HasThen(q, k) == proc'[q].stdin = k /\ (proc'[q].st = "done" \/ k \in fdR'[q])
  <2>1. ASSUME NEW k \in Pipes, NEW q \in 1..nproc, Has(q, k)
        PROVE  HasThen(q, k)
    <3>1. q \in 0..MaxProcs
      BY <1>3, <1>7, BoundsAssumption
    <3>2. CASE q = p
      BY <1>5, <1>9, <2>1, <3>2 DEF Has
    <3>3. CASE q # p
      BY <1>5, <1>9, <2>1, <3>1, <3>3 DEF Has
    <3>. QED
      BY <3>2, <3>3
  <2> HIDE DEF HasThen
  <2>2. ASSUME NEW o \in 1..nproc, proc'[o].stdout # NoPipe
        PROVE  proc'[o].stdout \in fdR'[Shell] \/ \E q \in 1..nproc : HasThen(q, proc'[o].stdout)
    <3>1. proc'[o].stdout = proc[o].stdout /\ proc[o].stdout # NoPipe
      BY <1>6, <2>2
    <3>2. proc[o].stdout \in Pipes
      BY <1>3, <3>1 DEF Processes
    <3>3. proc[o].stdout \in fdR[Shell] \/ \E q \in 1..nproc : Has(q, proc[o].stdout)
      BY <1>1, <3>1 DEF OutputKept
    <3>. QED
      BY <1>11, <2>1, <3>1, <3>2, <3>3
  <2>. QED
    BY <1>4, <2>2 DEF OutputKept, Has, HasThen
<1>. QED
  BY <1>12, <1>13, <1>14, <1>15, <1>16, <1>17 DEF IInv, Ends

(* The shell reads a line, or the command it waits for has ended.               *)
LEMMA ShellInv ==
    ASSUME IInv, (\E l \in Lines : ReadLine(l)) \/ Waitpid
    PROVE  IInv'
<1>1. TypeOK /\ Ends /\ ReadersWaitForOlder /\ OutputKept
  BY DEF IInv
<1>2. UNCHANGED <<B, future, fdR, fdW, fill, proc, npipe>> /\ nproc' = nproc
  BY DEF ReadLine, Waitpid, nproc
<1>3. /\ line' \in Seq(Commands) /\ head' \in BOOLEAN /\ waiting' \in 0..nproc
      /\ RoomForLine' /\ BetweenCommands'
  <2>1. CASE \E l \in Lines : ReadLine(l)
    <3>. PICK l \in Lines : ReadLine(l)
      BY <2>1
    <3>1. line' = l /\ head' = TRUE /\ waiting' = waiting /\ line = <<>>
      BY DEF ReadLine, AtPrompt
    <3>2. l \in Seq(Commands) \ {<<>>}
      BY LinesAssumption
    <3>3. RoomForLine'
      BY <1>2, <3>1 DEF ReadLine, RoomForLine
    <3>4. B = NoPipe
      BY <1>1, <3>1 DEF Ends, BetweenCommands
    <3>. QED
      BY <1>1, <1>2, <3>1, <3>2, <3>3, <3>4 DEF TypeOK, BetweenCommands
  <2>2. CASE Waitpid
    <3>1. line' = line /\ head' = head /\ waiting' = 0
      BY <2>2 DEF Waitpid, Shell
    <3>2. 0 \in 0..nproc
      BY <1>1, ProcIs
    <3>. QED
      BY <1>1, <1>2, <3>1, <3>2 DEF TypeOK, Ends, RoomForLine, BetweenCommands
  <2>. QED
    BY <2>1, <2>2
<1>4. TypeOK'
  BY <1>1, <1>2, <1>3 DEF TypeOK
<1>5. ListDiffers' /\ OnlyOpened' /\ GivenAway'
  BY <1>1, <1>2 DEF Ends, ListDiffers, OnlyOpened, GivenAway, Numbered
<1>6. ReadersWaitForOlder'
  BY <1>1, <1>2 DEF ReadersWaitForOlder, Readers, Writers
<1>7. OutputKept'
  BY <1>1, <1>2 DEF OutputKept, Has
<1>. QED
  BY <1>3, <1>4, <1>5, <1>6, <1>7 DEF IInv, Ends

LEMMA ExitInv ==
    ASSUME IInv, NEW p \in 1..nproc, Exit(p)
    PROVE  IInv'
<1> DEFINE now == [proc[p] EXCEPT !.st = "done"]
<1>1. TypeOK /\ proc[p] \in Processes
  BY ProcIs DEF IInv
<1>2. /\ now \in Processes /\ now.stdin = proc[p].stdin /\ now.stdout = proc[p].stdout
      /\ now.st = "done"
  BY <1>1 DEF Processes
<1>3. /\ UNCHANGED shell /\ fill' = fill /\ proc' = [proc EXCEPT ![p] = now]
      /\ fdR' = [fdR EXCEPT ![p] = {}] /\ fdW' = [fdW EXCEPT ![p] = {}]
  BY DEF Exit
<1>4. fill' \in [Pipes -> 0..Capacity]
  BY <1>1, <1>3 DEF TypeOK
<1>5. {} \in SUBSET fdR[p] /\ {} \in SUBSET fdW[p] /\ now.stdin \notin {}
  OBVIOUS
<1> HIDE DEF now
<1>. QED
  BY <1>2, <1>3, <1>4, <1>5, ChildInv

LEMMA ExecInv ==
    ASSUME IInv, NEW p \in 1..nproc, Exec(p)
    PROVE  IInv'
<1> DEFINE now == [proc[p] EXCEPT !.st = "run"]
           r == fdR[p] \ {proc[p].stdout}
           w == fdW[p] \ {proc[p].stdin}
<1>1. TypeOK /\ Ends /\ proc[p] \in Processes /\ proc[p].st = "forked"
  BY ProcIs DEF IInv, Exec
<1>2. /\ now \in Processes /\ now.stdin = proc[p].stdin /\ now.stdout = proc[p].stdout
      /\ now.st = "run"
  BY <1>1 DEF Processes
<1>3. /\ UNCHANGED shell /\ fill' = fill /\ proc' = [proc EXCEPT ![p] = now]
      /\ fdR' = [fdR EXCEPT ![p] = r] /\ fdW' = [fdW EXCEPT ![p] = w]
  BY DEF Exec
<1>4. fill' \in [Pipes -> 0..Capacity] /\ fdR \in [0..MaxProcs -> SUBSET Pipes]
  BY <1>1, <1>3 DEF TypeOK
<1>5. p \in 0..MaxProcs
  <2>1. Len(line) \in Nat /\ nproc \in Nat
    BY <1>1, ProcIs, LenProperties DEF TypeOK
  <2>2. nproc + Len(line) <= MaxProcs
    BY <1>1 DEF Ends, RoomForLine
  <2>. HIDE DEF nproc
  <2>. QED
    BY <2>1, <2>2, BoundsAssumption
<1>6. now.stdin \in fdR[p] => now.stdin \in r
  <2>1. now.stdin \in fdR[p] => now.stdin # NoPipe
    BY <1>4, <1>5, BoundsAssumption DEF Pipes, NoPipe
  <2>2. now.stdin # NoPipe => now.stdin # proc[p].stdout
    BY <1>1, <1>2 DEF Ends, GivenAway
  <2>. QED
    BY <2>1, <2>2
<1>7. r \in SUBSET fdR[p] /\ w \in SUBSET fdW[p] /\ now.stdin \notin w
  BY <1>2
<1>8. proc[p].st # "done"
  BY <1>1
<1> HIDE DEF now, r, w
<1>. QED
  BY <1>2, <1>3, <1>4, <1>6, <1>7, <1>8, ChildInv

(* A unit is written or read: nobody's ends change.                             *)
LEMMA MoveInv ==
    ASSUME IInv, NEW p \in 1..nproc, Emit(p) \/ Consume(p)
    PROVE  IInv'
<1> DEFINE now == [proc[p] EXCEPT !.owes = IF Emit(p) THEN proc[p].owes - 1 ELSE 1]
<1>1. TypeOK /\ ReadersWaitForOlder /\ proc[p] \in Processes /\ proc[p].st = "run"
  BY ProcIs DEF IInv, Emit, Consume, Running
<1>2. proc' = [proc EXCEPT ![p] = now] /\ UNCHANGED shell /\ fdR' = fdR /\ fdW' = fdW
  BY DEF Emit, Consume
<1>3. (IF Emit(p) THEN proc[p].owes - 1 ELSE 1) \in Nat
  BY <1>1 DEF Emit, Processes
<1>4. /\ now \in Processes /\ now.stdin = proc[p].stdin /\ now.stdout = proc[p].stdout
      /\ now.st = "run"
  BY <1>1, <1>3 DEF Processes
<1>5. fill \in [Pipes -> 0..Capacity]
  BY <1>1 DEF TypeOK
<1>6. fill' \in [Pipes -> 0..Capacity]
  <2>1. CASE Emit(p) /\ fill' = fill
    BY <1>5, <2>1
  <2>2. CASE Emit(p) /\ fill' # fill
    <3> DEFINE k == proc[p].stdout
    <3>1. k # NoPipe /\ fill[k] < Capacity /\ fill' = [fill EXCEPT ![k] = @ + 1]
      BY <2>2 DEF Emit
    <3>2. k \in Pipes
      BY <1>1, <3>1 DEF Processes
    <3>3. fill[k] + 1 \in 0..Capacity
      BY <1>5, <3>1, <3>2, BoundsAssumption
    <3>. QED
      BY <1>5, <3>1, <3>2, <3>3
  <2>3. CASE Consume(p)
    <3> DEFINE k == proc[p].stdin
    <3>1. k # NoPipe /\ fill[k] > 0 /\ fill' = [fill EXCEPT ![k] = @ - 1]
      BY <2>3 DEF Consume
    <3>2. k \in Pipes
      BY <1>1, <3>1 DEF Processes
    <3>3. fill[k] - 1 \in 0..Capacity
      BY <1>5, <3>1, <3>2, BoundsAssumption
    <3>. QED
      BY <1>5, <3>1, <3>2, <3>3
  <2>. QED
    BY <2>1, <2>2, <2>3
<1>7. fdR' = [fdR EXCEPT ![p] = fdR[p]] /\ fdW' = [fdW EXCEPT ![p] = fdW[p]]
  BY <1>1, <1>2 DEF TypeOK
<1>8. now.stdin # NoPipe => now.stdin \notin fdW[p]
  <2>1. now.stdin # NoPipe => p \notin Writers(now.stdin)
    BY <1>1, <1>4 DEF ReadersWaitForOlder
  <2>2. p \in 0..MaxProcs
    <3>1. Len(line) \in Nat /\ nproc \in Nat
      BY <1>1, ProcIs, LenProperties DEF TypeOK
    <3>2. nproc + Len(line) <= MaxProcs
      BY DEF IInv, Ends, RoomForLine
    <3>. HIDE DEF nproc
    <3>. QED
      BY <3>1, <3>2, BoundsAssumption
  <2>. QED
    BY <2>1, <2>2 DEF Writers
<1>9. fdR[p] \in SUBSET fdR[p] /\ fdW[p] \in SUBSET fdW[p] /\ proc[p].st # "done"
  BY <1>1
<1>10. proc' = [proc EXCEPT ![p] = now] /\ UNCHANGED shell
  BY <1>2
<1>11. \E r \in SUBSET fdR[p], w \in SUBSET fdW[p] :
          /\ fdR' = [fdR EXCEPT ![p] = r] /\ fdW' = [fdW EXCEPT ![p] = w]
          /\ now.stdin \in fdR[p] => now.stdin \in r
          /\ now.stdin # NoPipe => now.stdin \notin w
  BY <1>7, <1>8, <1>9
<1> HIDE DEF now
<1>. QED
  BY <1>4, <1>6, <1>9, <1>10, <1>11, ChildInv

LEMMA NextInv == IInv /\ [Next]_vars => IInv'
<1>. SUFFICES ASSUME IInv, [Next]_vars PROVE IInv'
  OBVIOUS
<1>1. CASE \E l \in Lines : ReadLine(l)
  BY <1>1, ShellInv
<1>2. CASE Fork
  BY <1>2, ForkInv
<1>3. CASE Waitpid
  BY <1>3, ShellInv
<1>4. CASE \E p \in Pids : Child(p)
  <2>1. PICK p \in Pids : Child(p)
    BY <1>4
  <2>2. p \in 1..nproc
    BY <2>1 DEF Child, Exec, Emit, BrokenPipe, Consume, Finish, Running, alive
  <2>3. CASE Exec(p)
    BY <2>2, <2>3, ExecInv
  <2>4. CASE Emit(p) \/ Consume(p)
    BY <2>2, <2>4, MoveInv
  <2>5. CASE BrokenPipe(p) \/ Finish(p)
    BY <2>2, <2>5, ExitInv DEF BrokenPipe, Finish
  <2>. QED
    BY <2>1, <2>3, <2>4, <2>5 DEF Child
<1>5. CASE UNCHANGED vars
  <2>1. TypeOK' /\ Ends' /\ ReadersWaitForOlder' /\ OutputKept'
    BY <1>5 DEF vars, IInv, TypeOK, Ends, RoomForLine, BetweenCommands, ListDiffers, OnlyOpened,
          GivenAway, Numbered, ReadersWaitForOlder, Readers, Writers, OutputKept, Has, nproc
  <2>. QED
    BY <2>1 DEF IInv
<1>. QED
  BY <1>1, <1>2, <1>3, <1>4, <1>5 DEF Next

-----------------------------------------------------------------------------
LEMMA Inductive == Spec => []IInv
BY InitInv, NextInv, PTL DEF Spec

(* A pipe has a reader as long as somebody writes it, or had one that ended.    *)
LEMMA KeptIsNotLost == IInv => NoOutputLost
<1>. SUFFICES ASSUME IInv, NEW p \in 1..nproc, proc[p].stdout # NoPipe
              PROVE  \/ Readers(proc[p].stdout) # {}
                     \/ \E q \in 1..nproc : proc[q].stdin = proc[p].stdout /\ proc[q].st = "done"
  BY DEF NoOutputLost
<1>1. TypeOK /\ Ends /\ OutputKept
  BY DEF IInv
<1>2. /\ Shell \in 0..MaxProcs
      /\ \A q \in 1..nproc : q \in 0..MaxProcs
  <2>1. Len(line) \in Nat /\ nproc \in Nat
    BY <1>1, ProcIs, LenProperties DEF TypeOK
  <2>2. nproc + Len(line) <= MaxProcs
    BY <1>1 DEF Ends, RoomForLine
  <2>. HIDE DEF nproc
  <2>. QED
    BY <2>1, <2>2, BoundsAssumption DEF Shell
<1>3. CASE proc[p].stdout \in fdR[Shell]
  BY <1>2, <1>3 DEF Readers
<1>4. CASE \E q \in 1..nproc : Has(q, proc[p].stdout)
  BY <1>2, <1>4 DEF Has, Readers
<1>. QED
  BY <1>1, <1>3, <1>4 DEF OutputKept

(* The shell holds exactly the ends of the pipes that have no reader yet, for   *)
(* any lines: nothing that the loop over the commands opens stays open in it.   *)
THEOREM TypeCorrect == Spec => []TypeOK
<1>1. IInv => TypeOK
  BY DEF IInv
<1>. QED
  BY <1>1, Inductive, PTL

(* Each pipe is the input of one process at most, and a process that reads to   *)
(* the end of its input waits for processes older than itself only: whatever    *)
(* the lines are, the pipes that a command inherits do not keep a reader of a   *)
(* numbered pipe, or the shell, waiting in a circle.                            *)
THEOREM NobodyWaitsForYounger == Spec => []ReadersWaitForOlder
<1>1. IInv => ReadersWaitForOlder
  BY DEF IInv
<1>. QED
  BY <1>1, Inductive, PTL

(* What a command writes into a pipe can be read until the command that it was  *)
(* for has ended: neither the shell, which closes the front pipe after the      *)
(* fork, nor a command that only inherited the pipe closes its last read end.   *)
THEOREM OutputHasAReader == Spec => []NoOutputLost
BY KeptIsNotLost, Inductive, PTL
-----------------------------------------------------------------------------
(* What the order of the readers is good for.  A process, or the shell, can go  *)
(* on when one of its actions has all that it waits for.                        *)
CanGoOn(p) ==
    /\ alive(p)
    /\ \/ proc[p].st = "forked"
       \/ /\ proc[p].owes > 0
          /\ \/ proc[p].stdout = NoPipe
             \/ Readers(proc[p].stdout) = {}
             \/ fill[proc[p].stdout] < Capacity
       \/ /\ proc[p].owes = 0
          /\ EndOfInput(p) \/ fill[proc[p].stdin] > 0
ShellCanGoOn ==
    \/ waiting = Shell /\ line # <<>>
    \/ waiting # Shell /\ proc[waiting].st = "done"

NoCircle ==
    /\ ~AtPrompt \/ \E p \in 1..nproc : alive(p)
    /\ \A k \in Pipes : fill[k] < Capacity
    => ShellCanGoOn \/ \E p \in 1..nproc : CanGoOn(p)

(* A process that has ended has closed everything.                              *)
DoneHoldNothing == \A p \in 1..nproc : proc[p].st = "done" => fdR[p] = {} /\ fdW[p] = {}

LEMMA WithinBounds ==
    ASSUME TypeOK, Ends
    PROVE  nproc \in Nat /\ \A q \in 1..nproc : q \in 0..MaxProcs /\ q \in 1..MaxProcs /\ q # Shell
<1>1. Len(line) \in Nat /\ nproc \in Nat
  BY ProcIs, LenProperties DEF TypeOK
<1>2. nproc + Len(line) <= MaxProcs
  BY DEF Ends, RoomForLine
<1>. HIDE DEF nproc
<1>. QED
  BY <1>1, <1>2, BoundsAssumption DEF Shell

LEMMA DoneInit == Init => DoneHoldNothing
<1>. SUFFICES ASSUME Init PROVE nproc = 0
  BY DEF DoneHoldNothing
<1>. QED
  BY EmptySeq DEF Init, nproc

LEMMA DoneFork ==
    ASSUME IInv, DoneHoldNothing, Fork
    PROVE  DoneHoldNothing'
<1>1. /\ nproc + 1 \in 1..MaxProcs /\ nproc \in Nat
      /\ proc' = Append(proc, Forked)  /\ Forked \in Processes
      /\ \A q \in 1..MaxProcs : q # nproc + 1 => fdR'[q] = fdR[q] /\ fdW'[q] = fdW[q]
  BY ForkDoes DEF IInv
<1>2. proc \in Seq(Processes) /\ nproc = Len(proc)
  BY DEF IInv, TypeOK, nproc
<1>3. /\ Len(proc') = nproc + 1 /\ proc'[nproc + 1] = Forked
      /\ \A q \in 1..nproc : proc'[q] = proc[q]
  BY <1>1, <1>2, AppendProperties
<1>4. nproc' = nproc + 1
  BY <1>3 DEF nproc
<1>5. ASSUME NEW q \in 1..(nproc + 1), proc'[q].st = "done"
      PROVE  fdR'[q] = {} /\ fdW'[q] = {}
  <2>1. q # nproc + 1
    BY <1>3, <1>5 DEF Forked
  <2>2. q \in 1..nproc
    BY <1>1, <2>1
  <2>3. q \in 1..MaxProcs
    BY <2>2, WithinBounds DEF IInv
  <2>. QED
    BY <1>1, <1>3, <1>5, <2>1, <2>2, <2>3 DEF DoneHoldNothing
<1>. QED
  BY <1>4, <1>5 DEF DoneHoldNothing

LEMMA DoneChild ==
    ASSUME IInv, DoneHoldNothing, NEW p \in 1..nproc, Child(p)
    PROVE  DoneHoldNothing'
<1>1. /\ nproc \in Nat /\ DOMAIN proc = 1..nproc /\ proc \in Seq(Processes)
      /\ proc[p] \in Processes
  BY ProcIs DEF IInv
<1>2. /\ fdR \in [0..MaxProcs -> SUBSET Pipes] /\ fdW \in [0..MaxProcs -> SUBSET Pipes]
      /\ \A q \in 1..nproc : q \in 0..MaxProcs
  BY WithinBounds DEF IInv, TypeOK
<1>3. PICK now \in Processes : proc' = [proc EXCEPT ![p] = now]
  <2>1. CASE Exit(p)
    <3>1. [proc[p] EXCEPT !.st = "done"] \in Processes
      BY <1>1 DEF Processes
    <3>. QED
      BY <2>1, <3>1 DEF Exit
  <2>2. CASE Exec(p)
    <3>1. [proc[p] EXCEPT !.st = "run"] \in Processes
      BY <1>1 DEF Processes
    <3>. QED
      BY <2>2, <3>1 DEF Exec
  <2>3. CASE Emit(p)
    <3>1. proc[p].owes - 1 \in Nat
      BY <1>1, <2>3 DEF Emit, Processes
    <3>2. [proc[p] EXCEPT !.owes = proc[p].owes - 1] \in Processes
      BY <1>1, <3>1 DEF Processes
    <3>. QED
      BY <2>3, <3>2 DEF Emit
  <2>4. CASE Consume(p)
    <3>1. [proc[p] EXCEPT !.owes = 1] \in Processes
      BY <1>1 DEF Processes
    <3>. QED
      BY <2>4, <3>1 DEF Consume
  <2>. QED
    BY <2>1, <2>2, <2>3, <2>4 DEF Child, BrokenPipe, Finish
<1>4. nproc' = nproc
  <2>1. Len([proc EXCEPT ![p] = now]) = Len(proc)
    BY <1>1, ExceptSeq DEF nproc
  <2>. QED
    BY <1>3, <2>1 DEF nproc
<1>5. \A q \in 1..nproc : q # p => proc'[q] = proc[q]
  BY <1>1, <1>3
<1>6. \A q \in 1..nproc : q # p => fdR'[q] = fdR[q] /\ fdW'[q] = fdW[q]
  BY <1>2 DEF Child, Exec, Emit, BrokenPipe, Consume, Finish, Exit
<1>7. CASE Exit(p)
  BY <1>2, <1>4, <1>5, <1>6, <1>7 DEF Exit, DoneHoldNothing
<1>8. CASE Exec(p) \/ Emit(p) \/ Consume(p)
  <2>1. proc'[p].st = "run"
    BY <1>1, <1>8 DEF Exec, Emit, Consume, Running, Processes
  <2>. QED
    BY <1>4, <1>5, <1>6, <2>1 DEF DoneHoldNothing
<1>. QED
  BY <1>7, <1>8 DEF Child, BrokenPipe, Finish

LEMMA DoneNext == IInv /\ DoneHoldNothing /\ [Next]_vars => DoneHoldNothing'
<1>. SUFFICES ASSUME IInv, DoneHoldNothing, [Next]_vars PROVE DoneHoldNothing'
  OBVIOUS
<1>1. CASE (\E l \in Lines : ReadLine(l)) \/ Waitpid \/ UNCHANGED vars
  <2>1. UNCHANGED <<proc, fdR, fdW>>
    BY <1>1 DEF ReadLine, Waitpid, vars
  <2>. QED
    BY <2>1 DEF DoneHoldNothing, nproc
<1>2. CASE \E p \in Pids : Child(p)
  <2>1. PICK p \in Pids : Child(p)
    BY <1>2
  <2>2. p \in 1..nproc
    BY <2>1 DEF Child, Exec, Emit, BrokenPipe, Consume, Finish, Running, alive
  <2>. QED
    BY <2>1, <2>2, DoneChild
<1>. QED
  BY <1>1, <1>2, DoneFork DEF Next

LEMMA Oldest ==
    ASSUME NEW S \in SUBSET Nat, S # {}
    PROVE  \E p \in S : \A q \in S : p <= q
<1>1. IsWellFoundedOn(OpToRel(<, Nat), Nat)
  BY NatLessThanWellFounded, Zenon
<1>2. PICK p \in S : \A q \in S : <<q, p>> \notin OpToRel(<, Nat)
  BY <1>1, WFMin, Zenon
<1>3. \A q \in S : ~(q < p)
  BY <1>2, Zenon DEF OpToRel
<1>. QED
  BY <1>3

(* The oldest process that has not ended is never kept waiting by others: all   *)
(* that it could wait for is older, and has ended.                              *)
LEMMA OldestGoesOn ==
    ASSUME IInv, DoneHoldNothing, \A k \in Pipes : fill[k] < Capacity,
           NEW p \in 1..nproc, alive(p), \A q \in 1..nproc : alive(q) => p <= q
    PROVE  CanGoOn(p)
<1>1. proc[p] \in Processes /\ nproc \in Nat
  BY ProcIs DEF IInv
<1>2. proc[p].st \in {"forked", "run"}
  BY <1>1 DEF alive, Processes
<1>3. CASE proc[p].st = "forked"
  BY <1>3 DEF CanGoOn
<1>4. CASE proc[p].owes > 0
  <2>1. proc[p].stdout \in Pipes \cup {NoPipe}
    BY <1>1 DEF Processes
  <2>. QED
    BY <1>4, <2>1 DEF CanGoOn
<1>5. CASE proc[p].st = "run" /\ proc[p].owes = 0
  <2> DEFINE k == proc[p].stdin
  <2>1. CASE k = NoPipe
    BY <1>5, <2>1 DEF CanGoOn, EndOfInput
  <2>2. CASE k # NoPipe /\ fill[k] > 0
    BY <1>5, <2>2 DEF CanGoOn
  <2>3. CASE k # NoPipe /\ ~(fill[k] > 0)
    <3>1. k \in Pipes /\ fill \in [Pipes -> 0..Capacity]
      BY <1>1, <2>3 DEF Processes, IInv, TypeOK
    <3>2. fill[k] = 0
      BY <2>3, <3>1, BoundsAssumption
    <3>3. \A q \in Writers(k) : q \in 1..p /\ q # p
      BY <1>5, <2>3 DEF IInv, ReadersWaitForOlder
    <3>4. ASSUME NEW q \in Writers(k) PROVE FALSE
      <4>1. q \in 1..nproc /\ q < p
        BY <1>1, <3>3
      <4>2. ~alive(q)
        BY <1>1, <4>1
      <4>3. fdW[q] = {}
        BY <4>1, <4>2 DEF alive, DoneHoldNothing
      <4>. QED
        BY <4>3 DEF Writers
    <3>5. EndOfInput(p)
      BY <3>2, <3>4 DEF EndOfInput
    <3>. QED
      BY <1>5, <3>5 DEF CanGoOn
  <2>. QED
    BY <2>1, <2>2, <2>3
<1>6. proc[p].owes \in Nat
  BY <1>1 DEF Processes
<1>. QED
  BY <1>2, <1>3, <1>4, <1>5, <1>6

LEMMA OrderPreventsCircles == IInv /\ DoneHoldNothing => NoCircle
<1>. SUFFICES ASSUME IInv, DoneHoldNothing, ~AtPrompt \/ \E p \in 1..nproc : alive(p),
                     \A k \in Pipes : fill[k] < Capacity
              PROVE  ShellCanGoOn \/ \E p \in 1..nproc : CanGoOn(p)
  BY DEF NoCircle
<1>1. nproc \in Nat /\ waiting \in 0..nproc
  BY ProcIs DEF IInv, TypeOK
<1>2. CASE \E p \in 1..nproc : alive(p)
  <2> DEFINE Living == {q \in 1..nproc : alive(q)}
  <2>1. Living \in SUBSET Nat /\ Living # {}
    BY <1>1, <1>2
  <2>2. PICK p \in Living : \A q \in Living : p <= q
    <3> HIDE DEF Living
    <3>. QED
      BY <2>1, Oldest
  <2>3. CanGoOn(p)
    BY <2>2, OldestGoesOn
  <2>. QED
    BY <2>3
<1>3. CASE ~AtPrompt /\ ~\E p \in 1..nproc : alive(p)
  <2>1. CASE waiting = Shell
    BY <1>3, <2>1 DEF AtPrompt, ShellCanGoOn
  <2>2. CASE waiting # Shell
    <3>1. waiting \in 1..nproc
      BY <1>1, <2>2 DEF Shell
    <3>2. proc[waiting].st = "done"
      BY <1>3, <3>1 DEF alive
    <3>. QED
      BY <2>2, <3>2 DEF ShellCanGoOn
  <2>. QED
    BY <2>1, <2>2
<1>. QED
  BY <1>2, <1>3

(* "guarantee that all the output of this command is piped correctly": what     *)
(* PromptComesBack and ProcessesEnd need beside scheduling.  Shell and commands *)
(* never wait for each other in a circle, for any lines: as long as no pipe is  *)
(* full, one of those that are not done can go on.  A full pipe is what the     *)
(* shell can hang on (finding 2).                                               *)
THEOREM OnlyFullPipesBlock == Spec => []NoCircle
BY Inductive, DoneInit, DoneNext, OrderPreventsCircles, PTL DEF Spec
=============================================================================
