----------------------------- MODULE ShellJobs -----------------------------
(* The processes and pipes of a shell (npshell.cpp; the loop that forks is the  *)
(* same in the three servers).  A pipe has two ends, and a process that forks   *)
(* gives its child a copy of every end that it holds: a reader sees the end of  *)
(* its input only when nobody holds a write end any more, and a writer blocks   *)
(* when the pipe is full.  The shell forks the commands of a line one by one    *)
(* and waits for the last one, unless it writes to a numbered pipe.             *)
(*                                                                              *)
(* A program is what matters to the pipes: it writes `out` units, or reads its  *)
(* input to the end and writes a unit for each one read, or neither.            *)
EXTENDS Integers, Sequences

CONSTANTS
    Lines,      \* the input lines: sequences of commands
    MaxProcs,   \* how many processes are forked: bounds the input
    MaxPipes,   \* how many pipes are opened at most: bounds the input
    Capacity    \* how many units a pipe holds

\* skip: N for |N, -1 for an ordinary pipe, 0 for none
Commands == [reads : BOOLEAN, out : Nat, skip : Int]

ASSUME LinesAssumption == Lines \subseteq Seq(Commands) \ {<<>>}
ASSUME BoundsAssumption == MaxProcs \in Nat /\ MaxPipes \in Nat /\ Capacity \in Nat \ {0}

Shell == 0
Pids == 1..MaxProcs
Pipes == 1..MaxPipes
NoPipe == 0

VARIABLES
    line,       \* the commands of the line that are not forked yet
    head,       \* the next one is the first command of a line (line_h)
    B,          \* the ordinary pipe from the last command forked to the next one
    future,     \* the numbered pipes: number and pipe
    waiting,    \* the process waitpid is called for, or Shell
    fdR, fdW,   \* the read ends and the write ends that each process holds
    fill,       \* the units in each pipe
    proc,       \* the processes forked, by their number
    npipe       \* the number of pipes opened

shell == <<line, head, B, future, waiting, npipe>>
vars == <<line, head, B, future, waiting, fdR, fdW, fill, proc, npipe>>

-----------------------------------------------------------------------------
nproc == Len(proc)
alive(p) == p \in 1..nproc /\ proc[p].st # "done"
\* who holds an end of pipe k
Readers(k) == {q \in 0..MaxProcs : k \in fdR[q]}
Writers(k) == {q \in 0..MaxProcs : k \in fdW[q]}

AtPrompt == line = <<>> /\ waiting = Shell

Init ==
    /\ line = <<>> /\ head = TRUE /\ B = NoPipe /\ future = {} /\ waiting = Shell
    /\ fdR = [q \in 0..MaxProcs |-> {}]
    /\ fdW = [q \in 0..MaxProcs |-> {}]
    /\ fill = [k \in Pipes |-> 0]
    /\ proc = <<>>
    /\ npipe = 0

\* the user types a line; no command reads the terminal
ReadLine(l) ==
    /\ AtPrompt
    /\ nproc + Len(l) <= MaxProcs /\ npipe + Len(l) <= MaxPipes
    /\ Head(l).reads => \E r \in future : r.number = 1
    /\ line' = l
    /\ head' = TRUE
    /\ UNCHANGED <<B, future, waiting, fdR, fdW, fill, proc, npipe>>

IsTail == Head(line).skip > 0 \/ Len(line) = 1

\* the list after the decrement at the head of a line, the pipe that is due there
Ticked == IF head THEN {[r EXCEPT !.number = @ - 1] : r \in future} ELSE future
DueNow == IF head THEN {r \in Ticked : r.number = 0} ELSE {}
Same == {r \in Ticked \ DueNow : r.number = Head(line).skip}

\* A: what the next command reads
Front == IF ~head THEN B
         ELSE IF DueNow = {} THEN NoPipe ELSE (CHOOSE r \in DueNow : TRUE).pipe

\* B: what the next command writes, and whether pipe() is called for it
OpensPipe == ~IsTail \/ (Head(line).skip > 0 /\ Same = {})
Rear == IF OpensPipe THEN npipe + 1
        ELSE IF Head(line).skip > 0 THEN (CHOOSE r \in Same : TRUE).pipe
        ELSE NoPipe

\* Mutant of KeptByShell: the front pipe is left open in the shell.
KeptAll(ends) == ends

\* Mutant of KeptByShell: the rear pipe is closed too, and nobody is left to read it.
KeptFewer(ends) == ends \ {Front, Rear}

\* after fork the shell closes both ends of the front pipe
KeptByShell(ends) == ends \ {Front}

\* Mutant of WaitsFor: the shell waits for every command as soon as it is forked.
WaitsForEach(p) == p

\* the last command of the input, when it writes to the terminal
WaitsFor(p) == IF Len(line) = 1 /\ Head(line).skip = 0 THEN p ELSE Shell

\* one turn of the loop over the commands: pipes, fork, and the parent's branch
Fork ==
    LET c == Head(line)
        opened == IF OpensPipe THEN {npipe + 1} ELSE {}
        p == nproc + 1
    IN  /\ line # <<>> /\ waiting = Shell
        /\ npipe' = npipe + (IF OpensPipe THEN 1 ELSE 0)
        /\ future' = (Ticked \ DueNow) \cup
                     {r \in {[number |-> c.skip, pipe |-> npipe + 1]} :
                            c.skip > 0 /\ Same = {}}
        /\ proc' = Append(proc, [st |-> "forked", stdin |-> Front, stdout |-> Rear,
                                 reads |-> c.reads, owes |-> c.out])
        /\ fdR' = [fdR EXCEPT ![Shell] = KeptByShell(@ \cup opened),
                              ![p] = fdR[Shell] \cup opened]
        /\ fdW' = [fdW EXCEPT ![Shell] = KeptByShell(@ \cup opened),
                              ![p] = fdW[Shell] \cup opened]
        /\ B' = IF IsTail THEN NoPipe ELSE Rear
        /\ head' = IsTail
        /\ line' = Tail(line)
        /\ waiting' = WaitsFor(p)
        /\ UNCHANGED fill

Waitpid ==
    /\ waiting # Shell /\ proc[waiting].st = "done"
    /\ waiting' = Shell
    /\ UNCHANGED <<line, head, B, future, fdR, fdW, fill, proc, npipe>>

-----------------------------------------------------------------------------
\* Mutant of Exec: the child keeps the ends that it copied to stdin and stdout.
ExecKeeps(p) ==
    /\ alive(p) /\ proc[p].st = "forked"
    /\ proc' = [proc EXCEPT ![p].st = "run"]
    /\ UNCHANGED <<shell, fdR, fdW, fill>>

\* the child's branch: stdin and stdout are the ends it needs, the others of these
\* two pipes are closed; the ends of other pipes stay open
Exec(p) ==
    /\ alive(p) /\ proc[p].st = "forked"
    /\ fdR' = [fdR EXCEPT ![p] = @ \ {proc[p].stdout}]
    /\ fdW' = [fdW EXCEPT ![p] = @ \ {proc[p].stdin}]
    /\ proc' = [proc EXCEPT ![p].st = "run"]
    /\ UNCHANGED <<shell, fill>>

Running(p) == alive(p) /\ proc[p].st = "run"

Exit(p) ==
    /\ proc' = [proc EXCEPT ![p].st = "done"]
    /\ fdR' = [fdR EXCEPT ![p] = {}]
    /\ fdW' = [fdW EXCEPT ![p] = {}]
    /\ UNCHANGED <<shell, fill>>

\* write a unit to the terminal or into a pipe that has room
Emit(p) ==
    /\ Running(p) /\ proc[p].owes > 0
    /\ \/ /\ proc[p].stdout = NoPipe
          /\ UNCHANGED fill
       \/ /\ proc[p].stdout # NoPipe /\ Readers(proc[p].stdout) # {}
          /\ fill[proc[p].stdout] < Capacity
          /\ fill' = [fill EXCEPT ![proc[p].stdout] = @ + 1]
    /\ proc' = [proc EXCEPT ![p].owes = @ - 1]
    /\ UNCHANGED <<shell, fdR, fdW>>

\* write into a pipe that nobody can read any more: SIGPIPE
BrokenPipe(p) ==
    /\ Running(p) /\ proc[p].owes > 0 /\ proc[p].stdout # NoPipe
    /\ Readers(proc[p].stdout) = {}
    /\ Exit(p)

Consume(p) ==
    /\ Running(p) /\ proc[p].reads /\ proc[p].owes = 0 /\ proc[p].stdin # NoPipe
    /\ fill[proc[p].stdin] > 0
    /\ fill' = [fill EXCEPT ![proc[p].stdin] = @ - 1]
    /\ proc' = [proc EXCEPT ![p].owes = 1]
    /\ UNCHANGED <<shell, fdR, fdW>>

\* end of input: the pipe is empty and no write end is open
EndOfInput(p) ==
    proc[p].reads /\ proc[p].stdin # NoPipe
        => fill[proc[p].stdin] = 0 /\ Writers(proc[p].stdin) = {}

Finish(p) ==
    /\ Running(p) /\ proc[p].owes = 0 /\ EndOfInput(p)
    /\ Exit(p)

Child(p) == Exec(p) \/ Emit(p) \/ BrokenPipe(p) \/ Consume(p) \/ Finish(p)

Next ==
    \/ \E l \in Lines : ReadLine(l)
    \/ Fork
    \/ Waitpid
    \/ \E p \in Pids : Child(p)

(* The shell and every process are scheduled; nobody has to type another line.  *)
Fairness == WF_vars(Fork) /\ WF_vars(Waitpid) /\ \A p \in Pids : WF_vars(Child(p))

Spec == Init /\ [][Next]_vars /\ Fairness

-----------------------------------------------------------------------------
Processes == [st : {"forked", "run", "done"}, stdin : Pipes \cup {NoPipe},
              stdout : Pipes \cup {NoPipe}, reads : BOOLEAN, owes : Nat]

(* Shapes; the shell holds exactly the ends of the pipes that it still needs.   *)
TypeOK ==
    /\ line \in Seq(Commands) /\ head \in BOOLEAN
    /\ B \in Pipes \cup {NoPipe} /\ waiting \in 0..nproc
    /\ future \subseteq [number : Nat \ {0}, pipe : Pipes]
    /\ fill \in [Pipes -> 0..Capacity]
    /\ proc \in Seq(Processes)
    /\ npipe \in 0..MaxPipes
    /\ fdR \in [0..MaxProcs -> SUBSET Pipes]
    /\ fdW \in [0..MaxProcs -> SUBSET Pipes]
    /\ fdR[Shell] = {r.pipe : r \in future} \cup ({B} \ {NoPipe})
    /\ fdW[Shell] = fdR[Shell]

(* Each pipe is the input of one process at most, and once that process is      *)
(* forked no process forked later has either end of the pipe.  So a reader      *)
(* waits, for the end of its input, for processes older than itself only, and   *)
(* never for the shell or for itself: without full pipes nobody waits in a      *)
(* circle.                                                                      *)
ReadersWaitForOlder ==
    \A p \in 1..nproc : proc[p].stdin # NoPipe =>
        /\ \A q \in 1..nproc : proc[q].stdin = proc[p].stdin => q = p
        /\ \A q \in Readers(proc[p].stdin) \cup Writers(proc[p].stdin) : q \in 1..p
        /\ proc[p].st # "forked" => p \notin Writers(proc[p].stdin)

(* A pipe can lose its last read end only with the command that it was for:     *)
(* output is not lost because the shell, or a command that only inherited the   *)
(* pipe, closed it.                                                             *)
NoOutputLost ==
    \A p \in 1..nproc : alive(p) /\ proc[p].stdout # NoPipe =>
        \/ Readers(proc[p].stdout) # {}
        \/ \E q \in 1..nproc : proc[q].stdin = proc[p].stdout /\ proc[q].st = "done"

(* "it is likely that the output of this command exceeds the capacity of the    *)
(* pipe. In this case, you still need to guarantee that all the output of this  *)
(* command is piped correctly": every line is run to its end and the prompt     *)
(* comes back.                                                                  *)
PromptComesBack == ~AtPrompt ~> AtPrompt

(* No process is left behind: each one ends, unless a numbered pipe is open     *)
(* whose line has not come yet, which it, or a process it waits for, writes to. *)
ProcessesEnd == \A p \in Pids : alive(p) ~> (~alive(p) \/ future # {})
=============================================================================
