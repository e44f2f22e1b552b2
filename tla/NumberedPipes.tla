--------------------------- MODULE NumberedPipes ---------------------------
(* The list of numbered pipes of a shell: `future` of npshell.cpp, np_simple    *)
(* and np_multi_proc, future_pipe[id] of np_single_proc.  A record holds a pipe *)
(* and the number of lines until it is read.  Every line first decrements all   *)
(* numbers, then its first command takes the pipe whose number became 0, and a  *)
(* last command with |N shares the pipe of number N or opens a new one.  What   *)
(* is counted as a line is a run of commands up to a |N (see LineSplit).        *)
(*                                                                              *)
(* npshell gives a line that is a built-in command a child like any other, and  *)
(* the child takes the pipe that is due.  The servers run no command for it     *)
(* (n stays 0): the numbers go down, and a pipe that is due stays in the list,  *)
(* below zero, for good.                                                        *)
EXTENDS ShellLimits

CONSTANT MaxLines       \* how many lines are run: bounds the histories below

ASSUME MaxLinesAssumption == MaxLines \in Nat

VARIABLES
    forks,      \* which shell it is: TRUE for npshell, FALSE for the servers
    future,     \* the records: number, and the pipe, as the lines that write to it
    lineno,     \* history: the number of lines run so far
    stdin       \* history: the lines whose output the last first command reads

vars == <<forks, future, lineno, stdin>>

-----------------------------------------------------------------------------
\* for each record: number--
Tick(f) == {[r EXCEPT !.number = @ - 1] : r \in f}

Zero(f) == {r \in f : r.number = 0}

\* the record of that number gets one more writer; there is one if there was none
Write(f, skip, w) ==
    LET same == {r \in f : r.number = skip}
    IN  IF same = {}
        THEN f \cup {[number |-> skip, writers |-> {w}]}
        ELSE (f \ same) \cup {[r EXCEPT !.writers = @ \cup {w}] : r \in same}

-----------------------------------------------------------------------------
Init == forks \in BOOLEAN /\ future = {} /\ lineno = 0 /\ stdin = {}

\* the first command of the line takes the pipe whose number is 0, if there is one
TakeHead(f) ==
    \/ Zero(f) = {} /\ stdin' = {}
    \/ \E r \in Zero(f) : stdin' = r.writers

\* a line of commands that ends in |skip, or in no numbered pipe when skip = 0
CommandLine(skip) ==
    LET ticked == Tick(future)
        rest == ticked \ Zero(ticked)
        w == lineno + 1
    IN  /\ lineno < MaxLines
        /\ lineno' = w
        /\ TakeHead(ticked)
        /\ future' = IF skip > 0 THEN Write(rest, skip, w) ELSE rest
        /\ UNCHANGED forks

\* Mutant of BuiltinLine: a built-in command is not counted as a line.
BuiltinLineUncounted ==
    /\ lineno < MaxLines
    /\ lineno' = lineno + 1
    /\ stdin' = {}
    /\ UNCHANGED <<forks, future>>

\* a line that is a built-in command: no command of it reads the pipe
BuiltinLine ==
    LET ticked == Tick(future)
    IN  /\ lineno < MaxLines
        /\ lineno' = lineno + 1
        /\ stdin' = {}
        /\ future' = IF forks THEN ticked \ Zero(ticked) ELSE ticked
        /\ UNCHANGED forks

Next == BuiltinLine \/ \E skip \in 0..MaxSkip : CommandLine(skip)

Spec == Init /\ [][Next]_vars

-----------------------------------------------------------------------------
(* A number is never above what |N can say, and a pipe is written by lines      *)
(* that were run.                                                               *)
TypeOK ==
    /\ forks \in BOOLEAN
    /\ lineno \in 0..MaxLines
    /\ stdin \subseteq 1..lineno
    /\ future \subseteq [number : Int, writers : SUBSET (1..lineno)]
    /\ \A r \in future : r.number <= MaxSkip

(* Two records never have the same number, so that the searches for number 0    *)
(* and for number N, which stop or overwrite at the wrong one, cannot differ;   *)
(* and no pipe is shared between records (the head and tail loops).             *)
NumbersDiffer ==
    \A r, s \in future :
        r.number = s.number \/ r.writers \cap s.writers # {} => r = s

(* In npshell no record outlives its line: the two descriptors of a pipe that   *)
(* was due are closed with the child that took it.                              *)
NothingOverdue == forks => \A r \in future : r.number > 0

(* The countdown keeps the appointments of PipeSchedule.  A record that a       *)
(* server left below zero is nobody's input.                                    *)
Appointments ==
    {o \in [from : 1..MaxLines, to : 1..(MaxLines + MaxSkip)] :
        \E r \in future : /\ r.number > 0
                          /\ o.from \in r.writers
                          /\ o.to = lineno + r.number}
Schedule == INSTANCE PipeSchedule WITH pending <- Appointments
KeepsSchedule == Schedule!Spec
=============================================================================
