----------------------------- MODULE LineSplit -----------------------------
(* How a shell cuts the commands of an input line into the lines that numbered  *)
(* pipes count: a run of commands ends at each |N or !N and at the end of the   *)
(* input (npshell.cpp and the three servers have the same loop).  skip[i] is    *)
(* what char_to_int left for command i: N, -1 for an ordinary pipe, 0 for none. *)
(*                                                                              *)
(* An array is a function on the cells that were written.  In the servers a     *)
(* line that is a built-in command comes here with n = 0: the loop runs over    *)
(* nothing, and behind it skip[n-1] is read before the array and line_t[p-1]    *)
(* written, before its array too when p stayed 0.  What is read is memory that  *)
(* nobody set: `before` says whether it is above 0, either way at every input.  *)
(* npshell has a command for every word it is given, and n is never 0 there.    *)
EXTENDS ShellLimits

CONSTANT MaxCommands    \* commands on an input line: 4000 in the code

ASSUME MaxCommandsAssumption == MaxCommands \in Nat \ {0}

VARIABLES
    n,          \* the number of commands
    skip,       \* the pipe after each command
    before,     \* the cell before skip is above 0 (looked at only if n is 0)
    i,          \* the command the loop looks at
    p,          \* the number of lines cut so far
    line_h,     \* line_h[j]: the first command of line j
    line_t,     \* line_t[j]: the last command of line j
    pc

splitvars == <<n, skip, before, i, p, line_h, line_t, pc>>

Put(a, k, v) == [x \in DOMAIN a \cup {k} |-> IF x = k THEN v ELSE a[x]]
Empty == [x \in {} |-> 0]

EndsInNumber(c) == IF c >= 0 THEN skip[c] > 0 ELSE before

SplitInit ==
    /\ n \in 0..MaxCommands
    /\ skip \in [0..(n - 1) -> -1..MaxSkip]
    /\ before \in BOOLEAN /\ (n > 0 => ~before)
    /\ i = 0
    /\ p = 0
    /\ line_h = Put(Empty, 0, 0)
    /\ line_t = Empty
    /\ pc = "loop"

\* Mutant of Cut: the next line is opened even when no command is left for it.
CutAtEnd ==
    /\ pc = "loop" /\ i < n /\ EndsInNumber(i)
    /\ line_t' = Put(line_t, p, i)
    /\ line_h' = Put(line_h, p + 1, i + 1)
    /\ p' = p + 1
    /\ i' = i + 1
    /\ UNCHANGED <<n, skip, before, pc>>

\* command i ends in |N: it closes line p and the next command opens line p + 1
Cut ==
    /\ pc = "loop" /\ i < n /\ EndsInNumber(i)
    /\ line_t' = Put(line_t, p, i)
    /\ line_h' = IF i + 1 < n THEN Put(line_h, p + 1, i + 1) ELSE line_h
    /\ p' = p + 1
    /\ i' = i + 1
    /\ UNCHANGED <<n, skip, before, pc>>

Pass ==
    /\ pc = "loop" /\ i < n /\ ~EndsInNumber(i)
    /\ i' = i + 1
    /\ UNCHANGED <<n, skip, before, p, line_h, line_t, pc>>

\* Mutant of Close: the last line is counted whether or not |N closed it already.
CloseAlways ==
    /\ pc = "loop" /\ i = n
    /\ p' = p + 1
    /\ line_t' = Put(line_t, p' - 1, n - 1)
    /\ pc' = "done"
    /\ UNCHANGED <<n, skip, before, i, line_h>>

\* the commands after the last |N, if there are any, are a line too
Close ==
    /\ pc = "loop" /\ i = n
    /\ p' = IF EndsInNumber(n - 1) THEN p ELSE p + 1
    /\ line_t' = Put(line_t, p' - 1, n - 1)
    /\ pc' = "done"
    /\ UNCHANGED <<n, skip, before, i, line_h>>

SplitNext == Cut \/ Pass \/ Close

SplitSpec == SplitInit /\ [][SplitNext]_splitvars

-----------------------------------------------------------------------------
(* The shape of the state.  No cell past an array of MaxCommands is used, and    *)
(* none before one but by a built-in command, which writes line_t[-1] when what *)
(* it read at skip[-1] was above 0; a line begins and ends at commands.         *)
SplitTypeOK ==
    /\ n \in 0..MaxCommands
    /\ skip \in [0..(n - 1) -> -1..MaxSkip]
    /\ i \in 0..n
    /\ before \in BOOLEAN
    /\ p \in 0..n \/ (n = 0 /\ p = 1)
    /\ \A l \in DOMAIN line_h :
            /\ l \in 0..(MaxCommands - 1)
            /\ line_h[l] \in 0..(n - 1) \/ (n = 0 /\ line_h[l] = 0)
    /\ \A l \in DOMAIN line_t :
            /\ l \in 0..(MaxCommands - 1) \/ (l = -1 /\ n = 0 /\ before)
            /\ line_t[l] \in 0..(n - 1) \/ (n = 0 /\ line_t[l] = -1)
    /\ pc \in {"loop", "done"}

(* The lines are the commands, each once and in order, cut behind every |N and  *)
(* nowhere else: what the two loops that fork run over (line_h to line_t).      *)
LinesPartition ==
    pc = "done" /\ n > 0 =>
        /\ p > 0 /\ 0..(p - 1) \subseteq DOMAIN line_h \cap DOMAIN line_t
        /\ line_h[0] = 0 /\ line_t[p - 1] = n - 1
        /\ \A l \in 0..(p - 1) : line_h[l] <= line_t[l]
        /\ \A l \in 1..(p - 1) : line_h[l] = line_t[l - 1] + 1
        /\ \A l \in 0..(p - 1) : \A c \in line_h[l]..line_t[l] :
                EndsInNumber(c) => c = line_t[l]
        /\ \A l \in 0..(p - 2) : EndsInNumber(line_t[l])

(* A built-in command of a server is one line in which nothing is run, or, when *)
(* the memory before skip holds a number above 0, no line at all.               *)
BuiltinIsEmpty ==
    pc = "done" /\ n = 0 =>
        /\ p = IF before THEN 0 ELSE 1
        /\ \A l \in 0..(p - 1) : l \in DOMAIN line_t /\ line_h[l] = 0 /\ line_t[l] = -1
=============================================================================
