---------------------------- MODULE PipeSchedule ----------------------------
(* What numbered pipes promise, without any countdown: the output of a line     *)
(* that ends in |N belongs to the first command of the N-th line after it, and  *)
(* everything due at a line is that command's standard input, merged.  Lines    *)
(* are numbered as they are run; a built-in command is a line too.              *)
EXTENDS Integers

CONSTANTS
    MaxSkip,    \* the largest N of |N, 1000 in the specification of the shell
    MaxLines    \* how many lines are run

VARIABLES
    lineno,     \* the number of lines run so far
    pending,    \* the outputs waiting: from line `from` for line `to`
    stdin       \* the lines whose output the last line's first command reads

Due(l) == {o.from : o \in {q \in pending : q.to = l}}
After(l) == {o \in pending : o.to > l}

Init == lineno = 0 /\ pending = {} /\ stdin = {}

CommandLine(skip) ==
    /\ lineno < MaxLines
    /\ lineno' = lineno + 1
    /\ stdin' = Due(lineno + 1)
    /\ pending' = After(lineno + 1) \cup
                  {o \in {[from |-> lineno + 1, to |-> lineno + 1 + skip]} : skip > 0}

\* a built-in command reads nothing: what was due at it is gone
BuiltinLine ==
    /\ lineno < MaxLines
    /\ lineno' = lineno + 1
    /\ stdin' = {}
    /\ pending' = After(lineno + 1)

Next == BuiltinLine \/ \E skip \in 0..MaxSkip : CommandLine(skip)

Spec == Init /\ [][Next]_<<lineno, pending, stdin>>
=============================================================================
