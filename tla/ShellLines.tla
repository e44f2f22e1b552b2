----------------------------- MODULE ShellLines -----------------------------
(* A shell from one input to the next: the input is cut into lines (LineSplit)  *)
(* and the lines go to the list of numbered pipes (NumberedPipes) one after the *)
(* other; line j has the commands line_h[j] to line_t[j].                       *)
(*                                                                              *)
(* npshell counts a built-in command as a command; it is the last of its input  *)
(* and has no pipe.  The servers do it while they parse: an input that begins   *)
(* with one comes to the loops with n = 0, and one behind other commands is not *)
(* seen here.  One that the memory before an array took away (see LineSplit) is *)
(* a line neither here nor in the schedule: no number goes down for it.         *)
EXTENDS LineSplit, NumberedPipes

VARIABLE j          \* the line that is run next

shellvars == <<vars, splitvars, j>>

-----------------------------------------------------------------------------
ShellInit ==
    /\ Init /\ SplitInit
    /\ forks => n > 0
    /\ j = 0

\* the prompt: an input that is not empty
Input ==
    /\ pc = "done" /\ j = p
    /\ n' \in 0..MaxCommands /\ (forks => n' > 0)
    /\ skip' \in [0..(n' - 1) -> -1..MaxSkip]
    /\ before' \in BOOLEAN /\ (n' > 0 => ~before')
    /\ i' = 0 /\ p' = 0 /\ j' = 0
    /\ line_h' = Put(Empty, 0, 0) /\ line_t' = Empty
    /\ pc' = "loop"
    /\ UNCHANGED vars

Split == SplitNext /\ UNCHANGED <<vars, j>>

\* the loop over the lines has come to line j
Runs == pc = "done" /\ j < p /\ j' = j + 1 /\ UNCHANGED splitvars

RunCommands ==
    /\ Runs /\ line_h[j] <= line_t[j]
    /\ CommandLine(IF EndsInNumber(line_t[j]) THEN skip[line_t[j]] ELSE 0)

\* a server: no command is left in the line.  npshell: it is a command of its own
RunBuiltin ==
    /\ Runs
    /\ IF forks THEN j = p - 1 /\ line_h[j] = line_t[j] /\ skip[line_t[j]] = 0
                ELSE line_h[j] > line_t[j]
    /\ BuiltinLine

ShellNext == Input \/ Split \/ RunCommands \/ RunBuiltin

ShellSpec == ShellInit /\ [][ShellNext]_shellvars
=============================================================================
