---------------------------- MODULE MCShellJobs ----------------------------
(* Lines for ShellJobs.  A pipe holds two units: `ls` and `cat` of a small file *)
(* write one, `cat large_file.txt` writes three.                                *)
EXTENDS ShellJobs

Ls(skip) == [reads |-> FALSE, out |-> 1, skip |-> skip]
CatLarge(skip) == [reads |-> FALSE, out |-> 3, skip |-> skip]
Number(skip) == [reads |-> TRUE, out |-> 0, skip |-> skip]
Noop(skip) == [reads |-> FALSE, out |-> 0, skip |-> skip]

\* any mix of numbered pipes, and an output that overflows its pipe wherever what
\* it is read by comes on the same line or on the next
ShortLines == {
    <<Ls(2)>>, <<Number(0)>>, <<Number(1)>>, <<Noop(0)>>, <<Ls(-1), Number(1)>>,
    <<CatLarge(1)>>, <<CatLarge(-1), Noop(0)>>, <<CatLarge(1), Number(0)>>,
    <<CatLarge(-1), Number(-1), Number(0)>> }

\* an output that overflows its pipe and is read two lines later
LongLines == {<<Ls(2)>>, <<CatLarge(2)>>, <<Number(0)>>}
=============================================================================
