----------------------------- MODULE MCConsole -----------------------------
(* Test files for Console: the beginning of t3.txt, which has several removetag0 *)
(* into numbered pipes, files with one and with none, and one without exit.      *)
EXTENDS ConsolePage

SomeFiles == {
    <<"removetag", "removetag", "quiet", "quiet", "complain", "removetag", "quiet", "exit">>,
    <<"removetag", "complain", "removetag", "quiet", "exit">>,
    <<"quiet", "removetag", "complain", "quiet", "exit">>,
    <<"quiet", "complain", "exit">>,
    <<"quiet", "quiet">> }
=============================================================================
