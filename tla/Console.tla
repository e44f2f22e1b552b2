------------------------------ MODULE Console ------------------------------
(* One session of the consoles (console.cpp of projects 3 and 4, and the class  *)
(* console of cgi_server.cpp): it connects to a shell server, in project 4      *)
(* maybe through a SOCKS proxy, and plays a test file against it, a line for    *)
(* each prompt.  There is one exception: behind a line with removetag0 whose    *)
(* output goes to a later line it waits for the word Error instead of a prompt. *)
(* The Error is written by removetag0, which the shell does not wait for, and   *)
(* the prompt by the shell: they come in any order.                             *)
(*                                                                              *)
(* What the sessions of one page share is in ConsolePage.  The shell is one of  *)
(* the servers of project 2: a recv takes what has arrived for one line, and    *)
(* what is behind the first newline is lost.  No output has a % (the assignment *)
(* says so), and no write is torn apart, though several are read at once.       *)
EXTENDS Integers, Sequences, FiniteSets

CONSTANTS
    Files,      \* test files: sequences of kinds of lines
    MaxUnread,  \* others speak while fewer pieces are unread: bounds the queue
    Buffer      \* how many pieces fill the buffer that cgi_server reads an Error into

\* a command that prints no error, one that prints an error before its prompt,
\* removetag0 into a numbered pipe, and what getline gives behind the last line
Kinds == {"quiet", "complain", "removetag", "exit"}
Lines == Kinds \cup {"empty"}
Pieces == {"text", "Error", "prompt"}
Programs == {"console", "proxied", "cgi"}

ASSUME FilesAssumption == \A f \in Files : f \in Seq(Kinds)
ASSUME MaxUnreadAssumption == MaxUnread \in Nat /\ Buffer \in Nat \ {0}

VARIABLES
    file,       \* the test file
    program,    \* which console it is, and whether it goes through a proxy
    pos,        \* the line that getline returns next
    session,    \* which completion the session waits for
    toConsole,  \* pieces on their way to the console
    toShell,    \* lines on their way to the shell
    shell,      \* what the server does
    complaints, \* the number of removetag0 that have yet to print their Error
    lost        \* history: the lines that recv threw away

vars == <<file, program, pos, session, toConsole, toShell, shell, complaints, lost>>
console == <<file, program, pos, session>>

-----------------------------------------------------------------------------
SessionInit ==
    /\ file \in Files /\ program \in Programs
    /\ pos = 1
    /\ session = "connect"
    /\ toConsole = <<>> /\ toShell = <<>>
    /\ shell = "absent"
    /\ complaints = 0
    /\ lost = {}

\* async_resolve, async_connect: straight to the shell, or to the proxy, which
\* is sent the request.
Connect ==
    /\ session = "connect"
    /\ IF program = "proxied"
         THEN session' = "reply" /\ shell' = "proxy"
         ELSE session' = "read" /\ shell' = "run"
    /\ UNCHANGED <<file, program, pos, toConsole, toShell, complaints, lost>>

\* No such host, or nobody listens: the callbacks return and do nothing.
ConnectFails ==
    /\ session = "connect"
    /\ session' = "stopped"
    /\ UNCHANGED <<file, program, pos, toConsole, toShell, shell, complaints, lost>>

\* The proxy answers 90, and the shell is there, or 91.  wait_reply reads no
\* more than the answer.
wait_reply ==
    /\ session = "reply" /\ shell = "proxy"
    /\ \/ session' = "read" /\ shell' = "run"
       \/ session' = "stopped" /\ shell' = "gone"
    /\ UNCHANGED <<file, program, pos, toConsole, toShell, complaints, lost>>

NextLine == IF pos <= Len(file) THEN file[pos] ELSE "empty"

\* Mutant of AfterWrite: waits for an Error behind removetag0 and its neighbours.
AfterWriteQuiet(line) ==
    CASE line \in {"removetag", "quiet"} -> "error"
      [] line = "exit" -> "finish"
      [] OTHER -> "read"

\* Which callback runs when the line is written.
AfterWrite(line) ==
    CASE line = "removetag" -> "error"
      [] line = "exit" -> "finish"
      [] OTHER -> "read"

\* Mutant of do_write: reads on behind the end of the file.
do_write_past ==
    /\ toShell' = Append(toShell, NextLine)
    /\ session' = AfterWrite(NextLine)
    /\ pos' = pos + 1

\* getline, and the line is sent.
do_write ==
    /\ toShell' = Append(toShell, NextLine)
    /\ session' = AfterWrite(NextLine)
    /\ pos' = IF pos <= Len(file) THEN pos + 1 ELSE pos

\* What one async_read_some returns: some of the pieces.
Some == 1..Len(toConsole)
Received(n) == {toConsole[i] : i \in 1..n}
Rest(n) == SubSeq(toConsole, n + 1, Len(toConsole))

\* Mutant of ReadFor: answers everything that it reads.
ReadForAny(waiting, word, sizes) ==
    /\ session = waiting
    /\ \E n \in sizes : toConsole' = Rest(n) /\ do_write
    /\ UNCHANGED <<file, program, shell, complaints, lost>>

\* Mutant of ReadFor: looks for the word at the end of what it read.
ReadForLast(waiting, word, sizes) ==
    /\ session = waiting
    /\ \E n \in sizes :
         /\ toConsole' = Rest(n)
         /\ IF word = toConsole[n]
              THEN do_write
              ELSE UNCHANGED <<session, toShell, pos>>
    /\ UNCHANGED <<file, program, shell, complaints, lost>>

\* A read of one of these sizes returns: a line is sent if it has the word that
\* do_read or do_error looks for.
ReadFor(waiting, word, sizes) ==
    /\ session = waiting
    /\ \E n \in sizes :
         /\ toConsole' = Rest(n)
         /\ IF word \in Received(n)
              THEN do_write
              ELSE UNCHANGED <<session, toShell, pos>>
    /\ UNCHANGED <<file, program, shell, complaints, lost>>

do_read == ReadFor("read", "prompt", Some)
do_error == program # "cgi" /\ ReadFor("error", "Error", Some)

\* do_error of cgi_server: async_read returns when the buffer is full
do_error_full == program = "cgi" /\ ReadFor("error", "Error", Some \cap {Buffer})

-----------------------------------------------------------------------------
\* The shell prompts: to begin with, and when it is done with a line.
Prompt ==
    /\ shell = "run"
    /\ toConsole' = Append(toConsole, "prompt")
    /\ shell' = "wait"
    /\ UNCHANGED <<console, toShell, complaints, lost>>

\* recv returns n lines: the first is run, the others are lost.
Recv ==
    /\ shell = "wait"
    /\ \E n \in 1..Len(toShell) :
         /\ toShell' = SubSeq(toShell, n + 1, Len(toShell))
         /\ lost' = lost \cup {toShell[i] : i \in 2..n}
    /\ LET line == Head(toShell) IN
         /\ shell' = IF line = "exit" THEN "gone" ELSE "run"
         /\ complaints' = complaints + (IF line = "removetag" THEN 1 ELSE 0)
         /\ toConsole' = IF line = "complain" THEN Append(toConsole, "Error") ELSE toConsole
    /\ UNCHANGED console

\* A removetag0 that the shell does not wait for reads on and finds the tag.
Complain ==
    /\ complaints > 0
    /\ complaints' = complaints - 1
    /\ toConsole' = Append(toConsole, "Error")
    /\ UNCHANGED <<console, toShell, shell, lost>>

\* Output of a command, or another user yells.
Text ==
    /\ shell \in {"run", "wait"}
    /\ Len(toConsole) < MaxUnread
    /\ toConsole' = Append(toConsole, "text")
    /\ UNCHANGED <<console, toShell, shell, complaints, lost>>

\* The steps of the console, and those of the shell and its commands.
Session ==
    Connect \/ ConnectFails \/ wait_reply \/ do_read \/ do_error \/ do_error_full
ShellSide == Prompt \/ Recv \/ Complain \/ Text

-----------------------------------------------------------------------------
(* Properties *)

\* The shape of the state; getline never goes past the end of the file.
TypeOK ==
    /\ file \in Files /\ program \in Programs
    /\ pos \in 1..(Len(file) + 1)
    /\ session \in {"connect", "reply", "read", "error", "finish", "stopped"}
    /\ toConsole \in Seq(Pieces) /\ toShell \in Seq(Lines)
    /\ shell \in {"absent", "proxy", "run", "wait", "gone"}
    /\ complaints \in 0..Len(file)
    /\ lost \subseteq Lines

Removetags(lines) == Cardinality({i \in DOMAIN lines : lines[i] = "removetag"})

\* A line is sent for a prompt, so that one at most is unread, and recv gets
\* lines one by one; only do_error, once for each line that it waits behind, can
\* send one that the shell has not asked for.
StaysInStep ==
    LET ahead == Removetags(SubSeq(file, 1, pos - 1)) IN
    /\ Len(toShell) <= 1 + ahead
    /\ ahead = 0 => lost = {}

HasExit == \E i \in DOMAIN file : file[i] = "exit"
Over == session \in {"finish", "stopped"}

\* A session ends, however text, prompts and errors are mixed and cut by the
\* reads, or it waits for the Error of a removetag0 that recv threw away; that of
\* cgi_server also where its buffer does not fill.
StuckOnlyForLost ==
    HasExit => <>(Over \/ [](session = "error" /\ ("removetag" \in lost \/ program = "cgi")))

\* A session with at most one line that do_error waits behind ends; in cgi_server
\* one with none.
FilesFinish ==
    HasExit /\ Removetags(file) <= (IF program = "cgi" THEN 0 ELSE 1) => <>Over
=============================================================================
