------------------------------ MODULE UserFifos ------------------------------
(* The user pipes of np_multi_proc.cpp, on top of its table.  A pipe from one   *)
(* user to another is a FIFO, named after the two ids.  The writer marks it in  *)
(* fifo_check (2), signals the reader and waits in open; the reader's handler   *)
(* looks through the marks for its id, takes each over (1), opens the FIFO from *)
(* the other side and puts it on a list of its process, userpipe.  A line that  *)
(* reads it takes it off that list and clears the mark.                         *)
(*                                                                              *)
(* A command inherits the read ends of all FIFOs on the list of its shell, and  *)
(* closes its own two only.  While it runs, the next writer of one of these     *)
(* FIFOs finds a reader and does not wait for the handler; and the handler,     *)
(* when that writer has ended meanwhile, waits for ever.                        *)
(*                                                                              *)
(* By the specification nobody pipes to himself, and clients take turns: also   *)
(* a command that reads a user pipe ends before somebody else types.  One that  *)
(* only writes may go on, a reader may have to come first.  A refusal changes   *)
(* nothing but what is printed.                                                 *)
EXTENDS SharedTable, SequencesExt

CONSTANTS
    MaxCommands,\* how many commands go on while somebody types: a bound
    Links,      \* the <<sender, receiver>> that users try: all of them, or fewer in a run
    Movers      \* the ids whose users rename themselves and leave: all, or fewer in a run

VARIABLES
    fifo_check, \* fifo_check[s][r]: 0, 2 when marked, 1 when the reader took over
    userpipe,   \* the list of a process: the senders of the FIFOs it has open
    line,       \* the line of a process: `<from` and `>to`, and the FIFO it got
    pending,    \* SIGUSR2 is pending
    cursor,     \* the user that the handler looks at, 0 outside of the handler
    opening,    \* the sender whose FIFO the handler waits to open, or 0
    commands,   \* the commands that hold a FIFO: their own ends, the read ends that
                \* they inherited, and the process that waits for them, or 0
    lost,       \* history: pipes whose reader left before reading
    alone       \* history: pipes whose writer found the FIFO open by inheritance, and
                \* that the reader's handler has not opened yet

fifos == <<fifo_check, userpipe, line, pending, cursor, opening, commands, lost, alone>>
vars == <<tableVars, fifos>>

NoPipe == <<>>
Pipes == Table \X Table
NoLine == [from |-> 0, to |-> 0, in |-> NoPipe]

(* The name of the FIFO: the digits of both ids, the last ones first, in turn   *)
(* from the sender's and the receiver's, until nothing is left of either.       *)
fifoid(sender_id, receiver_id) ==
    LET digits[i \in 0..9, s \in 0..99, r \in 0..99] ==
            IF s = 0 /\ r = 0 THEN <<>>
            ELSE IF i % 2 = 0 THEN <<s % 10>> \o digits[i + 1, s \div 10, r]
            ELSE <<r % 10>> \o digits[i + 1, s, r \div 10]
    IN  digits[0, sender_id, receiver_id]

FifoName == [p \in (1..30) \X (1..30) |-> fifoid(p[1], p[2])]

(* Two pipes never meet in one file, 1 -> 11 and 11 -> 1 neither: for the ids   *)
(* of the code this is decided by evaluating fifoid.                            *)
ASSUME FifoNamesDiffer ==
    /\ Table \subseteq 1..30
    /\ \A p, q \in DOMAIN FifoName : FifoName[p] = FifoName[q] => p = q

-----------------------------------------------------------------------------
FifosInit ==
    /\ TableInit
    /\ fifo_check = [s \in Table |-> [r \in Table |-> 0]]
    /\ userpipe = [p \in Pids |-> <<>>]
    /\ line = [p \in Pids |-> NoLine]
    /\ pending = [p \in Pids |-> FALSE]
    /\ cursor = [p \in Pids |-> 0]
    /\ opening = [p \in Pids |-> 0]
    /\ commands = {} /\ lost = {} /\ alone = {}

\* no command reads a user pipe: the line it is in has not ended
NobodyReads == \A c \in commands : c.in = NoPipe

\* process p is at a step of its own, outside of its handler
Goes(p, s) == At(p, s) /\ cursor[p] = 0

rest == <<memory, main, waiting, id, ghosts, restarts, calm>>

\* a line is over, or goes on to its wait: its command is forked
ForksCommand(p, out, waiter) ==
    commands' = commands \cup
        {c \in {[in |-> line[p].in, out |-> out, waiter |-> waiter,
                 held |-> {<<s, id[p]>> : s \in ToSet(userpipe[p])}]} :
         c.in # NoPipe \/ c.out # NoPipe \/ c.held # {}}

\* and its recv returns a line: no signal is pending, it would come first
AtPrompt(p) == Goes(p, "prompt") /\ ~pending[p]

\* a line `cat <from`, `ls >to` or `cat <from >to`
Type(p, from, to) ==
    /\ Turn /\ NobodyReads /\ AtPrompt(p) /\ Cardinality(commands) <= MaxCommands
    /\ id[p] \in Table /\ id[p] \notin {from, to} /\ {from, to} # {0}
    /\ from # 0 => <<from, id[p]>> \in Links
    /\ to # 0 => <<id[p], to>> \in Links
    /\ line' = [line EXCEPT ![p] = [from |-> from, to |-> to, in |-> NoPipe]]
    /\ Begin(p, "get")
    /\ UNCHANGED <<memory, main, waiting, id, ghosts, restarts>>
    /\ UNCHANGED <<fifo_check, userpipe, pending, cursor, opening, commands, lost, alone>>

\* Mutant of get_userpipe: the mark is cleared whether the list has the pipe or not.
get_userpipe_clears(p) ==
    LET s == line[p].from
        has == s # 0 /\ Contains(userpipe[p], s)
    IN  /\ Goes(p, "get") /\ Become(p, "add")
        /\ fifo_check' = [i \in Table |-> [fifo_check[i] EXCEPT ![id[p]] =
                                                IF i = s THEN 0 ELSE @]]
        /\ userpipe' = [userpipe EXCEPT ![p] = IF has THEN RemoveFirst(@, s) ELSE @]
        /\ line' = [line EXCEPT ![p].in = IF has THEN <<s, id[p]>> ELSE NoPipe]
        /\ UNCHANGED <<rest, pending, cursor, opening, commands, lost, alone>>

get_userpipe(p) ==
    LET s == line[p].from
    IN  /\ Goes(p, "get") /\ Become(p, "add")
        /\ \/ /\ s # 0 /\ taken[s] /\ Contains(userpipe[p], s)
              /\ userpipe' = [userpipe EXCEPT ![p] = RemoveFirst(@, s)]
              /\ fifo_check' = [fifo_check EXCEPT ![s][id[p]] = 0]
              /\ line' = [line EXCEPT ![p].in = <<s, id[p]>>]
           \/ /\ s # 0 => ~taken[s] \/ ~Contains(userpipe[p], s)
              /\ UNCHANGED <<userpipe, fifo_check, line>>
        /\ UNCHANGED <<rest, pending, cursor, opening, commands, lost, alone>>

add_userpipe(p) ==
    LET r == line[p].to
        accepted == r # 0 /\ taken[r] /\ fifo_check[id[p]][r] = 0
    IN  /\ Goes(p, "add")
        /\ \/ /\ accepted
              /\ fifo_check' = [fifo_check EXCEPT ![id[p]][r] = 2]
              /\ Become(p, "signal")
              /\ UNCHANGED <<commands, line>>
           \/ /\ ~accepted
              /\ Become(p, IF r = 0 THEN "wait" ELSE "prompt")
              /\ line' = IF r = 0 THEN line ELSE [line EXCEPT ![p] = NoLine]
              /\ ForksCommand(p, NoPipe, IF r = 0 THEN p ELSE 0)
              /\ UNCHANGED fifo_check
        /\ UNCHANGED <<rest, userpipe, pending, cursor, opening, lost, alone>>

\* kill; where no pid is written yet it is 0, and means every process
Signal(p) ==
    /\ Goes(p, "signal") /\ Become(p, "open")
    /\ pending' = [q \in Pids |->
            \/ pending[q]
            \/ pid[line[p].to] \in {q, NoPid} /\ step[q] \notin {"none", "gone"}]
    /\ UNCHANGED <<rest, fifo_check, userpipe, line, cursor, opening, commands, lost, alone>>

\* the shell waits for a command that writes into no user pipe
Waited(p) ==
    /\ Goes(p, "wait") /\ \A c \in commands : c.waiter # p
    /\ Become(p, "prompt")
    /\ line' = [line EXCEPT ![p] = NoLine]
    /\ UNCHANGED <<rest, fifo_check, userpipe, pending, cursor, opening, commands, lost, alone>>

\* a command that reads a FIFO ends when nobody writes into it any more
CommandEnds(c) ==
    /\ \A d \in commands : c.in # NoPipe => d.out # c.in
    /\ commands' = commands \ {c}
    /\ UNCHANGED <<tableVars, fifo_check, userpipe, line, pending, cursor, opening, lost, alone>>

-----------------------------------------------------------------------------
\* there are no marks for the id 0, which a process has before login
Enter(p) ==
    /\ pending[p] /\ cursor[p] = 0 /\ step[p] \notin {"none", "gone"}
    /\ pending' = [pending EXCEPT ![p] = FALSE]
    /\ cursor' = [cursor EXCEPT ![p] =
                    IF step[p] \in Outside \/ id[p] \notin Table THEN 0 ELSE 1]
    /\ UNCHANGED <<tableVars, fifo_check, userpipe, line, opening, commands, lost, alone>>

\* Mutant of Marked: sender and receiver are mixed up.
MarkedBack(p) == fifo_check[id[p]][cursor[p]] = 2

Marked(p) == fifo_check[cursor[p]][id[p]] = 2

\* Mutant of NextCursor: the loop goes one too far.
NextCursorPast(p) == IF cursor[p] > MaxUsers THEN 0 ELSE cursor[p] + 1

Looks(p) == cursor[p] # 0 /\ opening[p] = 0
NextCursor(p) == IF cursor[p] = MaxUsers THEN 0 ELSE cursor[p] + 1

Pass(p) ==
    /\ Looks(p) /\ ~Marked(p)
    /\ cursor' = [cursor EXCEPT ![p] = NextCursor(p)]
    /\ UNCHANGED <<tableVars, fifo_check, userpipe, line, pending, opening, commands, lost, alone>>

TakeOver(p) ==
    /\ Looks(p) /\ Marked(p)
    /\ fifo_check' = [fifo_check EXCEPT ![cursor[p]][id[p]] = 1]
    /\ opening' = [opening EXCEPT ![p] = cursor[p]]
    /\ UNCHANGED <<tableVars, userpipe, line, pending, cursor, commands, lost, alone>>

SameFile(pipe, other) == FifoName[pipe] = FifoName[other]
OpensFor(q, pipe) == opening[q] # 0 /\ SameFile(<<opening[q], id[q]>>, pipe)

\* the writer's open has returned: it forks its command and prompts
WriterOpens(p) ==
    /\ Goes(p, "open") /\ Become(p, "prompt")
    /\ ForksCommand(p, <<id[p], line[p].to>>, 0)
    /\ line' = [line EXCEPT ![p] = NoLine]

\* the handler's open has returned: it goes on to the next user
ReaderOpens(q) ==
    /\ userpipe' = [userpipe EXCEPT ![q] = Append(@, opening[q])]
    /\ opening' = [opening EXCEPT ![q] = 0]
    /\ cursor' = [cursor EXCEPT ![q] = NextCursor(q)]

(* Both are in open for the same file: each waits for the other, whoever came   *)
(* first, and both return.                                                      *)
Open(p, q) ==
    /\ At(p, "open") /\ OpensFor(q, <<id[p], line[p].to>>)
    /\ WriterOpens(p) /\ ReaderOpens(q)
    /\ UNCHANGED <<rest, fifo_check, pending, lost, alone>>

\* some process has the file open to read from: a command or a list
HasReader(pipe) ==
    \/ \E c \in commands : \E h \in c.held \cup ({c.in} \ {NoPipe}) : SameFile(h, pipe)
    \/ \E q \in Pids : \E s \in ToSet(userpipe[q]) : SameFile(<<s, id[q]>>, pipe)
HasWriter(pipe) == \E c \in commands : c.out # NoPipe /\ SameFile(c.out, pipe)

\* the writer's open returns at once: somebody has the file open already
OpensAlone(p) ==
    LET pipe == <<id[p], line[p].to>>
    IN  /\ At(p, "open") /\ HasReader(pipe) /\ \A q \in Pids : ~OpensFor(q, pipe)
        /\ WriterOpens(p)
        /\ alone' = alone \cup {pipe}
        /\ UNCHANGED <<rest, fifo_check, userpipe, pending, cursor, opening, lost>>

\* and the handler's: the command of such a writer is still there
HandlerOpens(q) ==
    LET pipe == <<opening[q], id[q]>>
    IN  /\ opening[q] # 0 /\ HasWriter(pipe)
        /\ ReaderOpens(q)
        /\ alone' = alone \ {pipe}
        /\ UNCHANGED <<tableVars, fifo_check, line, pending, commands, lost>>

-----------------------------------------------------------------------------
\* the end of a process closes what it has open, and leaves fifo_check alone
Exit(p) ==
    /\ cursor[p] = 0 /\ Ends(p)
    /\ userpipe' = [userpipe EXCEPT ![p] = <<>>]
    /\ pending' = [pending EXCEPT ![p] = FALSE]
    /\ lost' = lost \cup {<<s, id[p]>> : s \in ToSet(userpipe[p])}
    /\ UNCHANGED <<fifo_check, line, cursor, opening, commands, alone>>

\* Mutant of Leaves: logout clears the marks of the pipes of the user.
LeavesClean(p) ==
    /\ NobodyReads /\ AtPrompt(p) /\ id[p] \in Movers
    /\ logout(p)
    /\ fifo_check' = [s \in Table |-> [r \in Table |->
                        IF id[p] \in {s, r} THEN 0 ELSE fifo_check[s][r]]]
    /\ UNCHANGED <<userpipe, line, pending, cursor, opening, commands, lost, alone>>

Leaves(p) ==
    /\ NobodyReads /\ AtPrompt(p) /\ id[p] \in Movers
    /\ logout(p)
    /\ UNCHANGED fifos

(* What a user behind the table writes over the marks: from fifo_check[16][16]  *)
(* on, the middle of the array, there are the first bytes of the text, for as   *)
(* long as it is (here to the end of the row), and then zeros.                  *)
Text == 10794
Middle == MaxUsers \div 2 + 1
Overwritten(marks) ==
    [s \in Table |-> [r \in Table |->
        IF s < Middle \/ (s = Middle /\ r < Middle) THEN marks[s][r]
        ELSE IF s = Middle THEN Text ELSE 0]]

\* the table's own steps are outside of any handler
TableStep(p) ==
    /\ cursor[p] = 0
    /\ find_id(p) \/ take_id(p) \/ login(p)
    /\ fifo_check' = IF At(p, "login") /\ id[p] \notin Table
                     THEN Overwritten(fifo_check) ELSE fifo_check
    /\ UNCHANGED <<userpipe, line, pending, cursor, opening, commands, lost, alone>>

Renames(p) ==
    /\ NobodyReads /\ AtPrompt(p) /\ id[p] \in Movers
    /\ \E newname \in Names : name(p, newname)
    /\ UNCHANGED fifos

ServerRestart ==
    /\ Restart
    /\ fifo_check' = [s \in Table |-> [r \in Table |-> 0]]
    /\ userpipe' = [p \in Pids |-> <<>>]
    /\ line' = [p \in Pids |-> NoLine]
    /\ pending' = [p \in Pids |-> FALSE]
    /\ cursor' = [p \in Pids |-> 0]
    /\ opening' = [p \in Pids |-> 0]
    /\ commands' = {} /\ lost' = {} /\ alone' = {}

Process(p) ==
    \/ TableStep(p) \/ Exit(p)
    \/ get_userpipe(p) \/ add_userpipe(p) \/ Signal(p) \/ Waited(p)
    \/ OpensAlone(p) \/ \E q \in Pids : Open(p, q)
handler_sig(p) == Enter(p) \/ Pass(p) \/ TakeOver(p) \/ HandlerOpens(p)
Runs(p) == Process(p) \/ handler_sig(p)

FifosNext ==
    \/ (Parent \/ Connect) /\ UNCHANGED fifos
    \/ ServerRestart
    \/ \E p \in Pids : Runs(p)
    \/ \E c \in commands : CommandEnds(c)
    \/ \E p \in Pids :
        \/ Leaves(p) \/ Renames(p)
        \/ \E from, to \in Table \cup {0} : Type(p, from, to)

(* The parent and each process of a client run on when they can; nobody has to  *)
(* type, and no command has to end.                                             *)
FifosSpec ==
    /\ FifosInit /\ [][FifosNext]_vars
    /\ WF_vars(Parent /\ UNCHANGED fifos)
    /\ \A p \in Pids : WF_vars(Runs(p))

-----------------------------------------------------------------------------
FifoSteps == TableSteps \cup {"get", "add", "signal", "open", "wait"}

(* Shapes; a handler waits in open for the user that it looks at; a mark is one *)
(* of three numbers unless an announcement lies over it.                        *)
FifosTypeOK ==
    /\ TableTypeOK
    /\ step \in [Pids -> FifoSteps]
    /\ fifo_check \in [Table -> [Table -> {0, 1, 2, Text}]]
    /\ calm => \A s, r \in Table : fifo_check[s][r] # Text
    /\ userpipe \in [Pids -> Seq(Table)]
    /\ line \in [Pids -> [from : Table \cup {0}, to : Table \cup {0},
                          in : Pipes \cup {NoPipe}]]
    /\ pending \in [Pids -> BOOLEAN]
    /\ cursor \in [Pids -> Table \cup {0}]
    /\ opening \in [Pids -> Table \cup {0}]
    /\ \A p \in Pids : opening[p] \in {0, cursor[p]}
    /\ commands \subseteq [in : Pipes \cup {NoPipe}, out : Pipes \cup {NoPipe},
                           held : SUBSET Pipes, waiter : Pids \cup {0}]
    /\ lost \subseteq Pipes /\ alone \subseteq Pipes

(* The mark that stops a second pipe, and the list that the reader looks into,  *)
(* are in two memories and agree in calm: a pipe is marked as taken over        *)
(* exactly when the reader has it once on its list or opens it right now.  Only *)
(* a reader who left takes the list along and leaves the mark.                  *)
RecordsAgree == calm =>
    \A s, r \in Table :
        /\ fifo_check[s][r] = 1 <=>
            \/ <<s, r>> \in lost
            \/ \E q \in Pids : id[q] = r /\ step[q] # "gone"
                    /\ (Contains(userpipe[q], s) \/ opening[q] = s)
        /\ \A q \in Pids : \A i, j \in DOMAIN userpipe[q] :
                userpipe[q][i] = userpipe[q][j] => i = j

(* A FIFO outlives its pipe as a file.  When a writer opens it in calm, nobody  *)
(* writes or reads an earlier pipe of the same two ids, and no list has it: who *)
(* holds it open can only have inherited it, and never reads.                   *)
FifoIsFresh == calm =>
    \A p \in Pids : step[p] = "open" =>
        LET pipe == <<id[p], line[p].to>>
        IN  /\ \A c \in commands : pipe \notin {c.in, c.out}
            /\ \A q \in Pids : id[q] = line[p].to => ~Contains(userpipe[q], id[p])

(* Whoever waits in open returns, the writer to its prompt and the handler to   *)
(* what it interrupted, however signals are merged and wherever the handler is  *)
(* in its loop when the mark is set.  One handler does not return: its writer   *)
(* found the FIFO held open by a command that had inherited it, went in alone,  *)
(* and has ended before the handler came.  Who writes to that user after that   *)
(* waits for ever too.                                                          *)
Opens(p) == At(p, "open") \/ opening[p] # 0
Stranded(q) ==
    LET pipe == <<opening[q], id[q]>> IN pipe \in alone /\ ~HasWriter(pipe)
WaitsInVain(p) ==
    \/ opening[p] # 0 /\ Stranded(p)
    \/ \E q \in Pids : At(p, "open") /\ id[q] = line[p].to /\ opening[q] # 0 /\ Stranded(q)
OpensReturn == \A p \in Pids : Opens(p) ~> (~Opens(p) \/ WaitsInVain(p) \/ ~calm)
=============================================================================
