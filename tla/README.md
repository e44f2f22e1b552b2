# Verification of the NP_2022 shells, chat servers, console and proxy

TLA+ models of the four projects in this repository, the TLC runs that check
them on small instances, and theorems that TLAPS proves for every instance.
Source paths below are short: `npshell` is `..._np_project1/npshell.cpp`,
`simple`, `single` and `multi` are the three servers of `..._np_project2`,
`console` is `console.cpp` of projects 3 and 4, `socks` is
`..._np_project4/socks_server.cpp`.

## The system

| Part | State | Operations | What is hard |
|---|---|---|---|
| `npshell`: shell with numbered pipes | `future` (pipes and countdowns), descriptors | read an input, cut it into lines, fork, exec, waitpid | countdowns across lines; which process holds which end of which pipe; pipes that fill |
| `simple`: one forked `npshell` per connection | as above, per process | accept, fork | nothing is shared |
| `single`: one process, `select` | `user[]`, `id_record[]`, `n`, `user_pipe`, `future_pipe[]`, socket sets | login, logout, name, tell, yell, who, a line of commands | ids, slots and descriptors are reused while other records still use them; a pass over an old copy of the set; the one process waits for the last command of a line |
| `multi`: one process per client, shared memory | `user->users`, `n`, message boxes, `fifo_check` | the same, messages by SIGUSR1, user pipes by FIFOs and SIGUSR2 | nothing is locked; signals merge; handlers run in the middle of anything; commands inherit the FIFOs of their shell; user 31 has no boxes |
| `console` (projects 3 and 4) | test file, socket, what the session waits for | connect, ask a proxy, play a file line by line | prompts and errors in any order and any cut of the stream |
| `cgi_server`, `http_server` | a request; the browser's socket | parse, fork and exec, serve panel and console | who holds and who closes the browser's socket; a read that waits for a full buffer |
| `socks` | request, two sockets, two buffers | firewall, CONNECT, BIND, relay | two directions of callbacks that end at different times |

`console` plays files against the servers of project 2, in project 4 through
`socks`; `http_server` starts `console`; the three servers contain the shell of
`npshell`; user pipes and numbered pipes are filed under ids of the user table.

What makes each part correct, in short: a client keeps being the user it was
logged in as and nobody else acts for it (table); a line reads exactly the
outputs meant for it (pipes); every line comes back to a prompt and no process
stays behind (processes); whoever types is answered as long as commands end (select); what is sent
is printed once (boxes); a file is played in step with prompts and to its end
(console), and the browser gets the end of the page after the last session and
not before (http servers); shared memory agrees with the processes it is about,
and who waits in `open` comes out of it (`multi`); bytes are neither lost nor
mixed, only what the rules allow gets through, and a session ends (proxy).

The hazards this list is aimed at are in `PROJECT.json`, each at its line, with
the properties that cover it or the reason why none does.

## Modules

| Module | Models | Correspondence |
|---|---|---|
| `UserTable` | `class user_info` of `single` without pipes | variables have the code's names; an action is one operation called for a descriptor; `client` and `event` are histories: what each client was told it is, and whom the last operation printed what to |
| `UserPipes` | `user_pipe`, `future_pipe` over that table | extends `UserTable`; a line of commands is one step, as the server is one process |
| `SelectLoop` | `main` of `single`, with that table | extends `UserTable`: a turn of the loop is a line, an `exit` or an accept, and does what the table does for it; `socket_writen` is the copy select filled, served in order of descriptors; accept takes any free descriptor; `awaited` is the client for whose command the process is in waitpid |
| `FairServer` | abstract: while there is room a client is accepted, every line is answered; its fairness is a definition of its own | implemented by `SelectLoop`, the fairness as long as commands end (`CommandsEnd`) |
| `LineSplit` | the loop that fills `line_h`, `line_t` | an action is one round of the loop; for a built-in of a server n is 0 and the code reads `skip[-1]`: `before` is what it finds there, either way at every input |
| `PipeSchedule` | abstract: line n reads the lines that named n | implemented by `NumberedPipes` |
| `NumberedPipes` | the list `future` and its countdown | a step is one line; `forks` tells `npshell`, which forks for a built-in, from the servers |
| `ShellLines` | a shell from input to input | composes `LineSplit` and `NumberedPipes`; `ShellLimits` holds the constant both share |
| `ShellJobs` | processes, descriptors and pipes of `npshell` | an action is a fork, exec, waitpid, exit, or a unit written or read; every process has its inherited ends |
| `Mailbox` | message boxes of `multi` | an action is one access to shared memory: first byte, rest and padding of `strncpy`, `kill`, and the handler's look, print and clear |
| `SharedTable` | `user->users`, `n` of `multi`; the parent's loop; `find_id`, `login`, `logout`, `name` of the children; a restart | an action is one stretch between accesses that others can see: the parent's look at `n`, accept with fork, the search of `find_id`, its end (the id, `n++`), the rest of login, the id set to 0, the rest of logout. Slot 31 is there: it is what `find_id` returns when all ids are taken, and `login` writes what its announcement overwrites (`Announced`, `n` to 0). Clients connect when they like; `calm` is a history, see *Turns* |
| `UserFifos` | `fifo_check`, `add_userpipe`, `get_userpipe`, the handler of SIGUSR2 and the FIFOs, over that table | extends `SharedTable`; the mark, the signal and the open are three steps, and the handler looks at one user at a time. `commands` are the children that have a FIFO open: their own ends and the read ends they inherited (`held`). Who opens a FIFO of which the other end is open goes in alone (`OpensAlone`, `HandlerOpens`); if both are in open they return in one step (`Open`) |
| `Console` | a session of `console`, or of the class console in `cgi_server` | an action is one callback; a read returns any number of pieces; `Recv` is the servers' recv, which takes what has come for one line |
| `ConsolePage` | `http_server` or `cgi_server` around the sessions of a page | extends `Console`; `holders` are the processes that have the browser's connection open, `refs` is `use_count` in `cgi_server` and the unfinished sessions in `console`; `neighbour` is a program forked for another request |
| `SocksSession` | a session of `socks` | an action is one callback or synchronous call; ends send, finish, close and reset on their own |

`MC*` modules give the instances; `*_proofs` modules hold the theorems.
A definition whose comment begins with *Mutant of* is not part of a model: it is
a plausible mistake in the definition after it, and the property it goes with
fails when it is put in its place.

## Runs

| Run | Instance | Shows |
|---|---|---|
| `UserPipes` | 2 ids, 2 descriptors, `\|1` | one record per pair of users; a line touches only pipes of its user |
| `UserPipesLeft` | the same | *fails*: pipes of a user who left stay (finding 1) |
| `ShellLines` | inputs of up to 3 commands with `\|1`..`\|3`, 5 lines | the lines are the commands, in order, cut behind each numbered pipe; no cell past an array is used, and none before it but by a built-in of a server; the countdown implements the schedule |
| `ShellJobs` | 4 processes, 4 pipes of 2 units, outputs that overflow a pipe read on the same or the next line | readers wait only for older processes, nobody dies writing to a pipe that will be read, every line returns to the prompt, every process ends |
| `ShellJobsLong` | an overflowing output that is read two lines later | *fails*: the shell waits for ever (finding 2) |
| `SelectLoop` | 2 ids, 3 descriptors, 1 name, 2 waiting connections | in the middle of passes in which clients come, leave and take over ids, slots and descriptors: a descriptor resolves to its owner's id whatever stale slots say, ids in use and clients are the same, names are unique and owned, each message goes to exactly its receivers under its sender's name; `recv` and `accept` are called only when they return at once; prompts and lines alternate, also around a command that is waited for; `FairServer` is implemented, its fairness too as long as every command that is waited for ends, also when the server is full |
| `SharedTableBurst` | 2 ids, 2 clients that connect together | *fails*: both get the same id (finding 3) |
| `Mailbox` | 2 users who send, 2 slots, 3 messages | with merged signals nothing stays in a box unseen, and nothing is printed twice |
| `MailboxLost` | one user sends, at most twice | *fails*: of two yells the second is printed in half by the handler that the first one called, and cleared (finding 4) |
| `UserFifos` | 2 users, 3 sessions, one restart, 1 name, pipes both ways, at most one client in the middle of something (`Crowd`), a command that goes on while somebody types | in calm: ids, pids and names in shared memory are those of the processes; at most one user lies behind the table, who has not announced himself, and until then `n` counts who is online and whom a restart forgot; a pipe is marked exactly when its reader has it or left with it; a FIFO is opened when nobody uses it for an earlier pipe; who waits in open returns, but for a handler whose writer came and went by an inherited end, and those who write to that user; whoever connects is served unless `n` says that the server is full. The announcement of user 31 is in the run too: it ends calm |
| `Console` | 3 programs, up to 2 other sessions, a buffer of 3 pieces; the beginning of `t3.txt`, files with two, one and no removetag0 into a numbered pipe, one without `exit` | one line per prompt, except behind such a removetag0, and how far ahead at most; a session hangs only in wait for the Error of a line that recv threw away, in `cgi_server` also for a buffer that does not fill; files with at most one such line finish; the connection to the browser closes after the last session and every program that inherited it, and not before |
| `SocksSession` | 3 destinations, 4 rule files, 2 pieces per end | data arrive whole and in order, no request gets past the rules, downloads complete when the client has finished, the process ends when both ends are gone |

Bounds. Ids: with 2 ids and 3 descriptors a slot can be stale below and above
its reuser, all ids can be in use while one descriptor is free, and a client can
come back under another's descriptor within a pass; larger tables are covered by
the theorems, which have no bound. Lines: a number 3 over 5 lines counts down
past built-ins and is joined by a later `|N`. Pipes: a capacity of 2 and an output
of 3 is the least that blocks. Slots: 2 are needed for the padding to reach a
neighbour, and a third message finds a full row. Shared table: one session more
than there are ids reaches slot 31 of the code, and a session after a restart
meets what it left; two clients at once are enough for one id twice. FIFOs: with
pipes both ways a line can read and write one, a mark is set before or behind
the cursor of a handler that runs, and the command that inherits a FIFO is one
that the reader started; for that it has to go on while somebody types, and one
such command is enough (`MaxCommands`). Two writers of one reader need three users:
with the links 2->1, 3->1, 1->2 that instance is beyond the time of a run; its
safety is in the theorems. Console: one `Error` per
removetag0, as `test.html` has one illegal tag; other output waits for the queue
to be shorter than `MaxUnread`, errors and prompts do not; a buffer of 3 can be
filled by an error with its prompt and text, and need not be. Page: 2 other
sessions are the least of which one can end by an error and one behind it.
Relay: 2 pieces let one be in the buffer and one on the wire.

Turns. The specification of project 2 says that different clients do not run
commands at the same time (5.7), and that nobody pipes to himself (4.5.6). It says
nothing of connecting. In `SharedTable` and `UserFifos` clients connect whenever
they like, up to `Crowd` in the middle of something, and type when nobody is in a
command and no command reads a user pipe. The history `calm` is TRUE as long as
each came, typed or left while the others were at their prompts and no user
behind the table has announced himself. What the table promises is stated for
calm (`AtMostOneTooMany`, `TableAgrees`, `RecordsAgree`, `FifoIsFresh`, `OpensReturn`,
`NewcomersAreServed`); in a burst of connections it is wrong at once (finding 3), and
after user 31 marks and `n` are whatever lay there. Nobody types any more when calm
is over: a bound of the models, as nothing is claimed of that time but shapes.
The parent, the handlers, what is left of a logout, commands that only write,
and a connection that waits for room take no turns. `n++` and `n--` are one step each.
`Mailbox` knows no turns: it lets users yell at once.

Fairness. `SelectLoop` assumes only that the server's process keeps running (weak
fairness of its step as a whole); which descriptor it serves is the code's loop.
That a command which it waits for ends is no part of it: nothing in the code sees
to that, and one that reads its client's socket or runs for ever stops the server
for all. So `IsFairServer` has it as a condition (`CommandsEnd`): the steps are those
of `FairServer` always, the fairness holds in behaviours in which the server is again
and again not waiting.
`ShellJobs` assumes that the shell and each process run on when they can.
`UserFifos` assumes that the parent and each process of a client run on when they
can; no command has to end. `Console`
and `SocksSession` assume that a completion that is ready is run
(`io_context::run`), and that shell and commands run; nobody is assumed to talk,
finish or close, except where a property says so. The other runs assume none.
Deadlock is checked where the system never stops (`UserPipes`, `SelectLoop`); the other models stop when their inputs are used up or a session
is over.

## Findings

1. `single:148` — `logout` leaves the user's pipes in `user_pipe`; the next user
   with the id reads them. The specification says they are closed.
2. `npshell:201` — every child inherits the ends of all numbered pipes, so
   `ls |2`, then a large output `|2`, then `number` leaves the shell waiting for ever.
3. `multi:102` — `find_id` searches and writes the table without a lock, in children
   that the parent does not wait for: two clients that connect together get one id.
   The specification gives each new user the smallest unused one. The pause of 100
   microseconds after a fork (`multi:715`) makes it rare.
4. `multi:160` — a message is copied into shared memory while the receiver's
   handler prints and clears it; `strncpy` also clears the first byte of the next
   slot. Two yells of one client are enough: the handler that the first one called
   meets the second one half copied.

`Console` shows a fifth divergence, which `StaysInStep` and `StuckOnlyForLost`
describe as the code behaves: the assignment asks for one line per prompt, and
the console sends one for the Error of a removetag0 too; when the Error comes
before the prompt, the next two lines can meet in one recv, the second is lost,
and if it is a removetag0 into a numbered pipe the session hangs. `t3.txt` has
such a sequence.

Seen in the models and promised nowhere, so that no property speaks of it:

* `multi:687`: a restart clears `users` and not `n`. Users that were online are
  counted for ever (`ghosts` in `SharedTable`), and after thirty of them nobody can
  log in until the shared memory is removed by hand.
* `multi:160`: user 31 has no boxes, and `users[i].message[31]` is `users[i+1]`. What
  his announcement writes for user 30 lies over the second half of `fifo_check`,
  text and then zeros, and its last zeros are `n`. With `n` 0 the parent lets more
  clients in, and the next one is user 31 as well.
* `multi:347`: a command inherits the FIFOs on its shell's list. While it runs, the next
  writer of such a FIFO does not wait for the handler; when that writer's command
  ends before the handler opens, the handler waits for ever (`Stranded`), and so does
  whoever writes to that user after it.
* `simple:159`, `single:480`, `multi:505`: for a line that is a built-in command the cell
  before `skip` decides whether it is a line for numbered pipes; when it is above 0
  the cell before `line_t` is written.
* `multi:183`: logout leaves the marks in `fifo_check`. The next user with the id is
  told that its pipe to N already exists, and N that it does not.
* `multi:187`: the announcement of a logout is made after the id was given back.
* `cgi_server:140`: the session that finds `use_count` 2 closes the page; when the
  last session fails it is not closed.
* `http_server:76`: a program inherits the connections of other requests; their
  browsers wait for its end too. `PageEnds` speaks of the time after that.
* `cgi_server:168`: a session in `do_error` waits for a full buffer, and may wait for
  ever; `StuckOnlyForLost` allows it and `FilesFinish` leaves such files out.
* `socks:236`: the relay never passes the end of file on. When one end has finished
  sending, its loop stops and the other end is not told; a destination that waits
  for the end of its input waits until the client closes. `DownloadCompletes` says
  that the bytes arrive, `SessionEnds` that both loops stop when both ends have closed;
  nothing is claimed when only one end closes.
* `socks:151-161`: for SOCKS4A the code connects to what the name resolves to, and asks
  the firewall about the address in the request, 0.0.0.x. `OnlyPermitted` speaks of
  that address.

## Proofs

All proofs are for arbitrary values of the constants under the named
assumptions, which are as weak as the code: there is at least one id, `NoFd` is
no descriptor, `NoName` is not a name that can be asked for; the bounds are
numbers; a rule pattern has four parts.

* `SingleProc_proofs`, the table. `SocketResolves` is not inductive: `socketfd_to_id`
  looks at stale slots too, and is right because `find_id` fills the lowest free id.
  The invariant says so: for a live id no lower slot, live or stale, has its
  descriptor (`FirstMatchIsLive`), each client has a slot and each live slot a
  client, live names do not repeat, and `n` is the number of live ids. Login keeps
  it because all ids below the new one are live. From it follow `TypeOK`,
  `SocketResolves`, `TableMatchesClients`, `CountIsExact`, `NicknamesAreOwned`, and
  with one lemma about the event of a step `DeliveryIsExact`, `SpeaksForItself`
  and the action property `OthersKeepTheirNames`.
* `SingleProc_proofs`, the loop. Every step of the loop is a step of the table or
  leaves it alone (`LoopImplementsTable`), so that all of the above holds in the loop.
  The invariant adds that a descriptor leaves the watched set only in its own turn, so
  that what is still to be served of a pass is open and has a line to read:
  `NeverBlocks`, `PromptOrLine`, `LoopTypeOK`. With them each step is also one of
  `FairServer` (`LoopIsServer`); its fairness is left to the run.
* `SingleProc_proofs`, the pipes. On top of the table's invariant, records are pairs
  of ids and differ: a refusal, a read and a new pipe keep that. `PipesTypeOK`,
  `OnePipePerPair`, and `OthersKeepTheirPipes`, which needs the table to resolve
  descriptors.
* `SharedTable_proofs`. `AtMostOneTooMany` is not inductive: the parent's look at `n`
  is older than the login. The invariant, in calm, says that one process at most is
  between its fork and its prompt or on the way out (`OneBusy`), counts room with
  the process that has no id yet and the one that accept may return (`RoomLeft`), and
  says what a process between fork and prompt has found (`NewcomersAreRight`). The
  shapes hold always. `SharedTableIsRight` has all three.
* `UserFifos_proofs`. What happens at a prompt and in handlers leaves the table's
  part alone, so the table's invariant holds with pipes as well. The shapes are
  proved always, and with them in calm, for all `Links`, `Movers` and `MaxCommands`:
  a mark 2 and a handler in open have the one writer that waits for them, or,
  for a handler, a pipe in `alone` (`Writers`); a mark 1 has its pipe on one list,
  once, or in `lost` (`Records`). A command that writes keeps the mark of its pipe, or
  a line or a command reads it; both are over when the next writer marks it
  (`OutsAreMarked`). It gives `FifosTypeOK`, `RecordsAgree` and `FifoIsFresh`. That two
  ends in one file belong to one pipe is `FifoNamesDiffer`, which TLC decides by
  evaluating `fifoid`. A mark is never passed over (`MarkIsSeen`): the reader's handler
  has not come to it or has its signal pending, also when the mark is set behind
  the cursor of a handler that runs. From these, `SomebodyGoesOn`: whoever waits in
  open can go on, or the process it waits for can, but for the handlers that inherited
  ends have stranded and those who write to them.
* `ShellLines_proofs`. Of the list: it has numbers of at most `MaxSkip`, no two
  records have the same number or share a writer, and each was written by lines already
  run; so the record that reaches zero is the one whose appointment is the current
  line. `Refinement` proves that the specification implements `PipeSchedule`. Of the
  cutting, the loop invariant: the lines closed so far are cut right behind each
  numbered pipe and are adjacent, and the open one begins where the last ended. It
  gives `SplitTypeOK` (no cell past an array of `MaxCommands` is used, and none before
  it but for a built-in of a server), `LinesPartition`, and `BuiltinIsEmpty`: a
  built-in of a server is one line without commands or none. The two parts
  meet in `ShellIsRight` and `ShellKeepsSchedule`: a step of the shell is a step of one
  of them and leaves the other alone.
* `ShellJobs_proofs`. The shell holds both ends of exactly the pipes that have no
  reader yet, and forks the reader and closes its own ends in one step. So a pipe that
  somebody reads is not inherited by anyone younger (`GivenAway`,
  `ReadersWaitForOlder`), and a pipe that is written is still with the shell or with the
  process it was for (`OutputKept`, from which `NoOutputLost`). The order is what
  `OnlyFullPipesBlock` needs: the oldest living process waits for nobody, so that
  while no pipe is full something runs. Finding 2 is about full pipes, and that is all
  it can be about.
* `Mailbox_proofs`. `NoMailForgotten` is inductive: whatever empties, fills or passes a
  cell leaves one of its four reasons. `PrintedOnce` is not. A text must also be
  new to a receiver that it has still to be copied to (`AwaitedIsNew`), be in one cell of
  a box at most (`OneCell`) and not be printed while it waits there (`BoxIsNew`); the
  padding of strncpy only empties cells. No turns are assumed.
* `SocksSession_proofs`. The firewall loop and the meaning of a rule agree for
  patterns whose stars come last, and a relay only starts for a request that was
  permitted: `OnlyPermitted`. For each direction, what arrived, the buffer and the
  wire together are what was sent, with lemmas on cutting and joining sequences:
  `TypeOK`, `DataIsConserved`. What a direction has still to do is a number that each of
  its callbacks makes smaller and no callback of the other direction touches
  (`RelayRunsDown`), and it stops with everything delivered unless a socket was reset or
  the receiver closed (`StoppedMeansDelivered`).
* `ConsolePage_proofs`. `StaysInStep` is a count: the prompts on the way, the lines not
  read yet, the prompt the shell owes and the Error waited for are together at most one
  more than the removetag0 that were sent (`InStep`), and Errors come from those alone
  (`Expected`). `NothingBehindTheEnd` is one too: `refs` are the sessions that have not
  ended, and the connection is held while there are any. `WaitsForWhatComes` says what
  is on the way to a session that waits, and that an Error is gone only when recv
  threw its line away, for which two removetag0 are needed.

The assumptions of `LineSplit`, `NumberedPipes` and `ShellLimits` are evaluated by
TLC through `ShellLines`, those of the other modules by their own runs.

Every invariant and every action property of the passing runs has a theorem.
Only model-checked is liveness, as the prover has no rules for fairness or ENABLED:
`IsFairServer` (`LoopIsServer` proves its steps), `PromptComesBack` and
`ProcessesEnd` (`OnlyFullPipesBlock` proves that nobody waits in a circle; that
pipes are emptied is left), `DownloadCompletes` and `SessionEnds` (`RelayRunsDown` and
`StoppedMeansDelivered`), `StuckOnlyForLost`, `FilesFinish` and `PageEnds`
(`WaitsForWhatComes`), `OpensReturn` (`OpenersAreSeen`, `SomebodyGoesOn`: that
somebody can always go on, not that it comes to an end), and `NewcomersAreServed`
(`NewcomersHaveAWay`). Results by
induction over data are out of the prover's reach too; no module here needs a
recursive operator.

## Not modelled

* `cgi_server` and `http_server`: parsing of requests and the panel's form; a browser
  that goes away before the end of its page; an `execlp` that fails (the child then
  serves as a second server). No document says what should happen.
* `simple`: its accept loop forks a shell for each connection and shares nothing; it
  waits for none of them, so that ended ones stay as zombies.
* `multi`: clients that type at the same time, except in `Mailbox`, and what they type
  after calm; readers that stop before the end of their FIFO; commands of a numbered
  pipe that go on for lines and hold what they inherited; `n++` as two accesses;
  descriptors of refused pipes.
* `single`: the environment. `setenv` is two assignments with nothing in between, and
  by reading (`single:218-222`) it is wrong: whatever variable is set becomes the user's
  PATH too, and every other variable is shared by all users, where the specification
  (4.6.1) gives each client its own.
* `tell` and user pipes to ids above 30: outside of the arrays, nothing is promised.
* Parsing of words, redirection to a file, wording of messages, html.
* Clients of `single` that leave without `exit`: the specification excludes them.
* Outputs with a `%`: the assignment excludes them. A word `Error` that is cut in
  two by a read is not modelled either; one write is one piece.
* The commands, panels, sample CGIs and the asio example handed out with the
  assignments.

## Plan

1. Done: table, numbered pipes and their schedule, line cutting, processes and
   pipes, user pipes, select loop with the table, boxes, console, proxy; the shared
   table and the FIFOs of `multi`; the page of `http_server` and `cgi_server`.
2. Done: the wait for a command in the select loop. Left is the composition of
   `UserPipes` with `ShellJobs`: descriptors of refused pipes.
3. `Mailbox` with users that come and go (`logout` leaves texts in its boxes), and with
   user 31, who has none.
4. A failing run for the console's divergence, with the file of `t3.txt`.
5. Proofs: the safety properties of the runs are done, and the safety halves of the
   liveness properties as far as listed above. Left is a bound on the steps between
   two prompts in `ShellJobs`, for pipes whose reader is of the same line.
