----------------------------- MODULE SelectLoop -----------------------------
(* The main loop of np_single_proc.cpp, over the table of its users: select     *)
(* copies the sockets that have something to read into socket_writen, and the   *)
(* loop goes through that copy in the order of descriptors.  Whatever happens   *)
(* to the sockets meanwhile, the copy is not refreshed: a line served late in a *)
(* pass finds a socket as select saw it, or not at all.                         *)
(*                                                                              *)
(* Clients type a line when they see a prompt and leave with `exit`, as the     *)
(* console programs of projects 3 and 4 do.  A line is one of the table's       *)
(* operations, or commands, which leave the table alone.  For the last command  *)
(* of a line, unless its output goes to a pipe that is read later, the server   *)
(* waits (waitpid): the one process does nothing else until that command ends.  *)
EXTENDS UserTable

CONSTANTS
    MaxWaiting  \* how many connections wait to be accepted: bounds the input

ASSUME LoopAssumption ==
    /\ Fds \subseteq Nat \ {0} /\ IsFiniteSet(Fds) /\ MaxId <= Cardinality(Fds)
    /\ MaxWaiting \in Nat

server_sockfd == 0      \* the listening socket has the smallest descriptor
Lines == {"line", "exit"}

VARIABLES
    socket_writen,  \* the copy: what is left of it in this pass
    pass,           \* the loop over the copy runs; otherwise select is next
    open,           \* the client sockets that are open
    backlog,        \* the connections that wait in the listening socket
    inbox,          \* what a client has sent and the server has not answered
    prompt,         \* the client sees a prompt
    awaited         \* the client for whose command the server waits, or NoFd

loop == <<socket_writen, pass, open, backlog, inbox, prompt, awaited>>
loopVars == <<vars, loop>>

-----------------------------------------------------------------------------
LoopInit ==
    /\ Init
    /\ socket_writen = {} /\ pass = FALSE /\ open = {}
    /\ backlog = 0
    /\ inbox = [fd \in Fds |-> "empty"]
    /\ prompt = [fd \in Fds |-> FALSE]
    /\ awaited = NoFd

Connect ==
    /\ backlog < MaxWaiting
    /\ backlog' = backlog + 1
    /\ UNCHANGED <<vars, socket_writen, pass, open, inbox, prompt, awaited>>

Type(fd) ==
    /\ prompt[fd]
    /\ \E l \in Lines : inbox' = [inbox EXCEPT ![fd] = l]
    /\ prompt' = [prompt EXCEPT ![fd] = FALSE]
    /\ UNCHANGED <<vars, socket_writen, pass, open, backlog, awaited>>

Readable ==
    {fd \in socket_all : inbox[fd] # "empty"} \cup
    {fd \in {server_sockfd} : backlog > 0}

\* select blocks until something can be read
Select ==
    /\ ~pass /\ awaited = NoFd /\ Readable # {}
    /\ socket_writen' = Readable
    /\ pass' = TRUE
    /\ UNCHANGED <<vars, open, backlog, inbox, prompt, awaited>>

\* Mutant of Served: the loop goes back to select when it has served one socket.
ServedOne(fd) == socket_writen' = {} /\ pass' = FALSE

\* the loop goes on behind fd, and after the last one select is next
Served(fd) ==
    /\ socket_writen' = socket_writen \ {fd}
    /\ pass' = (socket_writen' # {})

\* the loop has come to fd, and the server does not wait for a command
Turn(fd) ==
    /\ pass /\ awaited = NoFd
    /\ fd \in socket_writen /\ \A g \in socket_writen : fd <= g

\* accept returns a free descriptor, the smallest that no pipe of a user has
\* either; login; the first prompt
AcceptClient(fd) ==
    /\ Turn(server_sockfd) /\ fd \notin open /\ login(fd)
    /\ backlog' = backlog - 1
    /\ open' = open \cup {fd}
    /\ prompt' = [prompt EXCEPT ![fd] = TRUE]
    /\ Served(server_sockfd)
    /\ UNCHANGED <<inbox, awaited>>

\* the server is full: the connection keeps waiting, and select returns at once
LeaveWaiting ==
    /\ Turn(server_sockfd) /\ n >= MaxId
    /\ Served(server_sockfd)
    /\ UNCHANGED <<vars, open, backlog, inbox, prompt, awaited>>

\* what a line does to the table: one of its operations, or nothing
Does(fd) ==
    \/ \E newname \in Names : name(fd, newname)
    \/ broadcast(fd)
    \/ \E receiver \in Ids : tell(fd, receiver)
    \/ who(fd)
    \/ UNCHANGED vars

Prompt(fd) ==
    /\ inbox' = [inbox EXCEPT ![fd] = "empty"]
    /\ prompt' = [prompt EXCEPT ![fd] = TRUE]
    /\ Served(fd)
    /\ UNCHANGED <<open, backlog>>

\* shell: recv, what the line asks for, and the next prompt; no command of the
\* line is waited for
ServeLine(fd) ==
    /\ Turn(fd) /\ inbox[fd] = "line" /\ Does(fd)
    /\ Prompt(fd)
    /\ UNCHANGED awaited

\* shell: a line whose last command is waited for, behind a built-in or not
RunCommand(fd) ==
    /\ Turn(fd) /\ inbox[fd] = "line" /\ Does(fd)
    /\ awaited' = fd
    /\ UNCHANGED <<socket_writen, pass, open, backlog, inbox, prompt>>

\* the command ends, waitpid returns, and the next prompt is written
CommandEnds(fd) ==
    /\ awaited = fd
    /\ awaited' = NoFd
    /\ Prompt(fd)
    /\ UNCHANGED vars

\* Mutant of ServeExit: the descriptor is closed too early to be cleared.
ServeExitKeeps(fd) ==
    /\ Turn(fd) /\ inbox[fd] = "exit"
    /\ id_record' = [id_record EXCEPT ![socketfd_to_id(fd)] = FALSE]
    /\ n' = n - 1
    /\ inbox' = [inbox EXCEPT ![fd] = "empty"]
    /\ open' = open \ {fd}
    /\ Served(fd)
    /\ UNCHANGED <<socketfd, nickname, socket_all, client, event, backlog, prompt,
                   awaited>>

\* Mutant of ServeExit: the prompt is written before the descriptor is closed.
ServeExitPrompts(fd) ==
    /\ Turn(fd) /\ inbox[fd] = "exit" /\ logout(fd)
    /\ inbox' = [inbox EXCEPT ![fd] = "empty"]
    /\ prompt' = [prompt EXCEPT ![fd] = TRUE]
    /\ open' = open \ {fd}
    /\ Served(fd)
    /\ UNCHANGED <<backlog, awaited>>

\* logout; shell returns 0: FD_CLR and close; the prompt then goes to a closed
\* descriptor
ServeExit(fd) ==
    /\ Turn(fd) /\ inbox[fd] = "exit" /\ logout(fd)
    /\ inbox' = [inbox EXCEPT ![fd] = "empty"]
    /\ open' = open \ {fd}
    /\ Served(fd)
    /\ UNCHANGED <<backlog, prompt, awaited>>

Server ==
    \/ Select
    \/ LeaveWaiting
    \/ \E fd \in Fds : \/ AcceptClient(fd)
                       \/ ServeLine(fd) \/ RunCommand(fd) \/ ServeExit(fd)

LoopNext ==
    \/ Connect
    \/ \E fd \in Fds : Type(fd)
    \/ Server
    \/ \E fd \in Fds : CommandEnds(fd)

(* The server process is scheduled.  Nobody has to connect or type, and no      *)
(* command has to end.                                                          *)
LoopSpec == LoopInit /\ [][LoopNext]_loopVars /\ WF_loopVars(Server)

-----------------------------------------------------------------------------
(* Shapes, and a pass runs exactly while there is something left of the copy.   *)
LoopTypeOK ==
    /\ TypeOK
    /\ open \subseteq Fds
    /\ socket_writen \subseteq Fds \cup {server_sockfd}
    /\ pass = (socket_writen # {})
    /\ backlog \in 0..MaxWaiting
    /\ inbox \in [Fds -> Lines \cup {"empty"}]
    /\ prompt \in [Fds -> BOOLEAN]
    /\ awaited \in Fds \cup {NoFd}

(* Every descriptor that select is given, and that is left in its copy, is an   *)
(* open socket (select would fail on another and the server exit), and recv and *)
(* accept are called for sockets only that have something: neither blocks.      *)
(* Where the one process does is waitpid, for a client that is connected and    *)
(* has been asked for no other line meanwhile.                                  *)
NeverBlocks ==
    /\ socket_all \subseteq open
    /\ \A fd \in socket_writen :
        \/ fd = server_sockfd /\ backlog > 0
        \/ fd \in socket_all /\ inbox[fd] # "empty"
    /\ awaited # NoFd =>
            awaited \in socket_writen \cap socket_all /\ inbox[awaited] = "line"

(* The prompts and the lines of a connected client alternate: it is asked for   *)
(* a line, or a line of it waits, never both and never neither; nothing is left *)
(* over for the client that gets the descriptor next.                           *)
PromptOrLine ==
    \A fd \in Fds :
        IF fd \in socket_all THEN prompt[fd] = (inbox[fd] = "empty")
                             ELSE ~prompt[fd] /\ inbox[fd] = "empty"

(* Whatever command the server waits for ends.  Nothing in the code sees to it: *)
(* a command may read its client's pipe or run for ever.                        *)
CommandsEnd == []<>(awaited = NoFd)

(* The loop is a server that accepts and answers, and a fair one while commands *)
(* end: then every line of every client is answered, also when the server is    *)
(* full and the listening socket stays readable for ever.  One command that     *)
(* does not end stops all of it.                                                *)
Fair == INSTANCE FairServer WITH MaxUsers <- MaxId
IsFairServer == Fair!Safety /\ (CommandsEnd => Fair!Fairness)
=============================================================================
