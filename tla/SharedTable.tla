----------------------------- MODULE SharedTable -----------------------------
(* The users of np_multi_proc.cpp: a table in shared memory, a process for each *)
(* client that writes itself into it and out of it, and the parent, which looks *)
(* at the number of users before it waits in accept.  Nothing is locked, the    *)
(* parent's look and the child's login are far apart, and the memory outlives   *)
(* the server: a new one clears the table and the pipes in it, and not n.       *)
(*                                                                              *)
(* Clients connect when they like.  They take turns with their commands, as the *)
(* specification of the project promises ("different clients don't execute      *)
(* commands at the same time").  As long as each comes, types or leaves when    *)
(* the others are at their prompts, the history variable calm is TRUE: what is  *)
(* stated for calm alone says nothing of a burst of connections, in which the   *)
(* table goes wrong (OneIdEach), nor of what runs in memory that a user behind  *)
(* the table has overwritten.  Two bounds: at most Crowd are in the middle of   *)
(* something, and nobody types any more when calm is over.                      *)
EXTENDS Integers, FiniteSets

CONSTANTS
    MaxUsers,       \* 30 in the code: users[1] .. users[30]
    MaxSessions,    \* how many clients ever connect: bounds the input
    MaxRestarts,    \* how often the server is stopped and started: bounds it too
    Crowd,          \* how many are in the middle of something at a time: a bound
    Names,          \* the nicknames users ask for
    NoName          \* "(no name)"

ASSUME SharedBounds ==
    MaxUsers \in Nat \ {0} /\ MaxSessions \in Nat /\ MaxRestarts \in Nat /\ Crowd \in Nat
ASSUME NoNameIsNoName == NoName \notin Names

Pids == 1..MaxSessions      \* the processes of the clients, in order of their forks
NoPid == 0
Table == 1..MaxUsers
Slots == 1..(MaxUsers + 1)  \* users[31] lies behind the table, on fifo_check[0]

VARIABLES
    taken,      \* users[i].id is not 0
    nickname,   \* users[i].nickname
    pid,        \* users[i].pid
    n,          \* system_information::n
    main,       \* where the parent is: at its "check" of n, or in "accept"
    waiting,    \* a connection waits to be accepted
    step,       \* where the process of a client is
    id,         \* the global variable id of that process
    ghosts,     \* history: the users that a restart left counted in n
    restarts,   \* how often the server was started again
    calm        \* history: nobody came or typed while another was in the middle of
                \* something, and nobody behind the table has announced himself

memory == <<taken, nickname, pid, n>>
tableVars == <<taken, nickname, pid, n, main, waiting, step, id, ghosts, restarts, calm>>

At(p, s) == step[p] = s
Become(p, s) == step' = [step EXCEPT ![p] = s]

Arriving == {"forked", "found", "login"}
Outside == {"none", "forked", "found", "gone"}
InTable(p) == step[p] \notin Outside \cup {"goodbye"}
Online == {p \in Pids : InTable(p)}
Counted == {p \in Pids : step[p] \notin Outside}   \* and who is on the way out
Resting == {"none", "prompt", "gone"}

Quiet == \A p \in Pids : step[p] \in Resting
Busy == {p \in Pids : step[p] \notin Resting}

\* process p begins something
Begin(p, s) == Become(p, s) /\ calm' = (calm /\ Quiet)

(* A client may type: nobody else is in a command.  A connection that is about  *)
(* to be accepted is somebody in the middle of something too.                   *)
AtTheDoor == waiting /\ (main = "accept" \/ n < MaxUsers)
Turn ==
    /\ calm /\ \A p \in Pids : step[p] \in Resting \cup Arriving
    /\ Cardinality(Busy) + (IF AtTheDoor THEN 1 ELSE 0) < Crowd

-----------------------------------------------------------------------------
TableInit ==
    /\ taken = [i \in Slots |-> FALSE]
    /\ nickname = [i \in Slots |-> NoName]
    /\ pid = [i \in Slots |-> NoPid]
    /\ n = 0
    /\ main = "check" /\ waiting = FALSE
    /\ step = [p \in Pids |-> "none"]
    /\ id = [p \in Pids |-> 0]
    /\ ghosts = 0 /\ restarts = 0 /\ calm = TRUE

Connect ==
    /\ ~waiting /\ Cardinality(Busy) < Crowd /\ \E p \in Pids : step[p] = "none"
    /\ waiting' = TRUE
    /\ UNCHANGED <<memory, main, step, id, ghosts, restarts, calm>>

\* the parent looks at n; while the table is full it looks again and again
Check ==
    /\ main = "check" /\ n < MaxUsers
    /\ main' = "accept"
    /\ UNCHANGED <<memory, waiting, step, id, ghosts, restarts, calm>>

\* accept returns, the parent forks and goes back to its check
Accept ==
    /\ main = "accept" /\ waiting
    /\ main' = "check" /\ waiting' = FALSE
    /\ \E p \in Pids :
        /\ step[p] = "none" /\ \A q \in Pids : q < p => step[q] # "none"
        /\ Begin(p, "forked")
    /\ UNCHANGED <<memory, id, ghosts, restarts>>

\* Mutant of Free: ids are given out by counting the users.
FreeByCount(i) == i \in Slots /\ i = n + 1

\* the first slot with id 0; the one behind the table when there is none
Free(i) ==
    /\ i \in Slots
    /\ \A j \in Table : j < i => taken[j]
    /\ i \in Table => ~taken[i]

find_id(p) ==
    /\ At(p, "forked") /\ Become(p, "found")
    /\ \E i \in Slots : Free(i) /\ id' = [id EXCEPT ![p] = i]
    /\ UNCHANGED <<memory, main, waiting, ghosts, restarts, calm>>

\* the end of find_id: by now the slot may be another's
take_id(p) ==
    /\ At(p, "found") /\ Become(p, "login")
    /\ taken' = [taken EXCEPT ![id[p]] = TRUE]
    /\ n' = n + 1
    /\ UNCHANGED <<nickname, pid, main, waiting, id, ghosts, restarts, calm>>

(* The rest of login, and the first prompt.  The texts of the announcement are  *)
(* Mailbox's, but one: user 31 has no boxes, and users[i].message[31] is        *)
(* users[i+1].  The text for i lies over slot i+1 when that is free, which then *)
(* looks taken; what is for slot 30 lies over the marks of the pipes, and its   *)
(* padding is the end of memory: n is 0.                                        *)
Announced(i) == \E j \in Slots : j <= i /\ taken[j]

login(p) ==
    /\ At(p, "login") /\ Become(p, "prompt")
    /\ nickname' = [nickname EXCEPT ![id[p]] = NoName]
    /\ pid' = [pid EXCEPT ![id[p]] = p]
    /\ \/ id[p] \in Table /\ UNCHANGED <<taken, n, calm>>
       \/ /\ id[p] \notin Table
          /\ taken' = [i \in Slots |-> Announced(i)]
          /\ n' = 0 /\ calm' = FALSE
    /\ UNCHANGED <<main, waiting, id, ghosts, restarts>>

\* the line `name newname`, when it is not refused
name(p, newname) ==
    /\ Turn /\ At(p, "prompt")
    /\ \A i \in Table : taken[i] => nickname[i] # newname
    /\ nickname' = [nickname EXCEPT ![id[p]] = newname]
    /\ calm' = (calm /\ Quiet)
    /\ UNCHANGED <<taken, pid, n, main, waiting, step, id, ghosts, restarts>>

\* the line `exit`: shell returns, and logout gives the id back first
logout(p) ==
    /\ Turn /\ At(p, "prompt")
    /\ taken' = [taken EXCEPT ![id[p]] = FALSE]
    /\ Begin(p, "goodbye")
    /\ UNCHANGED <<nickname, pid, n, main, waiting, id, ghosts, restarts>>

\* Mutant of Ends: n is a number of logins.
EndsUncounted(p) ==
    /\ At(p, "goodbye")
    /\ Become(p, "gone")
    /\ id' = [id EXCEPT ![p] = 0]
    /\ UNCHANGED <<memory, main, waiting, ghosts, restarts, calm>>

\* the rest of logout, and exit; the announcement has the name that is in the slot
\* by now
Ends(p) ==
    /\ At(p, "goodbye")
    /\ n' = n - 1
    /\ Become(p, "gone")
    /\ id' = [id EXCEPT ![p] = 0]
    /\ UNCHANGED <<taken, nickname, pid, main, waiting, ghosts, restarts, calm>>

\* Ctrl-C ends every process of the server, without logout; the memory stays, and
\* the next server writes zeros over users and fifo_check
Restart ==
    /\ restarts < MaxRestarts
    /\ restarts' = restarts + 1
    /\ ghosts' = n
    /\ taken' = [i \in Slots |-> FALSE]
    /\ nickname' = [i \in Slots |-> NoName]
    /\ pid' = [i \in Slots |-> NoPid]
    /\ main' = "check" /\ waiting' = FALSE
    /\ step' = [p \in Pids |-> IF step[p] = "none" THEN "none" ELSE "gone"]
    /\ id' = [p \in Pids |-> 0]
    /\ UNCHANGED <<n, calm>>

Parent == Check \/ Accept
Child(p) == find_id(p) \/ take_id(p) \/ login(p) \/ Ends(p)
Client(p) == logout(p) \/ \E newname \in Names : name(p, newname)

TableNext ==
    \/ Connect \/ Restart \/ Parent
    \/ \E p \in Pids : Child(p) \/ Client(p)

TableSpec == TableInit /\ [][TableNext]_tableVars

-----------------------------------------------------------------------------
TableSteps == {"none", "forked", "found", "login", "prompt", "goodbye", "gone"}

(* Every process is in one place of its run, and ids and pids are in range.     *)
TableTypeOK ==
    /\ taken \in [Slots -> BOOLEAN]
    /\ nickname \in [Slots -> Names \cup {NoName}]
    /\ pid \in [Slots -> Pids \cup {NoPid}]
    /\ n \in Int
    /\ main \in {"check", "accept"} /\ waiting \in BOOLEAN
    /\ id \in [Pids -> 0..(MaxUsers + 1)]
    /\ ghosts \in Int /\ restarts \in 0..MaxRestarts
    /\ calm \in BOOLEAN

(* The parent's look at n is older than the login it lets happen.  In calm the  *)
(* server is one user too far at most, and that one has not announced himself,  *)
(* which would overwrite n; until then n counts who is online, whoever is on    *)
(* the way out, and those that a restart forgot.                                *)
AtMostOneTooMany == calm =>
    /\ n = Cardinality(Counted) + ghosts
    /\ n <= MaxUsers + 1
    /\ \A p \in Online : id[p] \notin Table => At(p, "login")
    /\ Cardinality({p \in Online : id[p] \notin Table}) <= 1

(* In calm an id belongs to one process: no two users that are online have the  *)
(* same id, the ids in use are theirs, signals for an id go to its own process, *)
(* and nicknames are unique among the users in the table.                       *)
TableAgrees == calm =>
    /\ \A p, q \in Online : id[p] = id[q] => p = q
    /\ {i \in Slots : taken[i]} = {id[p] : p \in Online}
    /\ \A p \in Online : ~At(p, "login") => pid[id[p]] = p
    /\ \A i, j \in Table :
        /\ taken[i] /\ taken[j] /\ nickname[i] = nickname[j] /\ nickname[i] # NoName
        /\ \A p \in Online : ~At(p, "login")
        => i = j

(* The same ids whether it is calm or not.  By the specification of the project *)
(* the server "should always assign the smallest unused id to a new user"; two  *)
(* children that look for one at the same time find the same.                   *)
OneIdEach == \A p, q \in Online : id[p] = id[q] => p = q

(* In calm a client that connects is logged in unless the server is full; but   *)
(* what a restart left in n counts as users for ever.                           *)
Full == Cardinality(Online) + ghosts >= MaxUsers
NewcomersAreServed == waiting ~> (~waiting \/ Full \/ ~calm)
=============================================================================
