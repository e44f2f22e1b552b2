------------------------------ MODULE UserTable ------------------------------
(* The table of users of the single-process server: class user_info of         *)
(* np_single_proc.cpp without its pipes, as the server's main loop drives it.   *)
(*                                                                              *)
(* A user is known by three names: the descriptor of its socket (what select    *)
(* reports), its id 1..MaxId (what users type), and its nickname.  Every        *)
(* operation gets the descriptor and asks socketfd_to_id for the id.  A slot    *)
(* of user[] is written by login only: logout leaves the old descriptor in it   *)
(* and socketfd_to_id does not look at id_record, so that the answer is right   *)
(* only because of how find_id fills the table.  user[] is not initialised      *)
(* either: a slot that was never taken holds anything.                          *)
EXTENDS Integers, FiniteSets

CONSTANTS
    MaxId,      \* 30 in the code: user[31], id_record[31], slot 0 is the server
    Fds,        \* the descriptors accept can return
    NoFd,       \* a value that is no descriptor of a client
    Names,      \* the nicknames users ask for
    NoName      \* "(no name)"; the word is two tokens, so nobody can ask for it

ASSUME MaxIdAssumption == MaxId \in Nat \ {0}
ASSUME NoFdAssumption == NoFd \notin Fds
ASSUME NoNameAssumption == NoName \notin Names

Ids == 1..MaxId

VARIABLES
    id_record,  \* id_record[i]: id i is in use
    socketfd,   \* user[i].socketfd
    nickname,   \* user[i].nickname
    n,          \* the number of clients, what total_member returns
    socket_all, \* the client sockets select watches
    client,     \* history: what the client behind a socket was told it is
    event       \* the last operation, as the clients see it

table == <<id_record, socketfd, nickname, n>>
vars == <<id_record, socketfd, nickname, n, socket_all, client, event>>

AllNames == Names \cup {NoName}
Kinds == {"none", "entered", "left", "named", "taken", "yelled", "told",
          "nobody", "who"}

(* What one operation wrote: the socket it was called for (by), the nickname   *)
(* and the ids that it printed, and the sockets it printed them to.             *)
Events == [kind : Kinds, by : Fds \cup {NoFd}, name : AllNames,
           ids : SUBSET (0..MaxId), to : SUBSET (Fds \cup {NoFd})]
Silence == [kind |-> "none", by |-> NoFd, name |-> NoName, ids |-> {}, to |-> {}]

-----------------------------------------------------------------------------
live == {i \in Ids : id_record[i]}

\* Mutant of find_id: any unused id, as if the search remembered where it stopped.
find_id_any(id) ==
    /\ id \in Ids
    /\ ~id_record[id]

\* id is the smallest unused one; past the end of the table when all are used
find_id(id) ==
    /\ id \in 1..(MaxId + 1)
    /\ \A i \in 1..(id - 1) : id_record[i]
    /\ id \in Ids => ~id_record[id]

\* Mutant of FirstSlot: the table searched from the end.
LastSlot(fd, id) ==
    \/ /\ id \in Ids
       /\ socketfd[id] = fd
       /\ \A i \in (id + 1)..MaxId : socketfd[i] # fd
    \/ /\ id = 0
       /\ \A i \in Ids : socketfd[i] # fd

\* the first slot with that descriptor, of a live user or not; 0 if there is none
FirstSlot(fd, id) ==
    \/ /\ id \in Ids
       /\ socketfd[id] = fd
       /\ \A i \in 1..(id - 1) : socketfd[i] # fd
    \/ /\ id = 0
       /\ \A i \in Ids : socketfd[i] # fd

socketfd_to_id(fd) == CHOOSE id \in 0..MaxId : FirstSlot(fd, id)

\* Mutant of sockets: the loop of broadcast without its test of id_record.
sockets_all(ids) == {socketfd[i] : i \in Ids}

\* the sockets of a set of ids, as the loops over id_record find them
sockets(ids) == {socketfd[i] : i \in ids}

-----------------------------------------------------------------------------
Init ==
    /\ id_record = [i \in Ids |-> FALSE]
    /\ socketfd \in [Ids -> Fds \cup {NoFd}]
    /\ nickname = [i \in Ids |-> NoName]
    /\ n = 0
    /\ socket_all = {}
    /\ client = [fd \in Fds |-> [id |-> 0, name |-> NoName]]
    /\ event = Silence

\* Mutant of login: main accepts without asking total_member.
login_unlimited(fd) ==
    /\ fd \in Fds \ socket_all
    /\ \E id \in 1..(MaxId + 1) :
        /\ find_id(id)
        /\ socketfd' = [socketfd EXCEPT ![id] = fd]
        /\ nickname' = [nickname EXCEPT ![id] = NoName]
        /\ id_record' = [id_record EXCEPT ![id] = TRUE]
        /\ n' = n + 1
        /\ socket_all' = socket_all \cup {fd}
        /\ client' = [client EXCEPT ![fd] = [id |-> id, name |-> NoName]]
        /\ event' = Silence

\* main accepts a connection while the server is not full, and logs it in
login(fd) ==
    /\ n < MaxId
    /\ fd \in Fds \ socket_all
    /\ \E id \in 1..(MaxId + 1) :
        /\ find_id(id)
        /\ socketfd' = [socketfd EXCEPT ![id] = fd]
        /\ nickname' = [nickname EXCEPT ![id] = NoName]
        /\ id_record' = [id_record EXCEPT ![id] = TRUE]
        /\ n' = n + 1
        /\ socket_all' = socket_all \cup {fd}
        /\ client' = [client EXCEPT ![fd] = [id |-> id, name |-> NoName]]
        /\ event' = [kind |-> "entered", by |-> fd, name |-> NoName, ids |-> {id},
                     to |-> {socketfd'[i] : i \in live \cup {id}}]

\* Mutant of logout: the id is not given back.
logout_keeps_id(fd) ==
    /\ fd \in socket_all
    /\ n' = n - 1
    /\ socket_all' = socket_all \ {fd}
    /\ event' = Silence
    /\ UNCHANGED <<id_record, socketfd, nickname, client>>

\* the line `exit`: the others are told, the id is freed, main closes the socket
logout(fd) ==
    LET id == socketfd_to_id(fd) IN
    /\ fd \in socket_all
    /\ id_record' = [id_record EXCEPT ![id] = FALSE]
    /\ n' = n - 1
    /\ socket_all' = socket_all \ {fd}
    /\ event' = [kind |-> "left", by |-> fd, name |-> nickname[id], ids |-> {id},
                 to |-> sockets(live \ {id})]
    /\ UNCHANGED <<socketfd, nickname, client>>

\* Mutant of name: the new name is compared with the users before this one only.
name_checks_before(fd, newname) ==
    LET id == socketfd_to_id(fd) IN
    /\ fd \in socket_all
    /\ \A i \in live : i < id => nickname[i] # newname
    /\ nickname' = [nickname EXCEPT ![id] = newname]
    /\ client' = [client EXCEPT ![fd].name = newname]
    /\ event' = Silence
    /\ UNCHANGED <<id_record, socketfd, n, socket_all>>

\* the line `name newname`
name(fd, newname) ==
    LET id == socketfd_to_id(fd) IN
    /\ fd \in socket_all
    /\ \/ /\ \A i \in live : nickname[i] # newname
          /\ nickname' = [nickname EXCEPT ![id] = newname]
          /\ client' = [client EXCEPT ![fd].name = newname]
          /\ event' = [kind |-> "named", by |-> fd, name |-> newname, ids |-> {id},
                       to |-> sockets(live)]
       \/ /\ \E i \in live : nickname[i] = newname
          /\ event' = [kind |-> "taken", by |-> fd, name |-> newname, ids |-> {id},
                       to |-> sockets({id})]
          /\ UNCHANGED <<nickname, client>>
    /\ UNCHANGED <<id_record, socketfd, n, socket_all>>

\* the line `yell message`
broadcast(fd) ==
    LET id == socketfd_to_id(fd) IN
    /\ fd \in socket_all
    /\ event' = [kind |-> "yelled", by |-> fd, name |-> nickname[id], ids |-> {id},
                 to |-> sockets(live)]
    /\ UNCHANGED <<table, socket_all, client>>

\* the line `tell receiver message`
tell(fd, receiver) ==
    LET id == socketfd_to_id(fd) IN
    /\ fd \in socket_all
    /\ \/ /\ receiver \in live
          /\ event' = [kind |-> "told", by |-> fd, name |-> nickname[id],
                       ids |-> {receiver}, to |-> sockets({receiver})]
       \/ /\ receiver \notin live
          /\ event' = [kind |-> "nobody", by |-> fd, name |-> nickname[id],
                       ids |-> {receiver}, to |-> sockets({id})]
    /\ UNCHANGED <<table, socket_all, client>>

\* the line `who`: the live ids, and the nickname on the line that says "<-me"
who(fd) ==
    LET now == socketfd_to_id(fd) IN
    /\ fd \in socket_all
    /\ event' = [kind |-> "who", by |-> fd, name |-> nickname[now], ids |-> live,
                 to |-> {fd}]
    /\ UNCHANGED <<table, socket_all, client>>

Next ==
    \E fd \in Fds :
        \/ login(fd)
        \/ logout(fd)
        \/ \E newname \in Names : name(fd, newname)
        \/ broadcast(fd)
        \/ \E receiver \in Ids : tell(fd, receiver)
        \/ who(fd)

Spec == Init /\ [][Next]_vars

-----------------------------------------------------------------------------
(* The table has its shape and n stays a count the table can hold (user_info).  *)
TypeOK ==
    /\ id_record \in [Ids -> BOOLEAN]
    /\ socketfd \in [Ids -> Fds \cup {NoFd}]
    /\ nickname \in [Ids -> AllNames]
    /\ n \in 0..MaxId
    /\ socket_all \subseteq Fds
    /\ client \in [Fds -> [id : 0..MaxId, name : AllNames]]
    /\ event \in Events

(* Whatever was left behind in the table by users who are gone, and in          *)
(* whatever order ids and descriptors were reused, socketfd_to_id finds for     *)
(* every connected socket the id that login gave to it.                         *)
SocketResolves ==
    \A fd \in socket_all : socketfd_to_id(fd) = client[fd].id

(* The ids in use are those of the connected clients, one each, and each slot   *)
(* in use holds its client's socket (login, logout and main agree).             *)
TableMatchesClients ==
    /\ live = {client[fd].id : fd \in socket_all}
    /\ \A fd \in socket_all : socketfd[client[fd].id] = fd

(* total_member, which main compares with the limit, counts the ids in use:     *)
(* a login then always finds a slot inside user[].                              *)
CountIsExact == n = Cardinality(live)

(* Two users never have the same nickname, "(no name)" aside, and a user has    *)
(* the one it was last told it has (name, and login on a reused slot).          *)
NicknamesAreOwned ==
    /\ \A i, j \in live :
        nickname[i] = nickname[j] /\ nickname[i] # NoName => i = j
    /\ \A fd \in socket_all : nickname[client[fd].id] = client[fd].name

(* What an operation prints goes to the clients that it is for: yells, names    *)
(* and entries to everyone connected, a leave to everyone who stays, a tell to  *)
(* the one client with that id, refusals to the client that asked.  Nothing is  *)
(* written to a socket that was closed, or that now belongs to another client.  *)
DeliveredTo(e) ==
    /\ e.kind \in {"yelled", "named", "entered", "left"} => e.to = socket_all
    /\ e.kind = "told" => e.to = {fd \in socket_all : client[fd].id \in e.ids}
    /\ e.kind \in {"taken", "nobody", "who"} => e.to = {e.by}
DeliveryIsExact == DeliveredTo(event)

(* A client speaks under its own name: what yell, tell and logout print, and    *)
(* the line of who marked "<-me", is the nickname of the client that asked;     *)
(* who lists exactly the ids of the connected clients.                          *)
SpeaksAs(e) ==
    /\ e.kind \in {"yelled", "told", "left", "who"} => e.name = client[e.by].name
    /\ e.kind = "who" => e.ids = {client[fd].id : fd \in socket_all}
SpeaksForItself == SpeaksAs(event)

(* A step that changes the nickname in a slot is the user's own: it renamed     *)
(* itself, or it has just been given the slot.                                  *)
OwnNameOnly ==
    \A i \in Ids : nickname'[i] # nickname[i]
        => event'.kind \in {"entered", "named"} /\ client'[event'.by].id = i
OthersKeepTheirNames == [][OwnNameOnly]_vars
=============================================================================
