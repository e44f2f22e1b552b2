----------------------------- MODULE UserPipes -----------------------------
(* The pipes that class user_info of np_single_proc.cpp keeps between lines:    *)
(* one vector of user pipes for the whole server (`cmd >5`, `cmd <2`), and for  *)
(* each id a vector of numbered pipes (`cmd |3`).  Both are filed under ids, and *)
(* ids are reused: this module runs them together with the table of users.      *)
(*                                                                              *)
(* The server is one process and a line is handled from recv to the prompt      *)
(* before anybody else is served: a line is one step.  A record of              *)
(* future_pipe[id] is its number; NumberedPipes shows that numbers differ.  A   *)
(* number that fell below zero is never looked for again: all of them are -1.   *)
(* The messages about user pipes go to sockets(live) as broadcast's do, or to   *)
(* the user who asked; they are left out here.                                  *)
EXTENDS UserTable, Sequences, SequencesExt

CONSTANT MaxSkip        \* the largest N of |N

ASSUME MaxSkipAssumption == MaxSkip \in Nat

VARIABLES
    user_pipe,      \* the vector: sender and receiver of each user pipe
    future_pipe     \* future_pipe[id]: the numbers of the numbered pipes of id

pipes == <<user_pipe, future_pipe>>
pipevars == <<vars, pipes>>

-----------------------------------------------------------------------------
\* Mutant of Decremented: the numbers go up.
Incremented(numbers) == {k + 1 : k \in numbers}

Decremented(numbers) == {IF k < 0 THEN k ELSE k - 1 : k \in numbers}

\* Mutant of future_pipe_number_subone: the numbered pipes of every user count.
subone_all(id) == [i \in Ids |-> Decremented(future_pipe[i])]

future_pipe_number_subone(id) ==
    [future_pipe EXCEPT ![id] = Decremented(@)]

\* the head takes the pipe of number 0, and a last command with |skip adds its own
FutureAfter(id, skip) ==
    [future_pipe_number_subone(id) EXCEPT
        ![id] = (@ \ {0}) \cup {k \in {skip} : k > 0}]

PipeAt(q, sender, receiver) ==
    {k \in 1..Len(q) : q[k].sender = sender /\ q[k].receiver = receiver}

\* `<sender`: the first pipe from sender is taken; without one, /dev/null is read
get_userpipe_read(q, id, sender) ==
    IF sender \in live /\ PipeAt(q, sender, id) # {}
    THEN RemoveAt(q, CHOOSE k \in PipeAt(q, sender, id) :
                        \A l \in PipeAt(q, sender, id) : k <= l)
    ELSE q

\* Mutant of add_userpipe: the vector is not searched for the pair.
add_userpipe_unchecked(q, id, receiver) ==
    IF receiver \in live
    THEN Append(q, [sender |-> id, receiver |-> receiver])
    ELSE q

\* `>receiver`: refused when the receiver is not there or has one from this user
add_userpipe(q, id, receiver) ==
    IF receiver \in live /\ PipeAt(q, id, receiver) = {}
    THEN Append(q, [sender |-> id, receiver |-> receiver])
    ELSE q

-----------------------------------------------------------------------------
PipesInit ==
    /\ Init
    /\ user_pipe = <<>>
    /\ future_pipe = [i \in Ids |-> {}]

Login(fd) == login(fd) /\ UNCHANGED pipes

\* logout leaves all pipes where they are
Logout(fd) == logout(fd) /\ UNCHANGED pipes

\* a line that is a built-in command: n is 0, the numbers go down, nothing is run
Builtin(fd) ==
    /\ \/ \E newname \in Names : name(fd, newname)
       \/ broadcast(fd)
       \/ \E receiver \in Ids : tell(fd, receiver)
       \/ who(fd)
    /\ future_pipe' = future_pipe_number_subone(socketfd_to_id(fd))
    /\ UNCHANGED user_pipe

\* a line of commands: `<in` at its head; at its tail |skip, or else `>out`
CommandLine(fd, in, skip, out) ==
    LET id == socketfd_to_id(fd)
        rest == IF in > 0 THEN get_userpipe_read(user_pipe, id, in) ELSE user_pipe
    IN  /\ fd \in socket_all
        /\ future_pipe' = FutureAfter(id, skip)
        /\ user_pipe' = IF skip = 0 /\ out > 0 THEN add_userpipe(rest, id, out)
                                               ELSE rest
        /\ event' = [Silence EXCEPT !.by = fd]
        /\ UNCHANGED <<table, socket_all, client>>

PipesNext ==
    \E fd \in Fds :
        \/ Login(fd)
        \/ Logout(fd)
        \/ Builtin(fd)
        \/ \E in, out \in 0..MaxId, skip \in 0..MaxSkip :
                CommandLine(fd, in, skip, out)

PipesSpec == PipesInit /\ [][PipesNext]_pipevars

-----------------------------------------------------------------------------
(* Records name ids of the table, and numbers are never above what |N can say.  *)
PipesTypeOK ==
    /\ TypeOK
    /\ user_pipe \in Seq([sender : Ids, receiver : Ids])
    /\ future_pipe \in [Ids -> SUBSET (-1..MaxSkip)]

(* There is one pipe at most from one user to another, whatever was refused,    *)
(* read or left behind before: the searches that stop at the first cannot miss. *)
OnePipePerPair ==
    \A k, l \in 1..Len(user_pipe) : user_pipe[k] = user_pipe[l] => k = l

(* A line changes the numbered pipes of the user who typed it and of nobody     *)
(* else; a user pipe that is there after it and was not before is sent by this  *)
(* user, and one that is gone was sent to this user, however ids and            *)
(* descriptors were reused (socketfd_to_id).  event.by is the socket it came    *)
(* from, and client what login told that socket.                                *)
TouchesOwnOnly ==
    LET me == client[event'.by].id IN
    /\ event'.by \in socket_all
    /\ \A i \in Ids \ {me} : future_pipe'[i] = future_pipe[i]
    /\ \A s, r \in Ids :
        /\ s # me /\ PipeAt(user_pipe, s, r) = {} => PipeAt(user_pipe', s, r) = {}
        /\ r # me /\ PipeAt(user_pipe', s, r) = {} => PipeAt(user_pipe, s, r) = {}
OthersKeepTheirPipes == [][TouchesOwnOnly]_pipes

(* "If you disconnect from the server, all user pipe about you (send or         *)
(* receive) should be closed."                                                  *)
PipesCloseWithTheirUsers ==
    \A k \in 1..Len(user_pipe) : user_pipe[k].sender \in live
                              /\ user_pipe[k].receiver \in live
=============================================================================
