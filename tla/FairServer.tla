----------------------------- MODULE FairServer -----------------------------
(* What a server that serves many clients from one process promises, without    *)
(* any loop: a connection is accepted while there is room, every line is        *)
(* answered by a prompt, and (Fairness) neither waits for ever because others   *)
(* are busy.                                                                    *)
EXTENDS Integers, FiniteSets

CONSTANTS
    Fds,        \* the descriptors of client sockets
    MaxUsers,   \* how many clients are served at once
    MaxWaiting  \* how many connections wait to be accepted: bounds the input

VARIABLES
    backlog,    \* the number of connections that wait
    socket_all, \* the client sockets
    inbox,      \* what a client has sent and the server has not answered
    prompt      \* the client has been asked for a line

vars == <<backlog, socket_all, inbox, prompt>>

Lines == {"line", "exit"}

Init ==
    /\ backlog = 0
    /\ socket_all = {}
    /\ inbox = [fd \in Fds |-> "empty"]
    /\ prompt = [fd \in Fds |-> FALSE]

Connect ==
    /\ backlog < MaxWaiting
    /\ backlog' = backlog + 1
    /\ UNCHANGED <<socket_all, inbox, prompt>>

\* a client types a line when it is asked for one
Type(fd) ==
    /\ prompt[fd]
    /\ \E l \in Lines : inbox' = [inbox EXCEPT ![fd] = l]
    /\ prompt' = [prompt EXCEPT ![fd] = FALSE]
    /\ UNCHANGED <<backlog, socket_all>>

Accept ==
    /\ backlog > 0 /\ Cardinality(socket_all) < MaxUsers
    /\ backlog' = backlog - 1
    /\ \E fd \in Fds \ socket_all :
        /\ socket_all' = socket_all \cup {fd}
        /\ prompt' = [prompt EXCEPT ![fd] = TRUE]
    /\ UNCHANGED inbox

Answer(fd) ==
    /\ fd \in socket_all /\ inbox[fd] # "empty"
    /\ inbox' = [inbox EXCEPT ![fd] = "empty"]
    /\ IF inbox[fd] = "exit"
       THEN socket_all' = socket_all \ {fd} /\ UNCHANGED prompt
       ELSE prompt' = [prompt EXCEPT ![fd] = TRUE] /\ UNCHANGED socket_all
    /\ UNCHANGED backlog

Next == Connect \/ Accept \/ \E fd \in Fds : Type(fd) \/ Answer(fd)

Safety == Init /\ [][Next]_vars

Fairness == WF_vars(Accept) /\ \A fd \in Fds : WF_vars(Answer(fd))
=============================================================================
