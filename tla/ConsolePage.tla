----------------------------- MODULE ConsolePage -----------------------------
(* A page with several sessions, and the connection to the browser that it is    *)
(* written to.  The page has no length: it is complete when every process that   *)
(* holds the connection has closed it.                                           *)
(*                                                                               *)
(* http_server (the same in projects 3 and 4) reads a request, forks a program   *)
(* for it and closes the connection; the program inherits every connection that  *)
(* the server has open, also those of other requests.  The console ends when no  *)
(* callback is left.  cgi_server is one process: its sessions share the          *)
(* connection through a shared_ptr, and the session that finishes and finds      *)
(* nobody else using it closes it.                                               *)
(*                                                                               *)
(* One session is Console's; of the others it matters how many have not ended.   *)
EXTENDS Console

CONSTANT MaxOthers  \* sessions of a page besides the one that Console has
ASSUME MaxOthersAssumption == MaxOthers \in Nat

VARIABLES
    request,    \* which callback of the request's session is next
    holders,    \* the processes that have the connection to the browser open
    neighbour,  \* the program of another request, forked while this one is served
    others,     \* how many of the other sessions have not ended
    refs,       \* use_count of the connection; what keeps io_context_.run running
    last        \* history: how the session that ended last did

pageVars == <<request, holders, neighbour, others, refs, last>>

PageInit ==
    /\ SessionInit
    /\ request = "accept"
    /\ holders = {}
    /\ neighbour = "none"
    /\ others \in 0..MaxOthers
    /\ refs = 0
    /\ last = "none"

\* do_accept; async_read_some returns; the status line is written
do_accept ==
    /\ request = "accept" /\ request' = "wait_http_request"
    /\ holders' = {"server"}
    /\ UNCHANGED <<vars, neighbour, others, refs, last>>

wait_http_request ==
    /\ request = "wait_http_request" /\ request' = "accept_http_request"
    /\ UNCHANGED <<vars, holders, neighbour, others, refs, last>>

\* Mutant of accept_http_request: the server keeps the connection open.
accept_http_request_open ==
    /\ program # "cgi"
    /\ request = "accept_http_request" /\ request' = "run"
    /\ holders' = holders \cup {"program"}
    /\ refs' = others + 1
    /\ UNCHANGED <<vars, neighbour, others, last>>

\* fork, execlp in the child, close in the parent; main starts the sessions
accept_http_request ==
    /\ program # "cgi"
    /\ request = "accept_http_request" /\ request' = "run"
    /\ holders' = (holders \ {"server"}) \cup {"program"}
    /\ refs' = others + 1
    /\ UNCHANGED <<vars, neighbour, others, last>>

\* the same callback of cgi_server: it has a reference itself, in a frame that
\* never returns because io_context_ has the acceptor
accept_console_cgi ==
    /\ program = "cgi"
    /\ request = "accept_http_request" /\ request' = "run"
    /\ refs' = others + 2
    /\ UNCHANGED <<vars, holders, neighbour, others, last>>

\* another request is served between two callbacks of this one
OtherRequest ==
    /\ program # "cgi" /\ "server" \in holders /\ neighbour = "none"
    /\ neighbour' = "run"
    /\ holders' = holders \cup {"neighbour"}
    /\ UNCHANGED <<vars, request, others, refs, last>>

OtherProgramEnds ==
    /\ neighbour = "run" /\ neighbour' = "ended"
    /\ holders' = holders \ {"neighbour"}
    /\ UNCHANGED <<vars, request, others, refs, last>>

-----------------------------------------------------------------------------
\* Mutant of exit_written: closes for whoever finishes.
exit_written_any ==
    /\ holders' = IF program = "cgi" /\ refs >= 2 THEN {} ELSE holders
    /\ refs' = refs - 1 /\ last' = "finish"

\* the line exit is written: the session is over, and its reference is the last
\* but one, so that nobody else uses the connection, or it is not
exit_written ==
    /\ holders' = IF program = "cgi" /\ refs = 2 THEN {} ELSE holders
    /\ refs' = refs - 1 /\ last' = "finish"

\* a callback returns for an error: nobody looks at use_count
dropped ==
    /\ refs' = refs - 1 /\ last' = "stopped"
    /\ UNCHANGED holders

OwnSession ==
    /\ request = "run" /\ Session
    /\ CASE session' = "finish" -> exit_written
         [] session' = "stopped" -> dropped
         [] OTHER -> UNCHANGED <<holders, refs, last>>
    /\ UNCHANGED <<request, neighbour, others>>

OtherSession ==
    /\ request = "run" /\ others > 0
    /\ others' = others - 1
    /\ exit_written \/ dropped
    /\ UNCHANGED <<vars, request, neighbour>>

\* io_context_.run of the console returns, and main
RunReturns ==
    /\ program # "cgi" /\ request = "run" /\ refs = 0
    /\ holders' = holders \ {"program"}
    /\ UNCHANGED <<vars, request, neighbour, others, refs, last>>

Request == do_accept \/ wait_http_request \/ accept_http_request \/ accept_console_cgi
OfOthers == OtherRequest \/ OtherProgramEnds \/ OtherSession

Next ==
    \/ Request \/ OwnSession \/ RunReturns \/ OfOthers
    \/ ShellSide /\ UNCHANGED pageVars

(* The callbacks run, and so do the shell and its commands.  Whatever is of     *)
(* other sessions and requests may stop.                                        *)
Spec ==
    /\ PageInit /\ [][Next]_<<vars, pageVars>>
    /\ WF_<<vars, pageVars>>(Request \/ OwnSession) /\ WF_<<vars, pageVars>>(RunReturns)
    /\ WF_vars(Prompt /\ UNCHANGED pageVars)
    /\ WF_vars(Recv /\ UNCHANGED pageVars)
    /\ WF_vars(Complain /\ UNCHANGED pageVars)

-----------------------------------------------------------------------------
PageTypeOK ==
    /\ TypeOK
    /\ request \in {"accept", "wait_http_request", "accept_http_request", "run"}
    /\ holders \subseteq {"server", "program", "neighbour"}
    /\ neighbour \in {"none", "run", "ended"}
    /\ others \in 0..MaxOthers /\ refs \in 0..(MaxOthers + 2)
    /\ last \in {"none", "finish", "stopped"}

AllOver == request = "run" /\ Over /\ others = 0

\* No session writes behind the end of the page: whoever closes the connection
\* last does so when every session has ended.
NothingBehindTheEnd == request # "accept" /\ holders = {} => AllOver

\* When the sessions have ended the browser gets the end of the page, as soon as
\* the programs that inherited its connection have ended.  In cgi_server that
\* needs a session that finishes last: one that fails last leaves the page open.
Complete ==
    AllOver /\ neighbour # "run" /\ (program = "cgi" => last = "finish")
PageEnds == Complete ~> holders = {}
=============================================================================
