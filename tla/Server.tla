-------------------------------- MODULE Server --------------------------------
(***************************************************************************)
(* The server around its handlers: the access pipeline (Access) and the    *)
(* WebSocket connections it opens (Connection), from start to shutdown as  *)
(* src/src/main.rs orders it: stop accepting, drain the requests, tell the *)
(* background tasks and the sockets, wait for the tasks, exit.             *)
(***************************************************************************)
EXTENDS Connection

CONSTANT Tasks     \* background tasks that were started

VARIABLE running   \* background tasks that have not returned

vars == <<accessVars, socketVars, running>>

Init ==
    /\ AccessInit
    /\ ConnectionInit
    /\ running = Tasks

\* SIGINT or SIGTERM: no request is accepted any more.
StopSignal ==
    /\ phase = "serving"
    /\ phase' = "draining"
    /\ UNCHANGED <<token, request, enabled, socketVars, running>>

\* Mutant: serve() waits for the sockets too, which are told only afterwards.
DrainedOfSockets ==
    /\ phase = "draining"
    /\ \A r \in Requests : request[r] = Free
    /\ \A k \in Sockets : holder[k] = Nobody
    /\ phase' = "joining"
    /\ UNCHANGED <<token, request, enabled, socketVars, running>>

\* serve() returns once the requests are answered (a socket that was upgraded
\* is none of them), and shutdown_tx tells whoever listens.
Drained ==
    /\ phase = "draining"
    /\ \A r \in Requests : request[r] = Free
    /\ phase' = "joining"
    /\ UNCHANGED <<token, request, enabled, socketVars, running>>

\* A background task sees the signal at its next select!.
TaskStops(t) ==
    /\ phase = "joining"
    /\ t \in running
    /\ running' = running \ {t}
    /\ UNCHANGED <<accessVars, socketVars>>

\* main returns, and what sockets there are end with the process.
Exit ==
    /\ phase = "joining"
    /\ running = {}
    /\ phase' = "down"
    /\ UNCHANGED <<token, request, enabled, socketVars, running>>

Down == phase = "down" /\ UNCHANGED vars

Serving(r) == (Handle(r) /\ UNCHANGED socketVars) \/ UpgradeFails(r)

Next ==
    \/ \E r \in Requests :
         \/ Serving(r) /\ UNCHANGED running
         \/ Admit(r) /\ UNCHANGED <<socketVars, running>>
         \/ \E k \in Sockets : Upgrade(r, k) /\ UNCHANGED running
    \/ \E u \in Subjects : phase # "down" /\ Expire(u) /\ UNCHANGED <<socketVars, running>>
    \/ \E k \in Sockets : SocketStep(k) /\ UNCHANGED running
    \/ StopSignal \/ Drained \/ Exit \/ Down
    \/ \E t \in Tasks : TaskStops(t)

\* Requests are answered; a write to a client ends, if only because the client
\* is gone; tokio's mutex and its read-write lock serve who waits in order.
Fairness ==
    /\ \A r \in Requests : WF_vars(Serving(r) /\ UNCHANGED running)
    /\ \A k \in Sockets :
         /\ WF_vars(SendStep(k) /\ UNCHANGED running)
         /\ WF_vars(Abort(k) /\ UNCHANGED running)
         /\ SF_vars(RecvStep(k) /\ UNCHANGED running)
    /\ WF_vars(Drained) /\ WF_vars(Exit)
    /\ \A t \in Tasks : WF_vars(TaskStops(t))

Spec == Init /\ [][Next]_vars /\ Fairness

-----------------------------------------------------------------------------
TypeOK ==
    /\ AccessTypeOK
    /\ ConnectionTypeOK
    /\ running \subseteq Tasks

\* No set of subscriptions grows past MAX_SUBSCRIPTIONS_PER_CONNECTION, though
\* the cap is read under one lock and used under another.
CapHolds ==
    \A k \in Sockets, ch \in Channels : Cardinality(subs[k][ch]) <= MaxSubscriptions

\* u has a request that passed the middleware, or a socket.
Acting(u) ==
    \/ \E r \in Requests : request[r].sub = u
    \/ \E k \in Sockets : holder[k] = u

\* The master switch moves only while a subject with Admin is acting: the two
\* ways to it, POST /controls and the commands of a socket, check on their own
\* (required_permission and handle_client_message).
ControlsOnlyByAdmin ==
    [][enabled' # enabled =>
         \E u \in Subjects : "Admin" \in Permissions[u] /\ Acting(u)]_vars

\* While a delta or a trade is being written the client is subscribed to it, so
\* none follows the confirmation that it is not (the read guard handle_socket
\* holds across the write).
WrittenIsSubscribed ==
    \A k \in Sockets :
      send[k].pc \in {"matching", "writing"} /\ send[k].channel # None
        => Matches(subs[k][send[k].channel], send[k].symbol)

\* Every command is dealt with, whatever the other task holds or waits for.
CommandsAreAnswered ==
    \A k \in Sockets :
      recv[k].pc \in {"check", "insert", "remove", "answer", "writing"}
        ~> recv[k].pc \in {"idle", "ended"} \/ phase = "down"

\* A connection that lost either of its tasks is released, even if its client
\* is never heard of again (the abort of the sibling, issue #66).
SocketsAreReleased ==
    \A k \in Sockets :
      recv[k].pc = "ended" \/ send[k].pc = "ended"
        ~> holder[k] = Nobody \/ phase = "down"

\* Once told to stop, the process does (main, shutdown_signal).
ShutdownCompletes == phase = "draining" ~> phase = "down"
=============================================================================
