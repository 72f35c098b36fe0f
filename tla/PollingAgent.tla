---------------------------- MODULE PollingAgent ----------------------------
(***************************************************************************)
(* The polling loop of a private agent (server/registration.go): one        *)
(* goroutine polls the gateway, runs the task it is handed to the end, posts *)
(* the result once, and polls again.  Cancelling its context ends the loop   *)
(* at its head, and makes every request it still makes fail.                 *)
(***************************************************************************)
EXTENDS GatewayQueue

CONSTANT None   \* no task

ASSUME AgentAssumption == None \notin Tasks

VARIABLES
    agent,     \* where the loop is
    held,      \* the task it was handed, None between tasks
    verdict,   \* the status it is about to post
    inner,     \* the state of the Task in the result it is about to post
    closing,   \* whether its context was canceled
    lost       \* history: tasks whose assignment or result the network lost

agentVars == <<agent, held, verdict, inner, closing, lost>>

AgentInit ==
    /\ agent = "polling"
    /\ held = None
    /\ verdict = "none"
    /\ inner = "none"
    /\ closing = FALSE
    /\ lost = {}

\* The poll answers with a task.
Poll(t) ==
    /\ agent = "polling" /\ ~closing
    /\ Assign(t)
    /\ held' = t
    /\ agent' = "running"
    /\ UNCHANGED <<verdict, inner, closing, lost>>

\* The answer of the poll is lost or unreadable: the loop sleeps and polls on,
\* and the gateway takes the task for assigned.
PollLost(t) ==
    /\ agent = "polling" /\ ~closing
    /\ Assign(t)
    /\ lost' = lost \cup {t}
    /\ UNCHANGED <<agent, held, verdict, inner, closing>>

\* processGatewayTask runs the task.  A handler that fails still yields a Task,
\* in state failed, and that is posted as completed; only an error of the
\* message handling itself is posted as failed, without a result.
Process ==
    /\ agent = "running"
    /\ \/ verdict' = "completed" /\ inner' \in {"completed", "failed"}
       \/ verdict' = "failed" /\ inner' = "none"
    /\ agent' = "posting"
    /\ UNCHANGED <<gatewayVars, held, closing, lost>>

\* The one attempt to post the result succeeds.
PostResult ==
    /\ agent = "posting" /\ ~closing
    /\ Complete(held, verdict, inner)
    /\ agent' = "polling"
    /\ held' = None
    /\ verdict' = "none" /\ inner' = "none"
    /\ UNCHANGED <<closing, lost>>

\* Defect: the result of a task whose post failed is forgotten without a trace.
PostDropped ==
    /\ agent = "posting"
    /\ agent' = "polling"
    /\ held' = None
    /\ verdict' = "none" /\ inner' = "none"
    /\ UNCHANGED <<gatewayVars, closing, lost>>

\* The one attempt fails, as it must when the context is canceled; the loop
\* logs it and goes on.
PostLost ==
    /\ agent = "posting"
    /\ lost' = lost \cup {held}
    /\ agent' = "polling"
    /\ held' = None
    /\ verdict' = "none" /\ inner' = "none"
    /\ UNCHANGED <<gatewayVars, closing>>

\* Somebody cancels the loop's context.
CloseAgent ==
    /\ ~closing
    /\ closing' = TRUE
    /\ UNCHANGED <<gatewayVars, agent, held, verdict, inner, lost>>

\* The head of the loop sees the canceled context.
StopPolling ==
    /\ agent = "polling" /\ closing
    /\ agent' = "stopped"
    /\ UNCHANGED <<gatewayVars, held, verdict, inner, closing, lost>>

AgentStep == Process \/ PostResult \/ PostLost \/ StopPolling

AgentNext ==
    \/ \E t \in Tasks : Poll(t) \/ PollLost(t)
    \/ AgentStep
    \/ CloseAgent

\* The handler closes its channel and the loop is scheduled.
AgentFairness == WF_<<gatewayVars, agentVars>>(AgentStep)
=============================================================================
