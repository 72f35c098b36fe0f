----------------------------- MODULE PullClient -----------------------------
(***************************************************************************)
(* The pull mode of gateway/a2a_client.go: concurrent SendTask calls, each  *)
(* polling the gateway for its own task, CancelTask calls from other        *)
(* goroutines, and the pendingTasks cache they share.  The mutex guards the *)
(* map only; the Status of a pending task is written without it.            *)
(*                                                                         *)
(* The network may lose a request before it reaches the gateway or lose the *)
(* answer after the request took effect.                                    *)
(***************************************************************************)
EXTENDS GatewayQueue

VARIABLES
    call,      \* where the SendTask call of each task is
    state,     \* Status.State of the Task it returns
    pending,   \* the keys of pendingTasks
    seen,      \* the status its last successful poll read
    merged,    \* the outcome merged into the Task by applyResult
    result,    \* how the call ended: "nil", "timeout", "ctx"; "none" before
    expired,   \* tasks whose maxPollTime has passed
    canceler   \* where the CancelTask call of each task is

clientVars == <<call, state, pending, seen, merged, result, expired, canceler>>

Calls == {"idle", "submitting", "accepted", "looping", "read", "fetching",
          "releasing", "returned"}
ClientStates == {"none", "submitted", "working", "completed", "failed", "canceled"}

ClientInit ==
    /\ call = [t \in Tasks |-> "idle"]
    /\ state = [t \in Tasks |-> "none"]
    /\ pending = {}
    /\ seen = [t \in Tasks |-> "absent"]
    /\ merged = [t \in Tasks |-> "none"]
    /\ result = [t \in Tasks |-> "none"]
    /\ expired = {}
    /\ canceler = [t \in Tasks |-> "idle"]

\* Defect: the Task is published before it has a status.
PullSendBlank(t) ==
    /\ call[t] = "idle"
    /\ call' = [call EXCEPT ![t] = "submitting"]
    /\ pending' = pending \cup {t}
    /\ UNCHANGED <<gatewayVars, state, seen, merged, result, expired, canceler>>

\* pullSend creates the submitted Task and publishes it in pendingTasks.
PullSend(t) ==
    /\ call[t] = "idle"
    /\ call' = [call EXCEPT ![t] = "submitting"]
    /\ state' = [state EXCEPT ![t] = "submitted"]
    /\ pending' = pending \cup {t}
    /\ UNCHANGED <<gatewayVars, seen, merged, result, expired, canceler>>

\* The gateway accepts the submission and the client hears of it.
SubmitAccepted(t) ==
    /\ call[t] = "submitting"
    /\ Enqueue(t)
    /\ call' = [call EXCEPT ![t] = "accepted"]
    /\ UNCHANGED <<state, pending, seen, merged, result, expired, canceler>>

\* The submission fails for the client, whether or not the gateway took it: a
\* failed Task and no error.
SubmitFails(t) ==
    /\ call[t] = "submitting"
    /\ Enqueue(t) \/ UNCHANGED gatewayVars
    /\ call' = [call EXCEPT ![t] = "returned"]
    /\ state' = [state EXCEPT ![t] = "failed"]
    /\ result' = [result EXCEPT ![t] = "nil"]
    /\ UNCHANGED <<pending, seen, merged, expired, canceler>>

\* The status becomes working and the deadline starts to run.
StartPolling(t) ==
    /\ call[t] = "accepted"
    /\ call' = [call EXCEPT ![t] = "looping"]
    /\ state' = [state EXCEPT ![t] = "working"]
    /\ UNCHANGED <<gatewayVars, pending, seen, merged, result, expired, canceler>>

\* Defect: the deadline is renewed in every round.
NeverExpires(t) == FALSE

\* maxPollTime passes while the call polls.
Expire(t) ==
    /\ call[t] \in {"looping", "read", "fetching"}
    /\ t \notin expired
    /\ expired' = expired \cup {t}
    /\ UNCHANGED <<gatewayVars, call, state, pending, seen, merged, result, canceler>>

\* The deadline check at the head of the loop.
PollTimeout(t) ==
    /\ call[t] = "looping"
    /\ t \in expired
    /\ call' = [call EXCEPT ![t] = "returned"]
    /\ state' = [state EXCEPT ![t] = "failed"]
    /\ result' = [result EXCEPT ![t] = "timeout"]
    /\ UNCHANGED <<gatewayVars, pending, seen, merged, expired, canceler>>

\* The caller's context ends while the call waits for the next poll.
ContextDone(t) ==
    /\ call[t] = "looping"
    /\ call' = [call EXCEPT ![t] = "returned"]
    /\ result' = [result EXCEPT ![t] = "ctx"]
    /\ UNCHANGED <<gatewayVars, state, pending, seen, merged, expired, canceler>>

\* One poll: a failed request or an unfinished task means another round.
PollStatus(t) ==
    /\ call[t] = "looping"
    /\ gw[t] \in Over
    /\ seen' = [seen EXCEPT ![t] = gw[t]]
    /\ call' = [call EXCEPT ![t] = IF gw[t] = "completed" THEN "fetching" ELSE "read"]
    /\ UNCHANGED <<gatewayVars, state, pending, merged, result, expired, canceler>>

\* Defect: whatever is not completed has failed.
SettleFailed(t) ==
    /\ call[t] = "read"
    /\ state' = [state EXCEPT ![t] = "failed"]
    /\ call' = [call EXCEPT ![t] = "releasing"]
    /\ UNCHANGED <<gatewayVars, pending, seen, merged, result, expired, canceler>>

\* The gateway reported failed or canceled: the Task takes that state.
Settle(t) ==
    /\ call[t] = "read"
    /\ state' = [state EXCEPT ![t] = seen[t]]
    /\ call' = [call EXCEPT ![t] = "releasing"]
    /\ UNCHANGED <<gatewayVars, pending, seen, merged, result, expired, canceler>>

\* applyResult: the Task takes over the history and artifacts of the agent's
\* Task, whatever its state.
ApplyResult(t) == merged' = [merged EXCEPT ![t] = outcome[t]]

\* The gateway reported completed and the result arrives: the Task is completed.
FetchResult(t) ==
    /\ call[t] = "fetching"
    /\ state' = [state EXCEPT ![t] = "completed"]
    /\ ApplyResult(t)
    /\ call' = [call EXCEPT ![t] = "releasing"]
    /\ UNCHANGED <<gatewayVars, pending, seen, result, expired, canceler>>

\* Defect: a result that cannot be fetched completes the Task all the same.
FetchFailsCompleted(t) ==
    /\ call[t] = "fetching"
    /\ state' = [state EXCEPT ![t] = "completed"]
    /\ call' = [call EXCEPT ![t] = "releasing"]
    /\ UNCHANGED <<gatewayVars, pending, seen, merged, result, expired, canceler>>

\* The result cannot be fetched: the Task keeps its state.
FetchFails(t) ==
    /\ call[t] = "fetching"
    /\ call' = [call EXCEPT ![t] = "releasing"]
    /\ UNCHANGED <<gatewayVars, state, pending, seen, merged, result, expired, canceler>>

\* Defect: the entry of a finished call stays in pendingTasks.
ReturnUnreleased(t) ==
    /\ call[t] = "releasing"
    /\ result' = [result EXCEPT ![t] = "nil"]
    /\ call' = [call EXCEPT ![t] = "returned"]
    /\ UNCHANGED <<gatewayVars, state, pending, seen, merged, expired, canceler>>

\* The entry leaves pendingTasks and the call returns without an error.
Release(t) ==
    /\ call[t] = "releasing"
    /\ pending' = pending \ {t}
    /\ result' = [result EXCEPT ![t] = "nil"]
    /\ call' = [call EXCEPT ![t] = "returned"]
    /\ UNCHANGED <<gatewayVars, state, seen, merged, expired, canceler>>

\* CancelTask posts the cancel.  Without an answer it gives up, although the
\* gateway may have canceled the task.
CancelTask(t) ==
    /\ call[t] # "idle"
    /\ canceler[t] = "idle"
    /\ \/ /\ CancelQueued(t)
          /\ canceler' = [canceler EXCEPT ![t] = "posted"]
       \/ /\ CancelQueued(t) \/ UNCHANGED gatewayVars
          /\ canceler' = [canceler EXCEPT ![t] = "done"]
    /\ UNCHANGED <<call, state, pending, seen, merged, result, expired>>

\* After a successful post the pending Task, if any, is marked canceled.
MarkCanceled(t) ==
    /\ canceler[t] = "posted"
    /\ state' = IF t \in pending THEN [state EXCEPT ![t] = "canceled"] ELSE state
    /\ canceler' = [canceler EXCEPT ![t] = "done"]
    /\ UNCHANGED <<gatewayVars, call, pending, seen, merged, result, expired>>

\* What the goroutine of a call does next, but for its context ending.
CallStep(t) ==
    \/ SubmitAccepted(t)
    \/ SubmitFails(t)
    \/ StartPolling(t)
    \/ PollTimeout(t)
    \/ PollStatus(t)
    \/ Settle(t)
    \/ FetchResult(t)
    \/ FetchFails(t)
    \/ Release(t)

ClientNext == \E t \in Tasks :
    \/ PullSend(t)
    \/ CallStep(t)
    \/ Expire(t)
    \/ ContextDone(t)
    \/ CancelTask(t)
    \/ MarkCanceled(t)

\* Goroutines are scheduled and time passes; nothing is promised of contexts,
\* of cancels or of the network.
ClientFairness == \A t \in Tasks :
    /\ WF_clientVars(CallStep(t))
    /\ WF_clientVars(Expire(t))
=============================================================================
