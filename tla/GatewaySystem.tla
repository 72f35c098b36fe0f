---------------------------- MODULE GatewaySystem ----------------------------
(***************************************************************************)
(* A pull-mode client and the polling agent it talks to, through the        *)
(* gateway's task queue.                                                    *)
(***************************************************************************)
EXTENDS PullClient, PollingAgent

systemVars == <<gatewayVars, clientVars, agentVars>>

SystemInit == GatewayInit /\ ClientInit /\ AgentInit

SystemNext ==
    \/ ClientNext /\ UNCHANGED agentVars
    \/ AgentNext /\ UNCHANGED clientVars

SystemSpec ==
    /\ SystemInit
    /\ [][SystemNext]_systemVars
    /\ ClientFairness
    /\ AgentFairness

-----------------------------------------------------------------------------
(* Properties *)

\* Every variable has its type, and a call past its creation has a state.
SystemTypeOK ==
    /\ gw \in [Tasks -> GatewayStates]
    /\ outcome \in [Tasks -> Outcomes]
    /\ call \in [Tasks -> Calls]
    /\ state \in [Tasks -> ClientStates]
    /\ pending \subseteq Tasks
    /\ seen \in [Tasks -> Over \cup {"absent"}]
    /\ merged \in [Tasks -> Outcomes]
    /\ result \in [Tasks -> {"none", "nil", "timeout", "ctx"}]
    /\ expired \subseteq Tasks
    /\ canceler \in [Tasks -> {"idle", "posted", "done"}]
    /\ agent \in {"polling", "running", "posting", "stopped"}
    /\ held \in Tasks \cup {None}
    /\ verdict \in {"none", "completed", "failed"}
    /\ inner \in Outcomes
    /\ closing \in BOOLEAN
    /\ lost \subseteq Tasks
    /\ \A t \in Tasks : call[t] # "idle" => state[t] # "none"

\* A Task that SendTask completes carries the outcome that the agent posted and
\* the gateway still holds: no path completes it without a result (the
\* completed branch of pullSend, with a failing fetch, timeouts and cancels).
ResultDelivered ==
    \A t \in Tasks : state[t] = "completed" =>
        /\ gw[t] = "completed"
        /\ merged[t] = outcome[t]
        /\ merged[t] # "none"

\* The state that a call returns without an error is warranted: failed by the
\* gateway's verdict or a submission that failed, canceled by a cancel
\* (pullSend against CancelTask, which writes the same Task).
VerdictWarranted ==
    \A t \in Tasks : call[t] = "returned" /\ result[t] = "nil" =>
        /\ state[t] = "failed" /\ seen[t] # "absent" => gw[t] = "failed"
        /\ state[t] = "canceled" => canceler[t] # "idle"

\* An entry of pendingTasks outlives its call only if the call never saw the
\* end of its task: it failed to submit, timed out or lost its context.
LeakOnlyUnfinished ==
    \A t \in pending : call[t] = "returned" => seen[t] = "absent"

\* No task vanishes: what the gateway holds for assigned is in the hands of
\* the polling loop, or the network lost its assignment or its result.
AssignedIsHeld ==
    \A t \in Tasks : gw[t] = "assigned" => held = t \/ t \in lost

\* The polling loop keeps the contract of an agent, among clients that submit
\* and cancel, time out and lose their contexts: it reports what it holds and
\* only that, once (gatewayPollingLoop, processGatewayTask).
Contract == INSTANCE AgentContract
KeepsContract == Contract!Spec

\* Every call returns, whatever the gateway, the network and the agent do.
SendReturns ==
    \A t \in Tasks : call[t] = "submitting" ~> call[t] = "returned"

\* What SendTask's comment says of pull mode: it polls until completion.  A
\* call that returns no error returns a task in a terminal state.
NilErrorIsSettled ==
    \A t \in Tasks : call[t] = "returned" /\ result[t] = "nil" => state[t] \in Over

\* What GetTask answers: the pending Task if there is one, else the gateway's.
GetTask(t) == IF t \in pending THEN state[t] ELSE gw[t]

\* What GetTask's comment says: it returns the current state of a task.  Once
\* no call works on a task any more and the gateway has decided it, GetTask
\* answers as the gateway does.
GetTaskCurrent ==
    \A t \in Tasks : call[t] = "returned" /\ canceler[t] # "posted" /\ gw[t] \in Over
        => GetTask(t) = gw[t]

\* What applyResult's comment says: the agent's Task is merged into the
\* client's.  A Task the agent failed is not returned as completed.
FailurePropagates ==
    \A t \in Tasks : merged[t] = "failed" => state[t] # "completed"
=============================================================================
