------------------------- MODULE GatewaySystem_proofs -------------------------
(***************************************************************************)
(* Proofs about GatewaySystem for any number of calls.                      *)
(***************************************************************************)
EXTENDS GatewaySystem, TLAPS

\* What the polling loop carries from one step to the next: a task while it
\* runs or posts, and a result exactly when it is about to post completed.
LoopInv ==
    /\ agent \in {"running", "posting"} <=> held # None
    /\ agent = "posting" <=> verdict # "none"
    /\ verdict = "completed" <=> inner # "none"

\* What the gateway holds, and what each call has learnt of it so far.
LearntInv ==
    \A t \in Tasks :
        /\ gw[t] = "completed" => outcome[t] # "none"
        /\ gw[t] = "canceled" => canceler[t] # "idle"
        /\ call[t] = "fetching" => gw[t] = "completed"
        /\ call[t] \in {"idle", "submitting", "accepted", "looping"} => seen[t] = "absent"
        /\ call[t] \in {"read", "fetching", "releasing"} => seen[t] # "absent"
        /\ call[t] = "read" => seen[t] # "completed"
        /\ seen[t] = "failed" => gw[t] = "failed"
        /\ seen[t] = "canceled" => canceler[t] # "idle"
        /\ state[t] = "canceled" => canceler[t] # "idle"
        /\ state[t] = "failed" => \/ call[t] = "returned" /\ seen[t] = "absent"
                                 \/ seen[t] = "failed"

SystemInv ==
    /\ SystemTypeOK
    /\ LoopInv
    /\ LearntInv
    /\ ResultDelivered
    /\ LeakOnlyUnfinished
    /\ AssignedIsHeld

LEMMA SystemInvInit == SystemInit => SystemInv
<1> SUFFICES ASSUME SystemInit PROVE SystemInv
  OBVIOUS
<1> USE DEF SystemInit, GatewayInit, ClientInit, AgentInit
<1>1. SystemTypeOK
  BY DEF SystemTypeOK, GatewayStates, Outcomes, Over, Calls, ClientStates
<1>2. LoopInv
  BY DEF LoopInv
<1>3. LearntInv
  BY DEF LearntInv
<1>4. ResultDelivered /\ LeakOnlyUnfinished /\ AssignedIsHeld
  BY DEF ResultDelivered, LeakOnlyUnfinished, AssignedIsHeld
<1> QED BY <1>1, <1>2, <1>3, <1>4 DEF SystemInv

\* Every step of the client keeps the invariant.
LEMMA ClientStepInv ==
    ASSUME SystemInv, NEW t \in Tasks, UNCHANGED agentVars,
           \/ PullSend(t) \/ CallStep(t) \/ Expire(t) \/ ContextDone(t)
           \/ CancelTask(t) \/ MarkCanceled(t)
    PROVE  SystemInv'
<1> USE DEF SystemInv, SystemTypeOK, LoopInv, LearntInv, ResultDelivered, LeakOnlyUnfinished,
            AssignedIsHeld, GatewayStates, Outcomes, Over, Calls, ClientStates, agentVars,
            gatewayVars
<1>1. CASE PullSend(t)
  BY <1>1 DEF PullSend
<1>2. CASE SubmitAccepted(t)
  BY <1>2 DEF SubmitAccepted, Enqueue
<1>3. CASE SubmitFails(t)
  BY <1>3 DEF SubmitFails, Enqueue
<1>4. CASE StartPolling(t)
  BY <1>4 DEF StartPolling
<1>5. CASE PollTimeout(t)
  BY <1>5 DEF PollTimeout
<1>6. CASE PollStatus(t)
  BY <1>6 DEF PollStatus
<1>7. CASE Settle(t)
  BY <1>7 DEF Settle
<1>8. CASE FetchResult(t)
  BY <1>8 DEF FetchResult, ApplyResult
<1>9. CASE FetchFails(t)
  BY <1>9 DEF FetchFails
<1>10. CASE Release(t)
  BY <1>10 DEF Release
<1>11. CASE Expire(t)
  BY <1>11 DEF Expire
<1>12. CASE ContextDone(t)
  BY <1>12 DEF ContextDone
<1>13. CASE CancelTask(t)
  BY <1>13 DEF CancelTask, CancelQueued
<1>14. CASE MarkCanceled(t)
  BY <1>14 DEF MarkCanceled
<1> QED BY <1>1, <1>2, <1>3, <1>4, <1>5, <1>6, <1>7, <1>8, <1>9, <1>10, <1>11, <1>12, <1>13, <1>14 DEF CallStep

\* Every step of the polling loop keeps it too.
LEMMA AgentStepInv == ASSUME SystemInv, AgentNext, UNCHANGED clientVars PROVE SystemInv'
<1> USE AgentAssumption DEF SystemInv, SystemTypeOK, LoopInv, LearntInv, ResultDelivered,
            LeakOnlyUnfinished, AssignedIsHeld, GatewayStates, Outcomes, Over, Calls,
            ClientStates, clientVars, gatewayVars
<1>1. ASSUME NEW t \in Tasks, Poll(t)
      PROVE  SystemInv'
  BY <1>1 DEF Poll, Assign
<1>2. ASSUME NEW t \in Tasks, PollLost(t)
      PROVE  SystemInv'
  BY <1>2 DEF PollLost, Assign
<1>3. CASE Process
  BY <1>3 DEF Process
<1>4. CASE PostResult
  BY <1>4 DEF PostResult, Complete
<1>5. CASE PostLost
  BY <1>5 DEF PostLost
<1>6. CASE StopPolling
  BY <1>6 DEF StopPolling
<1>7. CASE CloseAgent
  BY <1>7 DEF CloseAgent
<1> QED BY <1>1, <1>2, <1>3, <1>4, <1>5, <1>6, <1>7 DEF AgentNext, AgentStep

LEMMA SystemInvNext == SystemInv /\ [SystemNext]_systemVars => SystemInv'
<1> SUFFICES ASSUME SystemInv, [SystemNext]_systemVars PROVE SystemInv'
  OBVIOUS
<1>1. CASE ClientNext /\ UNCHANGED agentVars
  BY <1>1, ClientStepInv DEF ClientNext
<1>2. CASE AgentNext /\ UNCHANGED clientVars
  BY <1>2, AgentStepInv
<1>3. CASE UNCHANGED systemVars
  BY <1>3 DEF systemVars, gatewayVars, clientVars, agentVars, SystemInv, SystemTypeOK, LoopInv,
     LearntInv, ResultDelivered, LeakOnlyUnfinished, AssignedIsHeld
<1> QED BY <1>1, <1>2, <1>3 DEF SystemNext

LEMMA SystemInvHolds == SystemSpec => []SystemInv
BY SystemInvInit, SystemInvNext, PTL DEF SystemSpec

\* Every variable keeps its type, and a call that has begun has a state.
THEOREM SystemTypeCorrect == SystemSpec => []SystemTypeOK
<1>1. SystemInv => SystemTypeOK
  BY DEF SystemInv
<1> QED BY <1>1, SystemInvHolds, PTL

\* A completed Task carries the outcome that the agent posted.
THEOREM CompletedHasResult == SystemSpec => []ResultDelivered
<1>1. SystemInv => ResultDelivered
  BY DEF SystemInv
<1> QED BY <1>1, SystemInvHolds, PTL

\* A call that returns without an error returns a warranted state.
THEOREM VerdictIsWarranted == SystemSpec => []VerdictWarranted
<1>1. SystemInv => VerdictWarranted
  BY DEF SystemInv, LearntInv, VerdictWarranted
<1> QED BY <1>1, SystemInvHolds, PTL

\* Only a call that never saw the end of its task leaves it in pendingTasks.
THEOREM LeakIsUnfinished == SystemSpec => []LeakOnlyUnfinished
<1>1. SystemInv => LeakOnlyUnfinished
  BY DEF SystemInv
<1> QED BY <1>1, SystemInvHolds, PTL

\* A task the gateway holds for assigned is in the loop's hands or was lost.
THEOREM AssignedIsAccountedFor == SystemSpec => []AssignedIsHeld
<1>1. SystemInv => AssignedIsHeld
  BY DEF SystemInv
<1> QED BY <1>1, SystemInvHolds, PTL
\* Every step of the client is a client's step of the contract or does not
\* touch the queue.
LEMMA ClientKeepsContract ==
    ASSUME NEW t \in Tasks, UNCHANGED agentVars,
           \/ PullSend(t) \/ CallStep(t) \/ Expire(t) \/ ContextDone(t)
           \/ CancelTask(t) \/ MarkCanceled(t)
    PROVE  Contract!ClientStep \/ UNCHANGED Contract!contractVars
<1> USE DEF agentVars, gatewayVars, Contract!contractVars, Contract!gatewayVars
<1>1. ASSUME Enqueue(t) \/ CancelQueued(t) PROVE Contract!ClientStep
  BY <1>1 DEF Contract!ClientStep, Enqueue, Contract!Enqueue, CancelQueued, Contract!CancelQueued
<1>2. Enqueue(t) \/ CancelQueued(t) \/ UNCHANGED gatewayVars
  BY DEF PullSend, CallStep, SubmitAccepted, SubmitFails, StartPolling, PollTimeout, PollStatus,
     Settle, FetchResult, FetchFails, Release, Expire, ContextDone, CancelTask, MarkCanceled
<1> QED BY <1>1, <1>2

\* The polling loop implements the contract of a polling agent.
THEOREM LoopKeepsContract == SystemSpec => KeepsContract
<1>1. SystemInit => Contract!Init
  BY DEF SystemInit, AgentInit, GatewayInit, Contract!Init, Contract!GatewayInit
<1>2. SystemInv /\ [SystemNext]_systemVars => [Contract!Next]_(Contract!contractVars)
  <2> SUFFICES ASSUME SystemInv, [SystemNext]_systemVars
               PROVE  Contract!Next \/ UNCHANGED Contract!contractVars
    OBVIOUS
  <2> USE AgentAssumption DEF SystemInv, SystemTypeOK, LoopInv, gatewayVars, Contract!contractVars,
          Contract!gatewayVars
  <2>1. ASSUME NEW t \in Tasks, Poll(t) PROVE Contract!Take(t)
    BY <2>1 DEF Poll, Contract!Take, Assign, Contract!Assign
  <2>2. ASSUME NEW t \in Tasks, PollLost(t) PROVE Contract!TakeLost(t)
    BY <2>2 DEF PollLost, Contract!TakeLost, Assign, Contract!Assign
  <2>3. ASSUME PostResult PROVE Contract!Report
    <3>1. held # None /\ verdict \in {"completed", "failed"} /\ inner \in Outcomes
      BY <2>3 DEF PostResult
    <3>2. verdict = "completed" => inner # "none"
      OBVIOUS
    <3>3. Contract!Complete(held, verdict, inner)
      BY <2>3 DEF PostResult, Complete, Contract!Complete
    <3> QED BY <2>3, <3>1, <3>2, <3>3 DEF PostResult, Contract!Report, Outcomes, Contract!Outcomes
  <2>4. ASSUME PostLost PROVE Contract!ReportLost
    BY <2>4 DEF PostLost, Contract!ReportLost
  <2>5. CASE Process \/ StopPolling \/ CloseAgent
    BY <2>5 DEF Process, StopPolling, CloseAgent
  <2>6. CASE AgentNext
    BY <2>1, <2>2, <2>3, <2>4, <2>5, <2>6 DEF AgentNext, AgentStep, Contract!Next
  <2>7. CASE ClientNext /\ UNCHANGED agentVars
    BY <2>7, ClientKeepsContract DEF ClientNext, Contract!Next
  <2>8. CASE UNCHANGED systemVars
    BY <2>8 DEF systemVars, agentVars
  <2> QED BY <2>6, <2>7, <2>8 DEF SystemNext
<1> QED BY <1>1, <1>2, SystemInvHolds, PTL DEF SystemSpec, KeepsContract, Contract!Spec
=============================================================================
