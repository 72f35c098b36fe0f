-------------------------- MODULE ExternalAgent_proofs --------------------------
(***************************************************************************)
(* Proofs about ExternalAgent for any set of tasks.                         *)
(***************************************************************************)
EXTENDS ExternalAgent, FiniteSetTheorems, TLAPS

\* The tasks that were handed over are finitely many, and the gateway will not
\* hand them over again.
ReceivedInv ==
    /\ IsFiniteSet(received)
    /\ \A t \in received : gw[t] \notin {"absent", "queued"}
    /\ held # None => held \in received
    /\ currentTaskID # None => currentTaskID \in received

\* One task is not counted between its arrival and Count.
Pending == IF loop \in {"taken", "executing", "reporting", "counting"} THEN 1 ELSE 0
CountInv == tasksCompleted + tasksFailed + Pending = Cardinality(received)

\* A heartbeat that was read or received is no newer than the counters.
NoNewer(h) ==
    /\ h.task # None => h.task \in received
    /\ h.completed <= tasksCompleted
    /\ h.failed <= tasksFailed

HeartbeatInv ==
    /\ NoNewer(body) /\ NoNewer(told)
    /\ told.completed <= body.completed /\ told.failed <= body.failed

AgentInv == TypeOK /\ ReceivedInv /\ CountInv /\ HeartbeatInv

LEMMA AgentInvInit == Init => AgentInv
<1> SUFFICES ASSUME Init PROVE AgentInv
  OBVIOUS
<1> USE ExternalAgentAssumption DEF Init, GatewayInit
<1>1. TypeOK
  BY DEF TypeOK, GatewayStates, Outcomes, Loops, Busy, Heartbeats, Silence
<1>2. IsFiniteSet(received) /\ Cardinality(received) = 0
  BY FS_EmptySet
<1>3. ReceivedInv /\ CountInv /\ HeartbeatInv
  BY <1>2 DEF ReceivedInv, CountInv, Pending, HeartbeatInv, NoNewer, Silence
<1> QED BY <1>1, <1>3 DEF AgentInv

\* The type invariant alone is inductive.
LEMMA TypeStep == TypeOK /\ [Next]_vars => TypeOK'
<1> SUFFICES ASSUME TypeOK, [Next]_vars PROVE TypeOK'
  OBVIOUS
<1> USE ExternalAgentAssumption DEF TypeOK, GatewayStates, Outcomes, Loops, Busy, Heartbeats,
        gatewayVars, queueVars, sharedVars, heartbeatVars
<1>1. ASSUME NEW t \in Tasks, PollTask(t) \/ PollTaskLost(t) PROVE TypeOK'
  BY <1>1 DEF PollTask, PollTaskLost, Assign
<1>2. CASE Register
  BY <1>2 DEF Register, StartPolling
<1>3. CASE SetCurrent \/ ExecuteTask \/ CompleteTaskLost
  BY <1>3 DEF SetCurrent, ExecuteTask, CompleteTaskLost
<1>4. CASE CompleteTask
  BY <1>4 DEF CompleteTask, Complete
<1>5. CASE Count \/ ClearCurrent \/ Stop
  BY <1>5 DEF Count, ClearCurrent, Stop
<1>6. CASE HeartbeatStep
  BY <1>6 DEF HeartbeatStep, ReadHeartbeat, PostHeartbeat, StopHeartbeat, Heartbeat
<1>7. CASE Cancel
  BY <1>7 DEF Cancel
<1>8. CASE ClientStep
  BY <1>8 DEF ClientStep, Enqueue, CancelQueued
<1>9. CASE UNCHANGED vars
  BY <1>9 DEF vars
<1> QED BY <1>1, <1>2, <1>3, <1>4, <1>5, <1>6, <1>7, <1>8, <1>9 DEF Next, RunStep

\* A poll adds a task that was never handed over before.
LEMMA PollStep ==
    ASSUME AgentInv, NEW t \in Tasks, PollTask(t)
    PROVE  ReceivedInv' /\ CountInv' /\ HeartbeatInv'
<1> USE DEF AgentInv, PollTask, Assign
<1>1. t \notin received /\ gw' = [gw EXCEPT ![t] = "assigned"]
  BY DEF ReceivedInv
<1>2. IsFiniteSet(received') /\ Cardinality(received') = Cardinality(received) + 1
  BY <1>1, FS_AddElement DEF ReceivedInv
<1>3. Cardinality(received) \in Nat
  BY FS_CardinalityType DEF ReceivedInv
<1>4. ReceivedInv'
  BY <1>1, <1>2 DEF ReceivedInv, TypeOK, sharedVars
<1>5. CountInv'
  BY <1>2, <1>3 DEF CountInv, Pending, TypeOK, sharedVars
<1>6. HeartbeatInv'
  BY DEF HeartbeatInv, NoNewer, sharedVars, heartbeatVars
<1> QED BY <1>4, <1>5, <1>6

\* Every other step leaves the handed tasks alone.
LEMMA RestStep ==
    ASSUME AgentInv, TypeOK',
           \/ \E t \in Tasks : PollTaskLost(t)
           \/ RunStep \/ HeartbeatStep \/ Cancel \/ ClientStep \/ UNCHANGED vars
    PROVE  ReceivedInv' /\ CountInv' /\ HeartbeatInv'
<1> USE ExternalAgentAssumption DEF AgentInv, TypeOK, Loops, Busy, gatewayVars, queueVars, sharedVars,
        heartbeatVars, ReceivedInv, CountInv, Pending, HeartbeatInv, NoNewer, Heartbeats
<1>0. Cardinality(received) \in Nat
  BY FS_CardinalityType
<1>1. ASSUME NEW t \in Tasks, PollTaskLost(t) PROVE ReceivedInv' /\ CountInv' /\ HeartbeatInv'
  BY <1>1 DEF PollTaskLost, Assign
<1>2. CASE Register
  BY <1>2 DEF Register, StartPolling
<1>3. CASE SetCurrent \/ ExecuteTask \/ CompleteTaskLost
  BY <1>3 DEF SetCurrent, ExecuteTask, CompleteTaskLost
<1>4. CASE CompleteTask
  BY <1>4 DEF CompleteTask, Complete
<1>5. CASE Count
  BY <1>0, <1>5 DEF Count
<1>6. CASE ClearCurrent \/ Stop
  BY <1>6 DEF ClearCurrent, Stop
<1>7. CASE HeartbeatStep
  BY <1>7 DEF HeartbeatStep, ReadHeartbeat, PostHeartbeat, StopHeartbeat, Heartbeat
<1>8. CASE Cancel
  BY <1>8 DEF Cancel
<1>9. CASE ClientStep
  BY <1>9 DEF ClientStep, Enqueue, CancelQueued
<1>10. CASE UNCHANGED vars
  BY <1>10 DEF vars
<1> QED BY <1>1, <1>2, <1>3, <1>4, <1>5, <1>6, <1>7, <1>8, <1>9, <1>10 DEF RunStep

LEMMA AgentInvNext == AgentInv /\ [Next]_vars => AgentInv'
<1> SUFFICES ASSUME AgentInv, [Next]_vars PROVE AgentInv'
  OBVIOUS
<1>1. TypeOK'
  BY TypeStep DEF AgentInv
<1>2. ASSUME NEW t \in Tasks, PollTask(t) PROVE AgentInv'
  BY <1>1, <1>2, PollStep DEF AgentInv
<1>3. CASE \/ \E t \in Tasks : PollTaskLost(t)
           \/ RunStep \/ HeartbeatStep \/ Cancel \/ ClientStep \/ UNCHANGED vars
  BY <1>1, <1>3, RestStep DEF AgentInv
<1> QED BY <1>2, <1>3 DEF Next

LEMMA AgentInvHolds == Spec => []AgentInv
BY AgentInvInit, AgentInvNext, PTL DEF Spec

\* Every variable of the external agent keeps its type.
THEOREM AgentTypeCorrect == Spec => []TypeOK
<1>1. AgentInv => TypeOK
  BY DEF AgentInv
<1> QED BY <1>1, AgentInvHolds, PTL

\* Whenever no task is current, every task handed over is counted, but for one
\* that is about to become current.
THEOREM IdleCountsAll == Spec => []IdleIsCounted
<1>1. ASSUME AgentInv PROVE IdleIsCounted
  <2> SUFFICES ASSUME currentTaskID = None
               PROVE  tasksCompleted + tasksFailed =
                          Cardinality(received \ (IF loop = "taken" THEN {held} ELSE {}))
    BY DEF IdleIsCounted
  <2>1. IsFiniteSet(received) /\ Cardinality(received) \in Nat
    BY <1>1, FS_CardinalityType DEF AgentInv, ReceivedInv
  <2>2. CASE loop = "taken"
    <3>1. held \in received
      BY <1>1, <2>2 DEF AgentInv, ReceivedInv, TypeOK
    <3>2. Cardinality(received \ {held}) = Cardinality(received) - 1
      BY <2>1, <3>1, FS_RemoveElement
    <3> QED BY <1>1, <2>1, <2>2, <3>2 DEF AgentInv, CountInv, Pending, TypeOK
  <2>3. CASE loop # "taken"
    <3>1. Pending = 0
      BY <1>1, <2>3 DEF AgentInv, TypeOK, Busy, Pending
    <3>2. received \ {} = received
      OBVIOUS
    <3> QED BY <1>1, <2>1, <2>3, <3>1, <3>2 DEF AgentInv, CountInv, TypeOK
  <2> QED BY <2>2, <2>3
<1> QED BY <1>1, AgentInvHolds, PTL

\* No heartbeat overstates, however late it is.
THEOREM HeartbeatsAreHonest == Spec => []HeartbeatHonest
<1>1. ASSUME AgentInv PROVE HeartbeatHonest
  <2>1. Cardinality(received) \in Nat
    BY <1>1, FS_CardinalityType DEF AgentInv, ReceivedInv
  <2>2. tasksCompleted + tasksFailed <= Cardinality(received)
    BY <1>1, <2>1 DEF AgentInv, CountInv, Pending, TypeOK
  <2> QED BY <1>1, <2>1, <2>2 DEF AgentInv, HeartbeatInv, NoNewer, HeartbeatHonest, TypeOK, Heartbeats
<1> QED BY <1>1, AgentInvHolds, PTL

\* The counters that the gateway sees never go back.
THEOREM HeartbeatsNeverGoBack == Spec => HeartbeatsAdvance
<1>1. AgentInv /\ [Next]_vars
          => [told'.completed >= told.completed /\ told'.failed >= told.failed]_vars
  <2> SUFFICES ASSUME AgentInv, Next
               PROVE  told'.completed >= told.completed /\ told'.failed >= told.failed
    OBVIOUS
  <2> USE DEF AgentInv, TypeOK, Heartbeats
  <2>1. told' = told \/ told' = body
    BY DEF Next, PollTask, PollTaskLost, RunStep, Register, StartPolling, SetCurrent, ExecuteTask,
       CompleteTask, CompleteTaskLost, Count, ClearCurrent, Stop, HeartbeatStep,
       ReadHeartbeat, PostHeartbeat, StopHeartbeat, Cancel, ClientStep, heartbeatVars
  <2>2. /\ told.completed \in Nat /\ body.completed \in Nat
        /\ told.failed \in Nat /\ body.failed \in Nat
    OBVIOUS
  <2>3. told.completed <= body.completed /\ told.failed <= body.failed
    BY DEF HeartbeatInv
  <2> QED BY <2>1, <2>2, <2>3
<1> QED BY <1>1, AgentInvHolds, PTL DEF Spec, HeartbeatsAdvance

\* The external agent client implements the contract of a polling agent.
THEOREM AgentKeepsContract == Spec => KeepsContract
<1>1. Init => Contract!Init
  BY DEF Init, Contract!Init, GatewayInit, Contract!GatewayInit
<1>2. AgentInv /\ [Next]_vars => [Contract!Next]_(Contract!contractVars)
  <2> SUFFICES ASSUME AgentInv, [Next]_vars
               PROVE  Contract!Next \/ UNCHANGED Contract!contractVars
    OBVIOUS
  <2> USE DEF AgentInv, TypeOK, gatewayVars, queueVars, Contract!contractVars, Contract!gatewayVars
  <2>1. ASSUME NEW t \in Tasks, PollTask(t) PROVE Contract!Take(t)
    BY <2>1 DEF PollTask, Contract!Take, Assign, Contract!Assign
  <2>2. ASSUME NEW t \in Tasks, PollTaskLost(t) PROVE Contract!TakeLost(t)
    BY <2>2 DEF PollTaskLost, Contract!TakeLost, Assign, Contract!Assign
  <2>3. ASSUME CompleteTask PROVE Contract!Report
    <3>1. held # None
      BY <2>3 DEF CompleteTask
    <3>2. \E state \in {"completed", "failed"}, inner \in Contract!Outcomes :
             /\ state = "completed" => inner # "none"
             /\ Contract!Complete(held, state, inner)
      <4>1. CASE failing
        BY <2>3, <4>1 DEF CompleteTask, Complete, Contract!Complete, Contract!Outcomes
      <4>2. CASE ~failing
        BY <2>3, <4>2 DEF CompleteTask, Complete, Contract!Complete, Contract!Outcomes
      <4> QED BY <4>1, <4>2
    <3> QED BY <2>3, <3>1, <3>2 DEF CompleteTask, Contract!Report
  <2>4. ASSUME CompleteTaskLost PROVE Contract!ReportLost
    BY <2>4 DEF CompleteTaskLost, Contract!ReportLost
  <2>5. ASSUME ClientStep PROVE Contract!ClientStep
    BY <2>5 DEF ClientStep, Contract!ClientStep, Enqueue, Contract!Enqueue, CancelQueued,
       Contract!CancelQueued
  <2>6. CASE \/ Register \/ SetCurrent \/ ExecuteTask \/ Count \/ ClearCurrent \/ Stop
             \/ HeartbeatStep \/ Cancel \/ UNCHANGED vars
    BY <2>6 DEF Register, SetCurrent, ExecuteTask, Count, ClearCurrent, Stop, HeartbeatStep,
       ReadHeartbeat, PostHeartbeat, StopHeartbeat, Cancel, vars
  <2> QED BY <2>1, <2>2, <2>3, <2>4, <2>5, <2>6 DEF Next, RunStep, Contract!Next
<1> QED BY <1>1, <1>2, AgentInvHolds, PTL DEF Spec, KeepsContract, Contract!Spec
=============================================================================
