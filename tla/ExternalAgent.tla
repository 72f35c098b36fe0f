---------------------------- MODULE ExternalAgent ----------------------------
(***************************************************************************)
(* The external agent client of agent/external.go: Run registers, starts a  *)
(* heartbeat goroutine, and polls the gateway's task queue for tasks that   *)
(* it executes one after the other.  The two goroutines share the current   *)
(* task and the counters; each of Run's updates is a lock section of its    *)
(* own, and a heartbeat reads them all in one.                              *)
(***************************************************************************)
EXTENDS GatewayQueue

CONSTANT None   \* "", no task

ASSUME ExternalAgentAssumption == None \notin Tasks

VARIABLES
    loop,            \* where Run is
    held,            \* its local taskID, None between tasks
    failing,         \* whether the executor returned an error
    currentTaskID,   \* c.currentTaskID
    tasksCompleted,  \* c.tasksCompleted
    tasksFailed,     \* c.tasksFailed
    beat,            \* where the heartbeat goroutine is
    body,            \* the heartbeat it is sending
    told,            \* the last heartbeat the gateway received
    closing,         \* whether the context was canceled
    lost,            \* history: tasks whose assignment or report was lost
    received         \* history: tasks the poll has handed to Run

queueVars == <<gatewayVars, held, lost>>
sharedVars == <<currentTaskID, tasksCompleted, tasksFailed>>
heartbeatVars == <<beat, body, told>>
vars == <<gatewayVars, loop, held, failing, currentTaskID, tasksCompleted, tasksFailed,
          beat, body, told, closing, lost, received>>

\* currentTaskID is set while Run is busy.
Loops == {"registering", "fallback", "polling", "taken", "executing", "reporting",
          "counting", "clearing", "returned"}
Busy == {"executing", "reporting", "counting", "clearing"}

Heartbeats == [task : Tasks \cup {None}, completed : Nat, failed : Nat]

\* A heartbeat says busy exactly when it names a task.
Heartbeat == [task |-> currentTaskID, completed |-> tasksCompleted, failed |-> tasksFailed]
Silence == [task |-> None, completed |-> 0, failed |-> 0]

Init ==
    /\ GatewayInit
    /\ loop = "registering"
    /\ held = None
    /\ failing = FALSE
    /\ currentTaskID = None
    /\ tasksCompleted = 0 /\ tasksFailed = 0
    /\ beat = "off"
    /\ body = Silence
    /\ told = Silence
    /\ closing = FALSE
    /\ lost = {}
    /\ received = {}

\* Run goes on to poll, with the heartbeat goroutine started beside it.
StartPolling ==
    /\ loop' = "polling"
    /\ beat' = "waiting"

\* Register: the register-external endpoint first, the standard one if it
\* fails; Run returns the error of the second.
Register ==
    /\ \/ /\ loop = "registering"
          /\ \/ ~closing /\ StartPolling
             \/ loop' = "fallback" /\ UNCHANGED beat
       \/ /\ loop = "fallback"
          /\ \/ ~closing /\ StartPolling
             \/ loop' = "returned" /\ UNCHANGED beat
    /\ UNCHANGED <<queueVars, sharedVars, failing, body, told, closing, received>>

\* Defect: the next task is polled while the last one executes.
PollTaskEager(t) ==
    /\ loop \in {"polling", "executing"} /\ ~closing
    /\ Assign(t)
    /\ held' = t
    /\ received' = received \cup {t}
    /\ loop' = "taken"
    /\ UNCHANGED <<sharedVars, heartbeatVars, failing, closing, lost>>

\* PollTask returns a task.
PollTask(t) ==
    /\ loop = "polling" /\ ~closing
    /\ Assign(t)
    /\ held' = t
    /\ received' = received \cup {t}
    /\ loop' = "taken"
    /\ UNCHANGED <<sharedVars, heartbeatVars, failing, closing, lost>>

\* The answer with the task is lost or unreadable: PollTask returns nil.
PollTaskLost(t) ==
    /\ loop = "polling" /\ ~closing
    /\ Assign(t)
    /\ lost' = lost \cup {t}
    /\ UNCHANGED <<sharedVars, heartbeatVars, loop, held, failing, closing, received>>

SetCurrent ==
    /\ loop = "taken"
    /\ currentTaskID' = held
    /\ loop' = "executing"
    /\ UNCHANGED <<queueVars, heartbeatVars, failing, tasksCompleted, tasksFailed, closing,
                   received>>

\* Defect: an error is counted where it is noticed, and again after the report.
ExecuteTaskCounted ==
    /\ loop = "executing"
    /\ failing' \in BOOLEAN
    /\ tasksFailed' = IF failing' THEN tasksFailed + 1 ELSE tasksFailed
    /\ loop' = "reporting"
    /\ UNCHANGED <<queueVars, currentTaskID, tasksCompleted, heartbeatVars, closing, received>>

\* The executor returns a result or an error.
ExecuteTask ==
    /\ loop = "executing"
    /\ failing' \in BOOLEAN
    /\ loop' = "reporting"
    /\ UNCHANGED <<queueVars, sharedVars, heartbeatVars, closing, received>>

\* CompleteTask posts a result with status completed, or the error with status
\* failed, and the post succeeds.
CompleteTask ==
    /\ loop = "reporting" /\ ~closing
    /\ IF failing THEN Complete(held, "failed", "failed")
       ELSE Complete(held, "completed", "completed")
    /\ held' = None
    /\ loop' = "counting"
    /\ UNCHANGED <<sharedVars, heartbeatVars, failing, closing, lost, received>>

\* Defect: the post is repeated until it succeeds.
CompleteTaskRetried ==
    /\ loop = "reporting"
    /\ UNCHANGED vars

\* The one post fails: CompleteTask logs it and returns all the same.
CompleteTaskLost ==
    /\ loop = "reporting"
    /\ lost' = lost \cup {held}
    /\ held' = None
    /\ loop' = "counting"
    /\ UNCHANGED <<gatewayVars, sharedVars, heartbeatVars, failing, closing, received>>

\* Defects: a success resets the count of failures; the task is cleared before
\* it is counted.
CountStreak ==
    /\ loop = "counting"
    /\ IF failing THEN tasksFailed' = tasksFailed + 1 /\ UNCHANGED tasksCompleted
       ELSE tasksCompleted' = tasksCompleted + 1 /\ tasksFailed' = 0
    /\ loop' = "clearing"
    /\ UNCHANGED <<queueVars, heartbeatVars, failing, currentTaskID, closing, received>>

CountAndClear ==
    /\ loop = "counting"
    /\ currentTaskID' = None
    /\ loop' = "clearing"
    /\ UNCHANGED <<queueVars, heartbeatVars, failing, tasksCompleted, tasksFailed, closing,
                   received>>

\* The task is counted, by the executor's outcome and not by the post's.
Count ==
    /\ loop = "counting"
    /\ IF failing THEN tasksFailed' = tasksFailed + 1 /\ UNCHANGED tasksCompleted
       ELSE tasksCompleted' = tasksCompleted + 1 /\ UNCHANGED tasksFailed
    /\ loop' = "clearing"
    /\ UNCHANGED <<queueVars, heartbeatVars, failing, currentTaskID, closing, received>>

ClearCurrent ==
    /\ loop = "clearing"
    /\ currentTaskID' = None
    /\ loop' = "polling"
    /\ UNCHANGED <<queueVars, heartbeatVars, failing, tasksCompleted, tasksFailed, closing,
                   received>>

\* The head of the loop sees the canceled context.
Stop ==
    /\ loop = "polling" /\ closing
    /\ loop' = "returned"
    /\ UNCHANGED <<queueVars, sharedVars, heartbeatVars, failing, closing, received>>

\* SendHeartbeat reads the shared state under the lock...
ReadHeartbeat ==
    /\ beat = "waiting" /\ ~closing
    /\ body' = Heartbeat
    /\ beat' = "sending"
    /\ UNCHANGED <<queueVars, sharedVars, loop, failing, told, closing, received>>

\* ... and posts it after releasing it; a failed post is only logged.
PostHeartbeat ==
    /\ beat = "sending"
    /\ told' \in IF closing THEN {told} ELSE {told, body}
    /\ beat' = "waiting"
    /\ UNCHANGED <<queueVars, sharedVars, loop, failing, body, closing, received>>

StopHeartbeat ==
    /\ beat = "waiting" /\ closing
    /\ beat' = "stopped"
    /\ UNCHANGED <<queueVars, sharedVars, loop, failing, body, told, closing, received>>

\* Somebody cancels the context.
Cancel ==
    /\ ~closing
    /\ closing' = TRUE
    /\ UNCHANGED <<queueVars, sharedVars, heartbeatVars, loop, failing, received>>

\* The clients of the queue submit tasks and cancel them.
ClientStep ==
    /\ \E t \in Tasks : Enqueue(t) \/ CancelQueued(t)
    /\ UNCHANGED <<sharedVars, heartbeatVars, loop, held, failing, closing, lost, received>>

RunStep ==
    \/ Register \/ SetCurrent \/ ExecuteTask \/ CompleteTask \/ CompleteTaskLost
    \/ Count \/ ClearCurrent \/ Stop
HeartbeatStep == ReadHeartbeat \/ PostHeartbeat \/ StopHeartbeat

Next ==
    \/ \E t \in Tasks : PollTask(t) \/ PollTaskLost(t)
    \/ RunStep
    \/ HeartbeatStep
    \/ Cancel
    \/ ClientStep

Spec == Init /\ [][Next]_vars

\* Both goroutines are scheduled, the executor returns and every request ends
\* by its timeout; nothing is promised of the network or of the context.
FairSpec == Spec /\ WF_vars(RunStep) /\ WF_vars(HeartbeatStep)

-----------------------------------------------------------------------------
(* Properties *)

\* Every variable has its type, and Run holds a task while it has one to work on.
TypeOK ==
    /\ gw \in [Tasks -> GatewayStates]
    /\ outcome \in [Tasks -> Outcomes]
    /\ loop \in Loops
    /\ held \in Tasks \cup {None}
    /\ failing \in BOOLEAN
    /\ currentTaskID \in Tasks \cup {None}
    /\ tasksCompleted \in Nat /\ tasksFailed \in Nat
    /\ beat \in {"off", "waiting", "sending", "stopped"}
    /\ body \in Heartbeats /\ told \in Heartbeats
    /\ closing \in BOOLEAN
    /\ lost \subseteq Tasks
    /\ received \subseteq Tasks
    /\ loop \in {"taken", "executing", "reporting"} <=> held # None
    /\ loop \in Busy <=> currentTaskID # None

\* Whenever the shared state shows no current task, all the tasks that were
\* handed over are in the counters, but for one that is not yet current: an idle
\* heartbeat hides no finished task (Run counts before it clears).
IdleIsCounted ==
    currentTaskID = None =>
        tasksCompleted + tasksFailed =
            Cardinality(received \ (IF loop = "taken" THEN {held} ELSE {}))

\* What the gateway was told never overstates: the counted tasks were handed
\* over, and the named task was one of them, however late the heartbeat is.
HeartbeatHonest ==
    /\ told.task # None => told.task \in received
    /\ told.completed + told.failed <= Cardinality(received)

\* The counters the gateway sees never go back (SendHeartbeat against Run).
HeartbeatsAdvance ==
    [][told'.completed >= told.completed /\ told'.failed >= told.failed]_vars

\* Once the context is canceled Run returns and the heartbeats stop, whatever
\* the loop was doing.
CancelStopsRun ==
    closing ~> loop = "returned" /\ beat \in {"off", "stopped"}

\* The client keeps the contract of a polling agent.
Contract == INSTANCE AgentContract
KeepsContract == Contract!Spec
=============================================================================
