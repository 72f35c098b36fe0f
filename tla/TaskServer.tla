----------------------------- MODULE TaskServer -----------------------------
(***************************************************************************)
(* The A2A server of server/server.go: concurrent HTTP requests that create *)
(* or resume a task, drive the agent's TaskHandler and finalize the task,   *)
(* together with tasks/cancel and the FIFO-evicted task table.              *)
(*                                                                         *)
(* A request is one goroutine of net/http.  A task object is named by the   *)
(* request that allocated it, so Objects == Requests.  Only the sections    *)
(* under s.mu are atomic in the code; every statement that reads or writes  *)
(* the shared task without the lock is a step of its own here.              *)
(***************************************************************************)
EXTENDS TaskTable, FiniteSets

CONSTANTS Requests,       \* the requests the server may receive
          MaxEmits,       \* bound: responses a handler sends on its channel
          HandlerStates   \* the states a handler may put in a StatusUpdate

Objects == Requests

\* The states of a2a.TaskState that the server and its handlers use;
\* "none" is the state of an object that is not allocated yet.
TaskStates == {"submitted", "working", "completed", "failed", "canceled",
               "rejected", "input-required"}

ASSUME ServerAssumption ==
    /\ None \notin Requests \cup TaskIDs
    /\ MaxTasks \in Nat \ {0}
    /\ MaxEmits \in Nat
    /\ HandlerStates \subseteq TaskStates

VARIABLES
    tasks,       \* s.tasks
    order,       \* s.taskOrder
    status,      \* task.Status.State of each object
    note,        \* whether task.Status.Message is present
    record,      \* task.History and task.Artifacts of each object, as a set
    pc,          \* where each request's goroutine is
    kind,        \* "send" (message/send and /invoke), "stream", "invokeStream"
    tid,         \* the task id the request names
    obj,         \* the *a2a.Task the goroutine holds
    local,       \* its local history and artifacts slices, {} out of scope
    final,       \* its local finalState, "none" out of scope
    emits,       \* how many responses its running handler has sent
    reply,       \* the state in the response it returned
    overlapped,  \* history: objects two goroutines have worked on at a time
    evictedIds   \* history: ids the table has ever evicted

tableVars == <<tasks, order, evictedIds>>
objectVars == <<status, note, record>>
requestVars == <<kind, tid, obj>>
vars == <<tasks, order, status, note, record, pc, kind, tid, obj, local,
          final, emits, reply, overlapped, evictedIds>>

-----------------------------------------------------------------------------
Kinds == {"send", "stream", "invokeStream"}

\* isTerminal: rejected and input-required are not terminal to the server.
IsTerminal(state) == state \in {"completed", "failed", "canceled"}

\* What a task records: the user's message of a request, and what the handler
\* of the request answers (messages and artifacts, which are kept alike).
Items == {"user", "agent"} \X Requests

\* The program points between getOrCreateTask and the final status write.
Active == {"begun", "marked", "running", "closed", "final"}
Stored == {"written", "stored"}
PCs == {"idle", "done", "dead"} \cup Active \cup Stored

\* r works on object o: it will still write it, store it or reply from it.
Works(r, o) == obj[r] = o /\ pc[r] \in Active \cup Stored /\ kind[r] # "invokeStream"

\* o was created by /invoke/stream, which never finalizes its task, or a
\* stream working on it panicked or was refused before finalizing it.
Abandoned(o) == \E r \in Requests :
    /\ obj[r] = o
    /\ \/ kind[r] = "stream" /\ pc[r] = "dead"
       \/ kind[r] = "invokeStream" /\ r = o

-----------------------------------------------------------------------------
Init ==
    /\ tasks = EmptyTable
    /\ order = <<>>
    /\ status = [o \in Objects |-> "none"]
    /\ note = [o \in Objects |-> FALSE]
    /\ record = [o \in Objects |-> {}]
    /\ pc = [r \in Requests |-> "idle"]
    /\ kind = [r \in Requests |-> "send"]
    /\ tid = [r \in Requests |-> None]
    /\ obj = [r \in Requests |-> None]
    /\ local = [r \in Requests |-> {}]
    /\ final = [r \in Requests |-> "none"]
    /\ emits = [r \in Requests |-> 0]
    /\ reply = [r \in Requests |-> "none"]
    /\ overlapped = {}
    /\ evictedIds = {}

\* putTaskLocked with s.mu held.
PutTaskLocked(id, o) ==
    /\ tasks' = PutTasks(tasks, order, id, o)
    /\ order' = PutOrder(tasks, order, id)
    /\ evictedIds' = evictedIds \cup Evicted(tasks, order, id)

\* The defects named here and below change one definition the way a plausible
\* bug would; no action uses them.  This one: the task found is not handed back.
ResumeTaskUnbound(r, o) ==
    /\ record' = [record EXCEPT ![o] = @ \cup {<<"user", r>>}]
    /\ UNCHANGED <<tasks, order, evictedIds, status, note, obj, overlapped>>

\* getOrCreateTask, the branch that finds the id: the message is appended to
\* the shared task whatever its state.
ResumeTask(r, o) ==
    /\ record' = [record EXCEPT ![o] = @ \cup {<<"user", r>>}]
    /\ obj' = [obj EXCEPT ![r] = o]
    /\ overlapped' = IF \E q \in Requests : Works(q, o)
                     THEN overlapped \cup {o} ELSE overlapped
    /\ UNCHANGED <<tasks, order, evictedIds, status, note>>

\* getOrCreateTask, the branch that allocates a submitted task.
CreateTask(r, t) ==
    /\ status' = [status EXCEPT ![r] = "submitted"]
    /\ record' = [record EXCEPT ![r] = {<<"user", r>>}]
    /\ obj' = [obj EXCEPT ![r] = r]
    /\ PutTaskLocked(t, r)
    /\ UNCHANGED <<note, overlapped>>

GetOrCreateTask(r, t) ==
    IF tasks[t] # None THEN ResumeTask(r, tasks[t]) ELSE CreateTask(r, t)

\* A message/send, /invoke, message/stream or /invoke/stream request arrives.
Receive(r) == \E t \in TaskIDs, k \in Kinds :
    /\ pc[r] = "idle"
    /\ kind' = [kind EXCEPT ![r] = k]
    /\ tid' = [tid EXCEPT ![r] = t]
    /\ GetOrCreateTask(r, t)
    /\ pc' = [pc EXCEPT ![r] = IF k = "invokeStream" THEN "running" ELSE "begun"]
    /\ UNCHANGED <<local, final, emits, reply>>

\* The status becomes working: under a second lock section in
\* handleMessageSend, without the lock in streamRPC.
MarkWorking(r) ==
    /\ pc[r] = "begun"
    /\ status' = [status EXCEPT ![obj[r]] = "working"]
    /\ note' = [note EXCEPT ![obj[r]] = FALSE]
    /\ pc' = [pc EXCEPT ![r] = "marked"]
    /\ UNCHANGED <<tableVars, record, requestVars, local, final, emits, reply,
                   overlapped>>

\* The ResponseWriter is no http.Flusher: the stream is refused after the task
\* was created and marked.  /invoke/stream refuses before it calls the handler.
RefuseStream(r) ==
    /\ \/ kind[r] = "stream" /\ pc[r] = "marked"
       \/ kind[r] = "invokeStream" /\ pc[r] = "running" /\ emits[r] = 0
    /\ pc' = [pc EXCEPT ![r] = "dead"]
    /\ UNCHANGED <<tableVars, objectVars, requestVars, local, final, emits,
                   reply, overlapped>>

\* Defect: the run starts from empty slices.
SnapshotNothing(r) ==
    /\ pc[r] = "marked"
    /\ pc' = [pc EXCEPT ![r] = "running"]
    /\ UNCHANGED <<tableVars, objectVars, requestVars, local, final, emits,
                   reply, overlapped>>

\* The shared history and artifacts are copied, without the lock.
Snapshot(r) ==
    /\ pc[r] = "marked"
    /\ local' = [local EXCEPT ![r] = record[obj[r]]]
    /\ pc' = [pc EXCEPT ![r] = "running"]
    /\ UNCHANGED <<tableVars, objectVars, requestVars, final, emits, reply,
                   overlapped>>

\* One response of the handler's channel.  /invoke/stream forwards it to the
\* client and records nothing.
Emit(r) ==
    /\ pc[r] = "running"
    /\ emits[r] < MaxEmits
    /\ emits' = [emits EXCEPT ![r] = @ + 1]
    /\ \/ UNCHANGED <<status, note, local>>   \* RawContent
       \/ /\ kind[r] # "invokeStream"
          /\ local' = [local EXCEPT ![r] = @ \cup {<<"agent", r>>}]
          /\ UNCHANGED <<status, note>>
       \/ /\ kind[r] # "invokeStream"
          /\ \E state \in HandlerStates :
                /\ status' = [status EXCEPT ![obj[r]] = state]
                /\ note' = [note EXCEPT ![obj[r]] = (state = "failed")]
          /\ UNCHANGED local
    /\ UNCHANGED <<tableVars, record, requestVars, pc, final, reply, overlapped>>

\* Defect: runHandler does not recover.
PanicUnrecovered(r) ==
    /\ pc[r] = "running"
    /\ emits[r] = 0
    /\ pc' = [pc EXCEPT ![r] = "dead"]
    /\ local' = [local EXCEPT ![r] = {}]
    /\ UNCHANGED <<tableVars, objectVars, requestVars, final, emits, reply,
                   overlapped>>

\* The call of s.handler panics.  runHandler recovers and fails the task;
\* streamRPC and handleInvokeStream do not, and net/http ends the goroutine.
Panic(r) ==
    /\ pc[r] = "running"
    /\ emits[r] = 0
    /\ IF kind[r] = "send"
       THEN /\ status' = [status EXCEPT ![obj[r]] = "failed"]
            /\ note' = [note EXCEPT ![obj[r]] = TRUE]
            /\ pc' = [pc EXCEPT ![r] = "closed"]
            /\ UNCHANGED local
       ELSE /\ pc' = [pc EXCEPT ![r] = "dead"]
            /\ local' = [local EXCEPT ![r] = {}]
            /\ UNCHANGED <<status, note>>
    /\ UNCHANGED <<tableVars, record, requestVars, final, emits, reply, overlapped>>

\* The handler closes its channel: the range loop ends.
Close(r) ==
    /\ pc[r] = "running"
    /\ pc' = [pc EXCEPT ![r] = IF kind[r] = "invokeStream" THEN "done" ELSE "closed"]
    /\ emits' = [emits EXCEPT ![r] = 0]
    /\ UNCHANGED <<tableVars, objectVars, requestVars, local, final, reply,
                   overlapped>>

\* Defect: whatever state the handler left is final.
LastState(state) == state

\* finalState := task.Status.State, completed unless terminal.
FinalState(state) == IF IsTerminal(state) THEN state ELSE "completed"

ReadFinalState(r) ==
    /\ pc[r] = "closed"
    /\ final' = [final EXCEPT ![r] = FinalState(status[obj[r]])]
    /\ pc' = [pc EXCEPT ![r] = "final"]
    /\ UNCHANGED <<tableVars, objectVars, requestVars, local, emits, reply,
                   overlapped>>

\* Defect: runHandler overwrites a failed status as streamRPC does.
NeverKeeps(r) == FALSE

\* runHandler assigns no status to a task that has failed; streamRPC always does.
KeepsStatus(r) == kind[r] = "send" /\ status[obj[r]] = "failed"

\* The run's slices and its final status are assigned to the shared task.
WriteBack(r) ==
    /\ pc[r] = "final"
    /\ record' = [record EXCEPT ![obj[r]] = local[r]]
    /\ IF KeepsStatus(r)
       THEN UNCHANGED <<status, note>>
       ELSE /\ status' = [status EXCEPT ![obj[r]] = final[r]]
            /\ note' = [note EXCEPT ![obj[r]] = FALSE]
    /\ pc' = [pc EXCEPT ![r] = "written"]
    /\ final' = [final EXCEPT ![r] = "none"]
    /\ UNCHANGED <<tableVars, requestVars, local, emits, reply, overlapped>>

\* The task is stored again, in case it was evicted during the run.
Store(r) ==
    /\ pc[r] = "written"
    /\ PutTaskLocked(tid[r], obj[r])
    /\ pc' = [pc EXCEPT ![r] = "stored"]
    /\ UNCHANGED <<objectVars, requestVars, local, final, emits, reply, overlapped>>

\* The task is serialized, without the lock, as the response or last event.
Reply(r) ==
    /\ pc[r] = "stored"
    /\ reply' = [reply EXCEPT ![r] = status[obj[r]]]
    /\ pc' = [pc EXCEPT ![r] = "done"]
    /\ local' = [local EXCEPT ![r] = {}]
    /\ UNCHANGED <<tableVars, objectVars, requestVars, final, emits, overlapped>>

\* handleTasksCancel: one lock section; an unknown or terminal task is an
\* error that changes nothing.  The running handler is not told.
HandleTasksCancel(t) ==
    /\ tasks[t] # None
    /\ ~IsTerminal(status[tasks[t]])
    /\ status' = [status EXCEPT ![tasks[t]] = "canceled"]
    /\ note' = [note EXCEPT ![tasks[t]] = FALSE]
    /\ UNCHANGED <<tableVars, record, pc, requestVars, local, final, emits,
                   reply, overlapped>>

\* What the goroutine of a received request does next.
Step(r) ==
    \/ MarkWorking(r)
    \/ RefuseStream(r)
    \/ Snapshot(r)
    \/ Emit(r)
    \/ Panic(r)
    \/ Close(r)
    \/ ReadFinalState(r)
    \/ WriteBack(r)
    \/ Store(r)
    \/ Reply(r)

Next ==
    \/ \E r \in Requests : Receive(r) \/ Step(r)
    \/ \E t \in TaskIDs : HandleTasksCancel(t)

Spec == Init /\ [][Next]_vars

\* The Go scheduler runs every goroutine, and a TaskHandler closes its channel
\* when handling is complete; nobody promises a request or a cancel.
FairSpec == Spec /\ \A r \in Requests : WF_vars(Step(r))

-----------------------------------------------------------------------------
(* Properties *)

\* Every variable has its type, and a goroutine past getOrCreateTask holds an
\* allocated task and a task id (server.go:381-399).
TypeOK ==
    /\ tasks \in [TaskIDs -> Requests \cup {None}]
    /\ order \in Seq(TaskIDs)
    /\ status \in [Requests -> TaskStates \cup {"none"}]
    /\ note \in [Requests -> BOOLEAN]
    /\ record \in [Requests -> SUBSET Items]
    /\ pc \in [Requests -> PCs]
    /\ kind \in [Requests -> Kinds]
    /\ tid \in [Requests -> TaskIDs \cup {None}]
    /\ obj \in [Requests -> Requests \cup {None}]
    /\ local \in [Requests -> SUBSET Items]
    /\ final \in [Requests -> TaskStates \cup {"none"}]
    /\ emits \in [Requests -> 0..MaxEmits]
    /\ reply \in [Requests -> TaskStates \cup {"none"}]
    /\ overlapped \in SUBSET Requests
    /\ evictedIds \in SUBSET TaskIDs
    /\ \A r \in Requests : pc[r] # "idle" => obj[r] # None /\ tid[r] # None

\* s.tasks and s.taskOrder describe the same table: an id is a key of the map
\* exactly when it is in the order, it is there once, and there are at most
\* MaxTasks of them, whatever gets re-inserted (putTaskLocked).
TableConsistent ==
    /\ Keys(tasks) = {order[i] : i \in 1..Len(order)}
    /\ \A i, j \in 1..Len(order) : order[i] = order[j] => i = j
    /\ Len(order) <= MaxTasks

\* An entry disappears only from a full table, to make room for a new id, and
\* it is the entry that came first (putTaskLocked: oldest tasks evicted first).
FifoEviction ==
    [][\A t \in Keys(tasks) : tasks'[t] = None
            => /\ Len(order) = MaxTasks
               /\ t = Head(order)
               /\ \E u \in TaskIDs \ Keys(tasks) : tasks'[u] # None]_vars

\* The requests that name one id share one task for as long as that id has not
\* been evicted: however their arrivals interleave, none of them works on an
\* object that tasks/get cannot see (getOrCreateTask looks up and inserts in
\* one lock section).
OneTaskUntilEvicted ==
    \A r \in Requests : pc[r] # "idle" /\ tid[r] \notin evictedIds
        => tasks[tid[r]] = obj[r]

\* A task is left submitted, working, rejected or input-required only while
\* some request still works towards its final state, or when it was abandoned
\* by /invoke/stream or by a stream that died (runHandler, streamRPC).
UnsettledIsInProgress ==
    \A o \in Objects : status[o] \notin {"none"} /\ ~IsTerminal(status[o])
        => \/ \E r \in Requests : Works(r, o) /\ pc[r] \in Active
           \/ Abandoned(o)

\* As long as no two requests have worked on a task at a time, the task keeps
\* the message of every request on it, and all that each finished run recorded
\* (the snapshot and write-back of history and artifacts lose nothing).
RecordKept ==
    \A r \in Requests : pc[r] # "idle" /\ obj[r] \notin overlapped
        => /\ <<"user", r>> \in record[obj[r]]
           /\ Works(r, obj[r]) /\ pc[r] \in Stored
                => local[r] \subseteq record[obj[r]]

\* A failed task carries the message that explains it, unless a stream
\* finished on it (streamRPC drops the message) or runs overlapped.
FailureExplained ==
    \A o \in Objects : status[o] = "failed" /\ ~note[o]
        => \/ o \in overlapped
           \/ \E r \in Requests : obj[r] = o /\ kind[r] = "stream"
                                  /\ pc[r] \in Stored \cup {"done"}

\* A response shows a task in a terminal state, unless another request worked
\* on the same task at the time (handleMessageSend returns a finished task).
ReplySettled ==
    \A r \in Requests : reply[r] # "none" /\ obj[r] \notin overlapped
        => IsTerminal(reply[r])

\* Every task that is not in a terminal state reaches one, unless abandoned.
TaskSettles ==
    \A o \in Objects :
        status[o] \notin {"none"} /\ ~IsTerminal(status[o])
            ~> IsTerminal(status[o]) \/ Abandoned(o)

\* What runHandler's comment says: history accumulates.  A task never loses an
\* item of its record.
HistoryAccumulates ==
    [][\A o \in Objects : record[o] \subseteq record'[o]]_vars

\* A task that tasks/cancel has canceled stays canceled until a new message
\* reopens it.
CancelSticks ==
    [][\A o \in Objects : status[o] = "canceled" /\ status'[o] # "canceled"
            => \E r \in Requests : MarkWorking(r) /\ obj[r] = o]_vars
=============================================================================
