# A verification model of aip-go-sdk

This directory is a set of TLA+ modules about the Go SDK of the AIP agent platform, the TLC
configurations that check them on small instances, and proofs, checked by TLAPS, of the safety
properties for every instance. Paths such as `server/server.go` are relative to the repository.
`PROJECT.json` lists every component, run, theorem, hazard and finding, and for every definition
the lines of code it stands for.

## 1. The system

An agent is a program that serves the A2A protocol (a2a = agent-to-agent). Callers send it
messages; each message creates a *task* or continues one, a `TaskHandler` written by the agent's
author answers on a channel, and the SDK turns the answers into the task's status, history and
artifacts. A public agent is reached over HTTP. A private agent has no public address: it polls a
*gateway*, an external service that queues tasks, and its callers submit to and poll the same
gateway. Around this core there are thin HTTP clients for the platform, the registry, the job
market and the gateway's registration API.

| component | state it keeps | operations | depends on |
|---|---|---|---|
| task table (`server/server.go:73-90`) | `tasks`, `taskOrder` under `mu` | `putTaskLocked` | - |
| A2A server (`server/server.go`) | task objects: status, history, artifacts, metadata | message/send, message/stream, /invoke, /invoke/stream, tasks/get, tasks/cancel, conversations | task table, the author's handler |
| gateway polling loop (`server/registration.go:82-230`) | none but the task in hand | poll, process, post the result | gateway, the server's message handling |
| server lifecycle (`server/registration.go:1-80`, `server/server.go`) | the HTTP server, the cancel of the poll loop, the platform id | `Run`, registration, `Shutdown` | registry, polling loop |
| gateway A2A client (`gateway/a2a_client.go`) | `pendingTasks`, `agentCards` under `mu` | `SendTask` (push or pull), `CancelTask`, `GetTask`, `StreamTask`, discovery | gateway |
| gateway task queue (external) | the queue, the results | submit, poll, complete, cancel, status, result | - |
| external agent client (`agent/external.go`) | current task and counters under `mu` | `Register`, `Run`, `CompleteTask`, heartbeats | gateway |
| platform client, jobs (`platform/`) | none; a retry loop per request | `Run`, `RunStream`, jobs, pagination | platform |
| commerce client, evaluator (`commerce/`) | none | job reads, `VerifyAndSettle` | platform |
| registry client (`registry/`) | `identities`, `agents`, `discoveredAgents` under `mu` | register, look up, update metadata, discover, wait for services | platform, gateway registration, A2A client |
| gateway registration client (`gateway/client.go`) | none | register, health, wait | gateway |
| A2A protocol client (`a2a/client.go`) | discovered cards and clients under `mu` | discover, send, stream, get, cancel | the library a2a-go |
| A2A data types (`a2a/`), types, core | none | cards from identities and metadata, registration maps, pages | - |
| agent context, messaging (`agent/context.go`, `messaging/`) | the caller chain of a call, payment events | wrap and unwrap messages, spawn a child context or message | - |
| auth (`auth/`) | a config file | load, save, ask the user | file system |
| wrappers (`wrappers/generic.go`) | none | assemble a card, a handler and a server from options | server, auth |
| errors, log | none | - | - |

How they interact: requests are goroutines of `net/http` that share task objects; the polling loop
is one goroutine that calls the same message handling as an HTTP request; a client's `SendTask`
goroutine shares its `Task` with `CancelTask` and `GetTask`; the external agent's run loop shares
counters with a heartbeat goroutine. The gateway stands between the two sides, and either side can
lose a request or its answer.

What is hard here, and what must be right:

* **Task objects are shared pointers, and the lock covers the table only.** `runHandler` and
  `streamRPC` read and write status, history and artifacts without `mu`. Requests on one task id
  overlap; `tasks/cancel` writes under the lock in between; the table evicts a task that a request
  still runs. Right means: one task per id, a consistent bounded table, every task settles, no
  message or failure is lost as long as runs on a task do not overlap.
* **A result crosses two polls and a post, each of which may be lost.** Right means: a client is
  told *completed* only with a result, *failed* and *canceled* only for a reason, and always
  something; a task is never dropped without a loss on the network.
* **A heartbeat is read in one lock section and reports what three others write.** Right means:
  it never hides or overstates work.
* **A stream is handed over event by event.** Right means: what is reported as completed was received
  whole, the aggregate agrees with every order of events, and neither goroutine waits for ever.
* **A request is repeated that may have taken effect, and a job is checked before it is settled.** Right
  means: what a caller is told of its job is so, and an evaluator settles what it checked.
* **A registration is repeated until it is answered, and falls back to an id of its own.** Right means:
  what the registry says of an agent is so, and what retries leave behind is accounted for.
* **Caches are filled outside the lock.** Right means: a card is one the agent served during the call,
  and without overlaps a cache never goes back behind what it has handed out.
* **A profile, a chain of callers, a handler's words change their Go type and owner on the way.** Right
  means: what arrives is what was given, and where it is not, exactly there.
* **Goroutines outlive the function that started them.** Right means: they end with their context.
* **Programs share a config file without a lock.** Right means: only an overlap or a crash loses a setting.

## 2. The modules

| module | what it is | the code |
|---|---|---|
| `TaskTable` | the bounded table as operators on the map and the order | `putTaskLocked` |
| `TaskServer` | the server: requests, their runs, cancel | `server/server.go` |
| `TaskServer_proofs` | theorems about it | |
| `GatewayQueue` | the external queue, as its callers use it | (external) |
| `PullClient` | pull-mode `SendTask`, `CancelTask`, the pending cache | `gateway/a2a_client.go` |
| `PollingAgent` | the server's polling loop | `server/registration.go` |
| `GatewaySystem` | client, queue and agent composed | |
| `GatewaySystem_proofs` | theorems about the composition | |
| `AgentContract` | what any polling agent owes the queue: the abstract specification | |
| `ExternalAgent` | the external agent's run loop and heartbeat over the queue | `agent/external.go` |
| `ExternalAgent_proofs` | theorems about it | |
| `EventStream` | what the reader of a run's stream is promised: the abstract specification | |
| `PlatformRun` | `RunStream`'s goroutine, its channel, and `Run` or another reader | `platform/client.go` |
| `PlatformRun_proofs` | theorems about it | |
| `JobMarket` | the external job market, as its callers use it | (external) |
| `JobSettlement` | callers of the job requests and evaluators, through the retry loop | `platform/client.go`, `platform/jobs.go`, `commerce/` |
| `JobSettlement_proofs` | theorems about it | |
| `AgentDirectory` | the platform's list of agents (external) and the request that enters one, with its retries | `platform/client.go` |
| `AgentHost` | the life of one service over the directory: configuration, `Run`, registration, shutdown | `wrappers/generic.go`, `server/server.go`, `server/registration.go` |
| `AgentRegistry` | the registry client of one program over the directory | `registry/registry.go`, `gateway/client.go` |
| `CardCache` | the caches of agent cards | `a2a/client.go`, `gateway/a2a_client.go`, `registry/registry.go` |
| `CallChain` | a call that agents pass on: context, metadata, payments | `agent/context.go`, `messaging/` |
| `CredentialFile` | the config file and the programs that share it | `auth/auth.go` |
| `StreamRelay` | the goroutines behind `StreamTask` and `PushStream` | `a2a/client.go`, `gateway/a2a_client.go` |
| `AgentProfile` | what an agent says of itself, from options to the card someone reads | `wrappers/`, `types/`, `a2a/agent_card.go`, `registry/` |
| `Readiness` | waiting for the platform and the gateway | `platform/client.go`, `gateway/client.go`, `registry/registry.go` |
| `TaskQueries` | naming, listing and paging of tasks, and paginated lists | `server/server.go`, `a2a/client.go`, `types/results.go` |
| `AgentAnswers` | how a handler's words reach those who ask | `server/handlers.go`, `server/server.go`, `server/registration.go` |
| `MCSdkParts` | the instance of the eleven modules above, one part at a time | |
| `SdkClients_proofs` | theorems about `CardCache`, `CredentialFile`, `StreamRelay` and `Readiness` | |
| `SdkAgents_proofs` | theorems about `AgentProfile`, `CallChain`, `AgentDirectory`, `AgentHost` and `AgentRegistry` | |
| `SdkParts_proofs` | theorems about `AgentAnswers` and `TaskQueries`, and about all parts together | |
| `MCTaskServer`, `MCGatewaySystem`, `MCExternalAgent`, `MCPlatformRun`, `MCJobSettlement` | the instances TLC checks | |

`GatewaySystem` and `ExternalAgent` both implement `AgentContract` (`Contract == INSTANCE
AgentContract`, checked as a property and proved). The abstract queue operations, `Assign` and
`Complete`, are the ones of `GatewayQueue`, so the contract speaks about the queue that the clients
see, not about an interface of its own.

### TaskServer

A request is a goroutine with a program counter. The steps follow the lock sections: a section
under `mu` is one action (`Receive` with `getOrCreateTask`, `Store`, `HandleTasksCancel`), and
each unlocked statement that reads or writes a shared task is an action of its own. In order:

| action | code |
|---|---|
| `Receive` | the request arrives; `getOrCreateTask` looks the id up, or allocates and inserts |
| `MarkWorking` | the status becomes working |
| `Snapshot` | history and artifacts are copied to local slices |
| `Emit` | one response of the handler: a message, an artifact or a status update |
| `Panic`, `Close` | the handler's call panics, or its channel is closed |
| `ReadFinalState`, `WriteBack` | `finalState` is read, then the task is written |
| `Store` | `putTaskLocked` again, in case the task was evicted |
| `Reply` | the task is serialized |
| `RefuseStream` | the writer cannot flush: the request ends with the task left as it is |
| `HandleTasksCancel` | tasks/cancel |

`kind` tells message/send (and /invoke, which calls the same function) from message/stream and
/invoke/stream, which records nothing and never finalizes its task. A task object is named by the
request that allocated it.

Abstractions: history and artifacts are one set of items, each the user's message of a request or
what that request's handler answered, since the properties ask what is kept and not in which order;
`task.Metadata`, which holds only `last_updated`, is not modelled; the writes of history, artifacts
and status at the end of a run (`server.go:373-377`) are one step; torn reads of multi-word values
are not modelled, only the interleaving of whole statements. `tasks/get`, the list of conversations
and the agent card are read-only and change no state. A panic inside the author's own goroutine
ends the program and is not modelled: `Panic` is a panic of the call `s.handler(...)`.

### GatewaySystem

`GatewayQueue` is the part of the gateway that the callers rely on. A submitted id is fresh (the
client draws a UUID), an assigned task is not queued again, and a task canceled meanwhile may keep
the cancel or take the result: the code on either side does not decide that, so both happen.

`PullClient` follows one `SendTask` per task id through `call`: submission, the poll loop with its
deadline and context, the settled status, the one request for the result, and the release of the
pending entry. `CancelTask` is a concurrent caller: its post and its write to the shared `Task` are
two actions. Every request is two outcomes: it took effect or not, and independently its answer
arrives or not. A failed poll is a stutter.

`PollingAgent` is the polling loop. The handler's failure yields a task in state failed that is
posted with status *completed*; only an error of the message handling is posted as *failed*. The
post is attempted once. Cancelling the context makes every later request fail and ends the loop at
its head. The job-queue endpoint has the same control and is not distinguished.

### ExternalAgent

`loop` and `beat` are the program counters of the two goroutines. `SetCurrent`, `Count` and
`ClearCurrent` are the three lock sections of the run loop; `ReadHeartbeat` is the one of the
heartbeat, and `PostHeartbeat` sends what was read, later. A post counts as done whatever becomes of
it. Heartbeats are posted one at a time and are not reordered.

### PlatformRun

The platform sends events and ends the stream; `Cut` is a broken connection, the end of the caller's
context, or one of the two deadlines (the stream's and the HTTP client's). RunStream's goroutine scans
an event and offers it until the reader takes it; a send on the unbuffered channel and its receipt are
one action. An event is its class and whether it names the run: the two sets of terminal types are one
class each. Blank, foreign and unreadable lines are skipped by the code and left out. The reader is `Run`,
or any other caller, which may leave at any time. `Run`'s locals are positions in the events it received,
so that which of several errors or results it keeps can be told. `EventStream` is the contract of the
channel, with `told` the one word about the end.

### JobSettlement

A caller uses one method of `JobClient`, or is an evaluator in `VerifyAndSettle`. Each request goes
through the loop of `platform.Client.do`: `AttemptFails` is a network error or a retryable status,
and covers both a request that never arrived and one that took effect and whose answer was lost;
`Retry` counts it, and gives up after `MaxRetries`; `AttemptRefused` is any other status, or an
answer that cannot be decoded; `ContextDone` ends the wait between attempts. `Return` and `Settle`
are what a method makes of the answer: true only if it shows the status asked for, except that a
rejection is believed on any accepted answer, and the rejection of an absent deliverable is never
reported as true. Between the answer of `GetJob` and the request that settles the job anything may
happen, another evaluator's settlement included.

`JobMarket` is external: a job moves through open, accepted, submitted and one of completed and
rejected, never back, and an operation its status does not allow changes nothing. An accepted answer
carries the job as it is then. Schemas and data are three values, a deliverable that is absent, fits,
or does not. A request whose answer is lost may leave its caller with an error or false although the
job was settled; nothing in the code prevents that, and no property claims otherwise.

### AgentDirectory, AgentHost and AgentRegistry

`AgentDirectory` is the platform's list of agents and the one request that writes it. An attempt may
take effect and its answer be lost or carry no id; a repeated attempt may be answered with the agent
that the first one entered, or enter another: the code does not decide that. `Page` is the one page
that `GetAgent` reads.

`AgentHost` gives every goroutine of `server.Run` a variable of its own: `listener` for
`ListenAndServe`, `shutdown` for the goroutine that waits for the context, `background` for
registration and polling. `Configured` and `Polls` are the conditions under which
`ExposeAsA2A` attaches a registration config and `Run` starts to poll. Of the polling loop only its
start, the name it polls under and its end are here; `PollingAgent` has the rest.

`AgentRegistry` has one action per method. An identity is an entry of a map whose metadata is another
map, shared by reference; so `identities` holds the name of the metadata map, and `metadata` what is
in it. `GetIdentity` reads under the lock and asks the platform without it. `UpdateAgentMetadata`
is atomic, as it is under the lock; the map's readers outside the lock read whole values.

### CardCache

A call is `Lookup` under the lock, `Respond` or `FetchFailed` without it, `Store` under it again,
then `Track` for the registry's own list and `Give`. A card is its version. A call that answers from the
cache starts and ends in one version of it. `given` remembers what callers have seen, `crossed`
whether two calls for one entry overlapped. The cache of protocol clients is filled by the first user and never changed, and left out.

### CallChain, AgentProfile and AgentAnswers

`CallChain` follows one call over its hops. Each hop is over HTTP, where the maps of the message become
JSON, or in memory, where they keep their Go types: `ReadContext` is what that does to the chain.
`named`, `spawned`, `httpHops` and `paid` are history for the properties.

`AgentProfile` keeps of a profile the names of its skills, the Go type of the list, and the address.
The two ways in are `ExposeAsA2A` and `registry.RegisterAgent`; the ways out are the card that
the server serves, the card in the platform's entry, the identity somebody looks up, and a card generated from it.

`AgentAnswers` has a handler behind one of the adapters, asked in one of five ways. A word is who it
was said for and which it was. The run's copy of the history (`kept`) becomes the task's (`said`)
when it ends. User messages, artifacts and evictions are in `TaskServer`; a panic is, too.

### CredentialFile, StreamRelay, Readiness and TaskQueries

`CredentialFile` splits a save into reading and merging, opening (which empties the file) and filling.
A program that is killed in between leaves what was there; a file cut short is read as empty, because
`json.Unmarshal` takes nothing from it. Of the settings there are two, the token and the wallet key.

`StreamRelay` is one module for two goroutines of the same shape, told apart by `stream`. A line is an
event, one that cannot be read, an error or noise. The channel has no buffer: `HandOver` is a send with its receipt.

`Readiness` is the loop of the three waits, with services that come and go between two checks of one attempt.
The order in which `WaitForServices` reads the map of results makes no difference and is fixed.

`TaskQueries` has the tasks as their context and the second of `last_updated`; a sort of equal
stamps comes out in any order, since the tasks come out of a map in any order. `walk` is a client that
reads a list page by page. A platform may report the limit it applied, the one it was asked for, or none.

Operators marked *Defect* in the modules are plausible bugs (a missing recover, a renewed deadline, a
counter cleared too early). No action uses them: replacing the real definition by one of them shows
that a property can fail.

## 3. What is checked

| run | instance | what it shows |
|---|---|---|
| `server_table` | 3 requests, 2 ids, a table of 1, handlers that close or panic | the table stays consistent and evicts in order; one task per id until it is evicted; every unfinished task is in progress or abandoned; finished runs keep the record; failures are explained; replies are settled |
| `server_runs` | 2 requests, 2 ids, up to 2 answers each, fairness | records and failures with answering handlers; every task settles |
| `gateway_pull` | 2 calls, one agent, fairness | type; a completed task has the agent's outcome; verdicts are warranted; the cache leaks only unfinished calls; assigned tasks are accounted for; every call returns; the loop keeps the contract |
| `external_run` | 2 tasks, fairness | type; an idle agent hides no work; heartbeats are honest and advance; cancelling stops both goroutines; the client keeps the contract |
| `platform_run` | 3 events, fairness | type; the result aggregates all that came; a completed run received a whole stream; the stream keeps its contract; both goroutines end unless a caller leaves |
| `job_settlement` | 2 callers, 2 jobs, 1 retry, fairness | type; a caller told true was told so; evaluators settle what they checked; a job is made twice only by a repeated request; every call returns |
| `sdk_parts` | one part at a time of the eleven modules, fairness | type; what the registry tells its callers is so (`RegistryHonest`); card caches do not go back (`CardsCurrent`); the chain of callers and the payments survive the hops (`ChainKept`); the config file keeps its settings (`SettingsKept`); streams are relayed whole or end with an error (`RelayFaithful`); a profile arrives as given (`ProfileKept`); answers and lists have what they should (`ServerTellsTruth`); goroutines and waits end (`GoroutinesEnd`) |

Five properties are what the repository says and the code does not do; TLC finds each violated:

| run | the statement | what happens |
|---|---|---|
| `server_history` | runHandler accumulates history (`server.go:343`) | two requests on one id: the first to finish overwrites the history with its own copy (`server.go:373`) and erases the message of the other |
| `server_cancel` | a canceled task is in a terminal state (`server.go:467`) | the running handler is not told and writes the status again (`server.go:361`) |
| `gateway_unsettled` | pull mode polls until completion (`a2a_client.go:163`) | the status says completed, the one request for the result fails: a working task is returned without an error |
| `gateway_stale` | GetTask returns the current state (`a2a_client.go:463`) | a call that timed out leaves its entry in the cache, which answers for ever |
| `gateway_failure` | the agent's result is merged into the task (`a2a_client.go:407`) | a task that the agent failed is completed for the client |

Bounds, and why they are enough. The table of one entry with two ids makes every insertion of the
other id an eviction, also of a task that still runs; the third request comes back to the evicted
id, so that a newer object is there when the old run stores its own. Two answers per handler
(`MaxEmits`) allow a status update before and after a message or a cancel. `HandlerStates` has a
terminal state that carries a message and one that the server does not take for terminal; working,
completed and canceled are written by the server itself. Two gateway calls and one agent make one
call wait, time out or be canceled behind the other; calls share nothing but the agent and the lock,
and each has a task of its own. With two external tasks, one is counted or lost while the next is in
hand. Three events give every order of completed and error events with one between. Two callers on two jobs
are enough for two evaluators, or an evaluator and a caller of Complete, to meet on one job, and for a
repeated creation to make a second one; one retry distinguishes the first, a repeated and the last attempt. 

`sdk_parts` runs one part in a behaviour and leaves the others at rest. The parts share no variable, but
for the directory under the host and the registry, which are two programs; a product of them would add
no behaviour to any. Its bounds: one retry, two registering goroutines beside one that looks up, and a page of one, so
that an agent is beyond the page; two callers and three versions of a card, so that an older answer can overtake a newer one;
three agents and three hops, the fewest at which an agent in the middle passes on what it was passed; three programs on
the file, so that one reads while two write; three lines of a stream; two skills; two attempts of a wait;
three messages, two seconds and pages of one or two; a list of five in pages of at most two; two requests of two words on one id.

Symmetry is used only in `server_table`, which has no liveness property. Deadlock checking is
off in every run because every instance has finitely many requests and may come to its end.

Fairness. `TaskServer`: each goroutine of a received request is weakly fair, `Close` and the bounded
`Emit` included, because the documentation of `TaskHandler` requires that the channel be closed
(`server/server.go:25-27`) and the Go scheduler runs every goroutine; arrivals and cancels are not
fair. `PullClient`: a call's next step and the passing of its deadline are fair; an answer of the
network, a context or a cancel is not promised (a fair step may be the failing one). `PollingAgent`
and `ExternalAgent`: the loop is fair, since its requests end by their timeouts and the handler or
executor returns; a poll that returns a task is not promised. `PlatformRun`: both goroutines are fair,
and an open stream is cut or ends, since `context.WithTimeout` bounds it; events are not promised.
`JobSettlement`: a caller's steps are fair, since requests end by the HTTP client's timeout and delays
pass; no attempt is promised to succeed. `AgentHost`: the three goroutines are fair; a listener that
serves may do so for ever, and the program need not cancel. `StreamRelay`: the goroutine, and a
consumer that reads; the remote side is not. `Readiness`: the call, whose checks time out. In `sdk_parts`
each of these holds when the part runs.

## 4. What is proved

For every set of requests, ids, tasks, callers and jobs, every table size, every handler and runs of any length.
Every invariant and action property of the passing runs that says nothing about fairness is the statement of a theorem.

Assumptions, each named in the module that declares the constants: `None` is no id, the table and a page hold at
least one entry, bounds are natural numbers. The sets that something is counted over (registrars, lookers,
card callers, programs, skill names, task names) are finite, as a program's goroutines and names are. Names that the code
draws as UUIDs are not among those it is given (`RunIds \cap Asks = {}`, `TaskNames \cap Generated = {}`). The registering goroutines of the registry's
program are registrars and do not look up, the host is a registrar, and the names of agents differ from the words
for an unknown agent and for no name.

* **The table** (`TaskServer_proofs`). `TableInv == TypeOK /\ TableConsistent` is inductive.
  `PutFits` is the lemma it rests on: an insertion into an order without duplicates that fits
  evicts nobody, or the head of a full order. From it `TypeCorrect`, `TableStaysConsistent`,
  `EvictionIsFifo` (an action property) and, with one more inductive step, `OneTaskPerId`.
* **The runs** (`TaskServer_proofs`). `RecordKept` and its companions are not inductive: `RunInv` adds
  that an object is allocated before it is worked on, that an object nobody overlapped has one worker
  (`Alone`), that a run's local copy covers the record it started from (`RunCovers`), and that
  `final` is terminal. Each step of a goroutine leaves the others' objects alone (`StepFrame`,
  `Undisturbed`) unless they overlap. From it `UnsettledMeansInProgress`, `RecordIsKept`,
  `FailureIsExplained` and `ReplyIsSettled`.
* **The gateway system** (`GatewaySystem_proofs`). `SystemInv` adds to the properties what the loop
  carries (`LoopInv`) and what each call has learnt of the gateway (`LearntInv`): a completed task at
  the gateway has an outcome and stays completed, and what a call has seen is still so or explained
  by a cancel. From it all five invariants of `gateway_pull` and the refinement `LoopKeepsContract`:
  the initial state is one of the contract, and every step is a step of it or a stutter.
* **The external agent** (`ExternalAgent_proofs`). `AgentInv` adds `ReceivedInv` (every task handed
  over has left the queue), `CountInv` (where each task handed over is counted at every point of the
  loop) and `HeartbeatInv` (the body read earlier never exceeds the present counters). From it the
  invariants, `HeartbeatsNeverGoBack` and the refinement `AgentKeepsContract`.
* **The run** (`PlatformRun_proofs`). `RunInv` adds to the type where the goroutine and the reader
  stand to each other (`HandedInv`): what was received is what was scanned, but for an event on offer;
  the goroutine ends after an error it told or after a whole stream; a reader that returned leaves
  nothing on offer. From it `AggregateIsFaithful`, `SuccessMeansWhole` and the refinement
  `RunKeepsStream`.
* **The jobs** (`JobSettlement_proofs`). `Forward` says that a job only moves to a later status, and
  keeps its deliverable once submitted. So what a caller learnt from an answer stays true (`Knows`),
  whatever the others do, and a verdict still fits when it takes effect: `SettleInv` is inductive.
  From it `SuccessIsReal` and `VerdictsAreFit`; `CreationsAccounted` follows from counting the jobs
  made against the attempts (`MadeInv`).

* **The card caches** (`SdkClients_proofs`). `FreshInv`: no cached, given or fetched version is newer
  than the one served, and a fetched one is not older than the call. `AloneInv`, while no two calls
  for an entry overlapped: each entry has one caller at most, who holds what the entry holds or what
  it is about to hold, and the registry's list is not ahead of the cache it is filled from. From it
  `CardsStayCurrent`.
* **The config file** (`SdkClients_proofs`). `WriteInv`, while undisturbed: one program at most is
  writing, what it writes is all that was saved before and its own setting, and the file holds what
  was saved but while it is being filled. `FoundInv`: a program on its way through `EnsureAuth` learns
  that neither setting was there when it began. From it `SettingsAreKept`.
* **The stream relay** (`SdkClients_proofs`). `OrderInv`: what was received is in order, each event
  read so far was received or is being sent, and only one of the two. `StageInv`: nothing follows an
  error. `ClosedInv`: why the channel was closed. From it `RelayIsFaithful`.

* **The wait** (`SdkClients_proofs`). `WaitInv`: only needed services are counted as checked, and an attempt under way
  is counted. From it `WaitIsHonest`.
* **The profile** (`SdkAgents_proofs`). `OriginInv`: the platform's entry is the one that the author's
  configuration makes, and an identity is the author's own or was read from that entry, with the
  Go type that goes with each. From it `ProfileIsKept`.
* **The call chain** (`SdkAgents_proofs`). `CallerInv` says whom the message in hand names as its caller: the last agent
  named, but for a first message that was created for its receiver. The chain in the metadata is
  characterised, not computed: `IsCollapsed(c, s)` says that `c` has one entry for each stretch of
  equal names in `s`, in order, which is what the code's test for the last entry keeps up
  (`CollapsedGrows`). From it `ChainIsKept`.
* **The directory and the host** (`SdkAgents_proofs`). `DirectoryInv`: a registrar knows of an agent only once it
  is answered, and has no agents beyond that one but for answers it did not hear (`KnownInv`); every entry can be
  given the number of the attempt that made it, and two of one registrar different numbers (`NumberedInv`), so that the
  list is bounded by the registrars and their retries. From it `HostTypeCorrect`, with the ids that
  the directory hands out in their range.
* **The registry** (`SdkAgents_proofs`). `RegistryInv` adds to it what each registering goroutine has asked
  (`CallInv`); that a tracked id is the platform's or the local id of a goroutine left without one
  (`TrackedInv`); what a lookup in flight has found (`LookedInv`); and whose metadata map an identity
  has (`MapsInv`): the registering goroutine's, which holds every accepted update, or that of a
  lookup which stored the platform's answer over it. From it `RegistryIsHonest`.
* **The answers** (`SdkParts_proofs`). `KeptInv`: a run's copy of the history is what others said on the id and then the
  run's own words in order; `WrittenInv`: so is its stream; `UnheardInv`: nobody has the words
  of a run that goes on; `StoredInv`: without overlaps the task has the run's copy until the
  answer is read off it. `OwnSuffix` counts a run's own words in what was answered. From it `AnswersAreOwn`.
* **The queries** (`SdkParts_proofs`). A walk over the conversations has read those up to its offset, each in its place: as
  many conversations are newer than the one read at place i as come before it (`NewerThan`,
  `ConversationWalk`). `SortingPlaces` shows that every sort gives these places when no
  stamps are equal, so pages of different sorts fit; `SlicesWhen` is the slice expression's condition. `PlatformWalk` says the same of the
  platform's lists. From it `QueriesAreTrue`.
* **The parts together** (`SdkParts_proofs`). `PartsInv` joins the invariants above; host and registry share the
  directory, so each keeps its own invariant while it runs and its initial state while the other one
  does (`RegistryAtRest`). From it `TypeCorrect`, `RegistryTellsTruth`, `ServerIsTruthful` and `PartsAreKept`: the
  statements of `sdk_parts` for every value of its constants.

Only model-checked: the liveness properties `TaskSettles`, `SendReturns`, `CancelStopsRun`, `RunEnds`, `CallReturns` and
`GoroutinesEnd` (their proofs need the enabledness of fair actions, which the installed provers do not reason about), and the
violated statements of section 3.

## 5. What is not modelled, and the plan

Left out, and why:

* cryptography (signatures, addresses, the contents of tokens), wire formats and JSON but where a Go
  type is lost on the way, the library a2a-go: not of this repository, or out of a model checker's reach;
* requests without state that pass an answer on: `pushSend`, `GetTask` and `CancelTask` of the A2A
  client, `RegisterAgentGroup`, most of the platform's and the gateway's getters, `/health`;
* the HTTP and JSON-RPC wrapping of the server with its error codes;
* the race of `serializeTask` with a write of `task.Metadata`, which ends the whole process, and a panic in a
  goroutine of a handler's adapter, which does too;
* logging, error values, examples.

The plan from here:

1. The join of `TaskServer` and `PollingAgent`: the outcome the loop posts is the state of a settled task.
2. Proofs about that join, and the safety half of the liveness properties: that no step leads away from
   the end a goroutine has reached.
3. `pushSend` beside `pullSend`, and the error codes of the server, if they come to keep state.
