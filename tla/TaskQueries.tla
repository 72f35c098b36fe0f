------------------------------ MODULE TaskQueries ------------------------------
(***************************************************************************)
(* The questions a task server answers: who names a task how                *)
(* (a2a.Client.SendTask and applyIDs, taskIDs and getOrCreateTask of        *)
(* server/server.go), tasks/get and tasks/list, and lists that are read     *)
(* page by page: /conversations, and the platform's lists through           *)
(* types.PaginatedResponse.  What runs on the tasks is in TaskServer, and   *)
(* so is eviction: here the table is below its limit.                       *)
(***************************************************************************)
EXTENDS Integers, Sequences, FiniteSets, SequencesExt, FiniteSetsExt

CONSTANTS TaskNames,  \* the task ids that senders choose
          Generated,  \* the ids the server generates, a bound
          Contexts,   \* the context ids that senders choose
          MaxClock,   \* the seconds that pass, a bound
          MaxSends,   \* how many messages are sent, a bound
          PlatformItems, \* how long the platform's list is
          PageCap,    \* the most items on a page of the platform
          MaxPages    \* how many pages are read, a bound

ASSUME QueryAssumption ==
    /\ IsFiniteSet(TaskNames) /\ IsFiniteSet(Generated)
    /\ TaskNames \cap Generated = {}
    /\ MaxClock \in Nat \ {0} /\ MaxSends \in Nat /\ MaxPages \in Nat
    /\ PlatformItems \in Nat /\ PageCap \in Nat \ {0}

VARIABLES
    tasks,   \* Server.tasks: id to its context and last_updated, 0 if it has none
    clock,   \* the time, in the seconds that last_updated is written in
    sends,   \* how many messages were sent
    message, \* the ids in the message that was sent last
    told,   \* history: the id and the context of each task in an answer
    walk,    \* a client that reads a list page by page
    moved    \* history: whether the conversations changed under it

queryVars == <<tasks, clock, sends, message, told, walk, moved>>

Unnamed == "unnamed"
Blank == [task |-> Unnamed, context |-> Unnamed]

\* A context that the server generates is named by its task.
ContextOf(id, context) == IF context = Unnamed THEN id ELSE context

\* applyIDs writes into the caller's own message, and leaves what is there if
\* it is given no other.
ApplyIDs(m, task, context) ==
    [task    |-> IF task = Unnamed THEN m.task ELSE task,
     context |-> IF context = Unnamed THEN m.context ELSE context]

\* Defect: the message's context is used for a task that exists as well.
RenewContext(id, context) == ContextOf(id, context)

\* getOrCreateTask: the context of a task that exists stays.
GetOrCreateContext(id, context) ==
    IF id \in DOMAIN tasks THEN tasks[id].context ELSE ContextOf(id, context)

TasksGet(id) == tasks[id]
TasksList(context) == {id \in DOMAIN tasks : tasks[id].context = context}

\* The conversations: tasks that message/send or /invoke has stamped; a task
\* that only a stream has worked on is none.
Conversations == {id \in DOMAIN tasks : tasks[id].stamp # 0}

\* sort.Slice over a map's values: newest first, equal stamps in any order.
Sortings == {s \in SetToAllKPermutations(Conversations) :
    /\ Len(s) = Cardinality(Conversations)
    /\ \A i, j \in DOMAIN s : i < j => tasks[s[i]].stamp >= tasks[s[j]].stamp}
Ties == \E i, j \in Conversations : i # j /\ tasks[i].stamp = tasks[j].stamp

QueryInit ==
    /\ tasks = <<>>
    /\ clock = 1
    /\ sends = 0
    /\ message = Blank
    /\ told = {}
    /\ walk = [list |-> "none", stage |-> "idle", limit |-> 0, offset |-> 0,
               echo |-> "applied", pages |-> 0, seen |-> <<>>]
    /\ moved = FALSE

-----------------------------------------------------------------------------
Tick ==
    /\ clock < MaxClock /\ walk.list # "platform"
    /\ clock' = clock + 1
    /\ UNCHANGED <<tasks, sends, message, told, walk, moved>>

\* SendTask and StreamTask, with a new message or the last one again.  The
\* server takes the ids of the message, since the transport sends no others,
\* and generates those that are missing.
SendTask == \E m \in {Blank, message}, task \in TaskNames \cup {Unnamed},
                  context \in Contexts \cup {Unnamed}, stream \in BOOLEAN :
    LET sent == ApplyIDs(m, task, context)
    IN  /\ sends < MaxSends /\ walk.list # "platform"
        /\ sends' = sends + 1
        /\ \E id \in IF sent.task = Unnamed THEN Generated \ DOMAIN tasks ELSE {sent.task} :
          LET kept == GetOrCreateContext(id, sent.context)
              stamp == IF ~stream THEN clock
                       ELSE IF id \in DOMAIN tasks THEN tasks[id].stamp ELSE 0
          IN  /\ tasks' = [i \in DOMAIN tasks \cup {id} |->
                    IF i = id THEN [context |-> kept, stamp |-> stamp] ELSE tasks[i]]
              /\ message' = sent
              /\ told' = told \cup {[task |-> id, context |-> kept]}
              /\ moved' = (moved \/ ~stream)
              /\ UNCHANGED <<clock, walk>>

-----------------------------------------------------------------------------
\* handleConversations: the part of the list it answers, or a panic where the
\* parameters leave no slice; the panic ends the request.
Slices(limit, offset) ==
    LET total == Cardinality(Conversations)
        start == Min({offset, total})
        end == Min({start + limit, total})
    IN  start >= 0 /\ end >= start

ConversationPages == {SubSeq(s, walk.offset + 1, Min({walk.offset + walk.limit, Len(s)})) :
                         s \in Sortings}

\* A client begins to read the conversations, or a list of the platform, which
\* the tasks have no part in and which is read alone.  How the platform reports
\* the limit is its own affair: the one it applied, the one it was asked for, or
\* none.
BeginWalk == \E list \in {"conversations", "platform"}, limit \in {-1, 1, 2}, offset \in {-1, 0},
                echo \in {"applied", "asked", "none"} :
    /\ walk.stage = "idle"
    /\ list = "conversations" => echo = "applied"
    /\ list = "platform" => limit > 0 /\ offset = 0 /\ clock = 1 /\ sends = 0
    /\ walk' = [list |-> list, stage |-> "ask", limit |-> limit, offset |-> offset,
                echo |-> echo, pages |-> 0, seen |-> <<>>]
    /\ moved' = FALSE
    /\ UNCHANGED <<tasks, clock, sends, message, told>>

\* The client of /conversations goes on by its limit, up to the total.
ReadConversations ==
    /\ walk.stage = "ask" /\ walk.list = "conversations"
    /\ walk.pages < MaxPages
    /\ \/ /\ Slices(walk.limit, walk.offset)
          /\ \E page \in ConversationPages :
               walk' = [walk EXCEPT !.seen = @ \o page, !.pages = @ + 1,
                   !.offset = @ + walk.limit,
                   !.stage = IF walk.offset + walk.limit < Cardinality(Conversations)
                             THEN "ask" ELSE "done"]
       \/ /\ ~Slices(walk.limit, walk.offset)
          /\ walk' = [walk EXCEPT !.stage = "panicked"]
    /\ UNCHANGED <<tasks, clock, sends, message, told, moved>>

\* PaginatedResponse: HasMore and NextOffset of what the platform reported.
Reported(limit) == CASE walk.echo = "applied" -> Min({limit, PageCap})
                     [] walk.echo = "asked"   -> limit
                     [] walk.echo = "none"    -> 0
HasMore(offset, limit) == offset + limit < PlatformItems
NextOffset(offset, limit) == IF HasMore(offset, limit) THEN offset + limit ELSE -1

\* ListUserAgents, ListUsers, ListAgentPrices and ListUserRuns: one page each.
ReadPlatform ==
    LET last == Min({walk.offset + Min({walk.limit, PageCap}), PlatformItems})
        nextOffset == NextOffset(walk.offset, Reported(walk.limit))
    IN  /\ walk.stage = "ask" /\ walk.list = "platform"
        /\ walk.pages < MaxPages
        /\ walk' = [walk EXCEPT
               !.seen = @ \o [n \in 1..last - walk.offset |-> walk.offset + n],
               !.pages = @ + 1, !.offset = nextOffset,
               !.stage = IF nextOffset = -1 THEN "done" ELSE "ask"]
        /\ UNCHANGED <<tasks, clock, sends, message, told, moved>>

QueryNext == Tick \/ SendTask
             \/ BeginWalk \/ ReadConversations \/ ReadPlatform

QuerySpec == QueryInit /\ [][QueryNext]_queryVars

-----------------------------------------------------------------------------
QueryTypeOK ==
    LET ids == TaskNames \cup Generated
        contexts == Contexts \cup ids
    IN  /\ DOMAIN tasks \subseteq ids
        /\ \A id \in DOMAIN tasks : tasks[id] \in [context : contexts, stamp : 0..MaxClock]
        /\ clock \in 1..MaxClock /\ sends \in 0..MaxSends
        /\ message \in [task : TaskNames \cup {Unnamed}, context : Contexts \cup {Unnamed}]
        /\ told \subseteq [task : ids, context : contexts]
        /\ walk.stage \in {"idle", "ask", "done", "panicked"}
        /\ walk.offset \in Int /\ walk.limit \in Int /\ walk.pages \in 0..MaxPages
        /\ moved \in BOOLEAN

\* Whoever was told of a task finds it afterwards under the id and in the context
\* of that answer, whatever is sent to it under other contexts meanwhile
\* (getOrCreateTask keeps the context of a task that exists).
TasksFound == \A g \in told :
    /\ g.task \in DOMAIN tasks /\ TasksGet(g.task).context = g.context
    /\ g.task \in TasksList(g.context)

\* A client that reads the conversations page by page sees each of them once,
\* unless they change meanwhile or two of them have the same last_updated; and
\* a request fails only for parameters that are negative.
ConversationsComplete == walk.list = "conversations" =>
    /\ walk.stage = "done" /\ ~moved /\ ~Ties =>
         ToSet(walk.seen) = Conversations /\ Len(walk.seen) = Cardinality(Conversations)
    /\ walk.stage = "panicked" => walk.limit < 0 \/ walk.offset < 0

\* A client that follows NextOffset sees each item of the platform's list once
\* if the platform reports the limit it applied; it sees items more than once
\* only if the platform reports none, and then for ever.
PagesComplete == walk.list = "platform" =>
    /\ walk.stage = "done" /\ walk.echo = "applied" =>
         walk.seen = [n \in 1..PlatformItems |-> n]
    /\ Cardinality(ToSet(walk.seen)) < Len(walk.seen) => walk.echo = "none" /\ walk.stage = "ask"

QueriesAgree == TasksFound /\ ConversationsComplete /\ PagesComplete
=============================================================================
