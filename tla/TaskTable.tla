----------------------------- MODULE TaskTable -----------------------------
(***************************************************************************)
(* The bounded task table of an A2A server (server/server.go): the map      *)
(* s.tasks from task ids to task objects, and s.taskOrder, the ids in the   *)
(* order in which they entered the map.  Objects are shared pointers: the   *)
(* table holds their identity, never their contents.                        *)
(***************************************************************************)
EXTENDS Naturals, Sequences

CONSTANTS TaskIDs,   \* the task ids callers may use
          None,      \* nil: an id that is no key of the map
          MaxTasks   \* maxTasks: how many entries the table keeps

\* The empty map, and the ids that are keys of a map.
EmptyTable == [t \in TaskIDs |-> None]
Keys(tasks) == {t \in TaskIDs : tasks[t] # None}

\* A defect putTaskLocked avoids: an id already in the map enters the order again.
AlwaysAppended(tasks, order, id) == Append(order, id)

\* s.taskOrder after the append, before any eviction.
Grown(tasks, order, id) == IF tasks[id] = None THEN Append(order, id) ELSE order

\* How many of the oldest entries the eviction loop drops.
Excess(order) == IF Len(order) > MaxTasks THEN Len(order) - MaxTasks ELSE 0

\* putTaskLocked(id, o) on s.taskOrder and on s.tasks.
PutOrder(tasks, order, id) ==
    LET grown == Grown(tasks, order, id)
    IN  SubSeq(grown, Excess(grown) + 1, Len(grown))

Evicted(tasks, order, id) ==
    LET grown == Grown(tasks, order, id)
    IN  {grown[i] : i \in 1..Excess(grown)}

PutTasks(tasks, order, id, o) ==
    [t \in TaskIDs |-> IF t \in Evicted(tasks, order, id) THEN None
                       ELSE IF t = id THEN o ELSE tasks[t]]
=============================================================================
