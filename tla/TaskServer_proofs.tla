-------------------------- MODULE TaskServer_proofs --------------------------
(***************************************************************************)
(* Proofs about TaskServer for every number of requests and ids, every      *)
(* table size and every handler.                                           *)
(***************************************************************************)
EXTENDS TaskServer, SequenceTheorems, TLAPS

(* The table *)

\* What putTaskLocked does to an order without duplicates that fits the table:
\* nothing for an id that is there, an append for a new one, and when that
\* makes one too many, the oldest goes.
Fits(table, queue) ==
    /\ table \in [TaskIDs -> Requests \cup {None}]
    /\ queue \in Seq(TaskIDs)
    /\ Keys(table) = {queue[i] : i \in 1..Len(queue)}
    /\ \A i, j \in 1..Len(queue) : queue[i] = queue[j] => i = j
    /\ Len(queue) <= MaxTasks

\* The order after the append, and how much of it is excess.
LEMMA GrownOrder ==
    ASSUME NEW table, NEW queue, NEW id \in TaskIDs, Fits(table, queue)
    PROVE  /\ Grown(table, queue, id) \in Seq(TaskIDs)
           /\ table[id] # None => /\ Grown(table, queue, id) = queue
                                  /\ Excess(queue) = 0
           /\ table[id] = None =>
                /\ Len(Grown(table, queue, id)) = Len(queue) + 1
                /\ \A i \in 1..Len(queue) : Grown(table, queue, id)[i] = queue[i]
                /\ Grown(table, queue, id)[Len(queue) + 1] = id
           /\ Excess(Grown(table, queue, id)) \in {0, 1}
           /\ Excess(Grown(table, queue, id)) = 1
                <=> table[id] = None /\ Len(queue) = MaxTasks
<1> DEFINE grown == Grown(table, queue, id)
<1>1. queue \in Seq(TaskIDs) /\ Len(queue) \in Nat /\ Len(queue) <= MaxTasks
  BY LenProperties DEF Fits
<1>2. CASE table[id] # None
  BY <1>1, <1>2, ServerAssumption DEF Grown, Excess
<1>3. CASE table[id] = None
  <2>1. grown = Append(queue, id)
    BY <1>3 DEF Grown
  <2>2. /\ grown \in Seq(TaskIDs)
        /\ Len(grown) = Len(queue) + 1
        /\ \A i \in 1..Len(queue) : grown[i] = queue[i]
        /\ grown[Len(queue) + 1] = id
    BY <1>1, <2>1, AppendProperties
  <2>3. Excess(grown) = IF Len(queue) = MaxTasks THEN 1 ELSE 0
    BY <1>1, <2>2, ServerAssumption DEF Excess
  <2> QED BY <1>3, <2>2, <2>3
<1> QED BY <1>2, <1>3

\* The order after the eviction.
LEMMA PutOrderShape ==
    ASSUME NEW table, NEW queue, NEW id \in TaskIDs, Fits(table, queue)
    PROVE  LET grown == Grown(table, queue, id)
               next  == PutOrder(table, queue, id)
               cut   == Excess(grown)
           IN  /\ next \in Seq(TaskIDs)
               /\ Len(next) = Len(grown) - cut
               /\ \A i \in 1..Len(next) : next[i] = grown[i + cut]
<1> DEFINE grown == Grown(table, queue, id)
           next  == PutOrder(table, queue, id)
           cut   == Excess(grown)
<1>1. /\ grown \in Seq(TaskIDs) /\ Len(grown) \in Nat
      /\ cut \in {0, 1}
      /\ cut = 1 => Len(grown) >= 1
  BY GrownOrder, LenProperties DEF Excess
<1>2. next = SubSeq(grown, cut + 1, Len(grown))
  BY DEF PutOrder
<1>3. \A i \in cut + 1..Len(grown) : grown[i] \in TaskIDs
  BY <1>1, ElementOfSeq
<1> HIDE DEF grown, next, cut
<1>4. cut + 1 \in Int /\ Len(grown) \in Int
  BY <1>1
<1>5. /\ next \in Seq(TaskIDs)
      /\ Len(next) = IF cut + 1 <= Len(grown) THEN Len(grown) - (cut + 1) + 1 ELSE 0
      /\ \A i \in 1..Len(grown) - (cut + 1) + 1 : next[i] = grown[cut + 1 + i - 1]
  BY <1>2, <1>3, <1>4, SubSeqProperties
<1>6. Len(next) = Len(grown) - cut
  BY <1>1, <1>5
<1>7. \A i \in 1..Len(next) : next[i] = grown[i + cut]
  BY <1>1, <1>5, <1>6
<1> QED BY <1>5, <1>6, <1>7 DEF grown, next, cut

\* Who is evicted: nobody, or the head of a full order making room for a new id.
LEMMA EvictedOldest ==
    ASSUME NEW table, NEW queue, NEW id \in TaskIDs, Fits(table, queue)
    PROVE  /\ id \notin Evicted(table, queue, id)
           /\ IF table[id] = None /\ Len(queue) = MaxTasks
              THEN /\ Len(queue) >= 1
                   /\ Evicted(table, queue, id) = {queue[1]}
                   /\ queue[1] \in Keys(table)
              ELSE Evicted(table, queue, id) = {}
<1> DEFINE grown == Grown(table, queue, id)
           cut   == Excess(grown)
<1>1. Evicted(table, queue, id) = {grown[i] : i \in 1..cut}
  BY DEF Evicted
<1>2. cut \in {0, 1} /\ (cut = 1 <=> table[id] = None /\ Len(queue) = MaxTasks)
  BY GrownOrder
<1>3. CASE cut = 0
  <2>1. Evicted(table, queue, id) = {}
    BY <1>1, <1>3
  <2> QED BY <1>2, <1>3, <2>1
<1>4. CASE cut = 1
  <2>1. table[id] = None /\ Len(queue) = MaxTasks /\ Len(queue) >= 1
    BY <1>2, <1>4, ServerAssumption
  <2>2. Evicted(table, queue, id) = {grown[1]}
    BY <1>1, <1>4
  <2>3. grown[1] = queue[1]
    BY <2>1, GrownOrder
  <2>4. queue[1] \in Keys(table) /\ id \notin Keys(table)
    BY <2>1, ServerAssumption DEF Fits, Keys
  <2> QED BY <2>1, <2>2, <2>3, <2>4
<1> QED BY <1>2, <1>3, <1>4

\* putTaskLocked keeps the map and the order in step, and within the bound.
LEMMA PutFits ==
    ASSUME NEW table, NEW queue, NEW id \in TaskIDs, NEW o \in Requests,
           Fits(table, queue)
    PROVE  Fits(PutTasks(table, queue, id, o), PutOrder(table, queue, id))
<1> DEFINE grown == Grown(table, queue, id)
           cut   == Excess(grown)
           gone  == Evicted(table, queue, id)
           nextT == PutTasks(table, queue, id, o)
           nextQ == PutOrder(table, queue, id)
<1>1. /\ queue \in Seq(TaskIDs)
      /\ Len(queue) \in Nat
      /\ Len(queue) <= MaxTasks
      /\ Keys(table) = {queue[i] : i \in 1..Len(queue)}
      /\ \A i, j \in 1..Len(queue) : queue[i] = queue[j] => i = j
      /\ table \in [TaskIDs -> Requests \cup {None}]
      /\ None \notin Requests
      /\ MaxTasks \in Nat \ {0}
  BY LenProperties, ServerAssumption DEF Fits
<1>2. /\ nextT \in [TaskIDs -> Requests \cup {None}]
      /\ Keys(nextT) = (Keys(table) \cup {id}) \ gone
  <2>1. nextT = [t \in TaskIDs |-> IF t \in gone THEN None
                                   ELSE IF t = id THEN o ELSE table[t]]
    BY DEF PutTasks
  <2>2. id \notin gone
    BY EvictedOldest
  <2> HIDE DEF nextT, gone
  <2>3. nextT \in [TaskIDs -> Requests \cup {None}]
    BY <1>1, <2>1
  <2>4. ASSUME NEW t
        PROVE  t \in Keys(nextT) <=> t \in (Keys(table) \cup {id}) \ gone
    BY <1>1, <2>1, <2>2 DEF Keys
  <2> QED BY <2>3, <2>4
<1>3. /\ nextQ \in Seq(TaskIDs)
      /\ Len(nextQ) = Len(grown) - cut
      /\ \A i \in 1..Len(nextQ) : nextQ[i] = grown[i + cut]
  BY PutOrderShape
<1>4. ASSUME table[id] # None
      PROVE  Fits(nextT, nextQ)
  <2>1. grown = queue /\ cut = 0 /\ gone = {} /\ id \in Keys(table)
    BY <1>4, GrownOrder, EvictedOldest DEF Keys
  <2>2. Len(nextQ) = Len(queue) /\ \A i \in 1..Len(nextQ) : nextQ[i] = queue[i]
    BY <1>1, <1>3, <2>1
  <2> HIDE DEF nextT, nextQ, gone, grown, cut
  <2>3. Keys(nextT) = {nextQ[i] : i \in 1..Len(nextQ)}
    BY <1>1, <1>2, <2>1, <2>2
  <2> QED BY <1>1, <1>2, <1>3, <2>2, <2>3 DEF Fits
<1>5. ASSUME table[id] = None, Len(queue) # MaxTasks
      PROVE  Fits(nextT, nextQ)
  <2>1. /\ cut = 0 /\ gone = {}
        /\ Len(grown) = Len(queue) + 1
        /\ \A i \in 1..Len(queue) : grown[i] = queue[i]
        /\ grown[Len(queue) + 1] = id
    BY <1>5, GrownOrder, EvictedOldest
  <2>2. /\ Len(nextQ) = Len(queue) + 1
        /\ \A i \in 1..Len(queue) : nextQ[i] = queue[i]
        /\ nextQ[Len(queue) + 1] = id
    BY <1>1, <1>3, <2>1
  <2>3. id \notin Keys(table)
    BY <1>5 DEF Keys
  <2> HIDE DEF nextT, nextQ, gone, grown, cut
  <2>4. Keys(nextT) = {nextQ[i] : i \in 1..Len(nextQ)}
    BY <1>1, <1>2, <2>1, <2>2
  <2>5. \A i, j \in 1..Len(nextQ) : nextQ[i] = nextQ[j] => i = j
    BY <1>1, <2>2, <2>3
  <2> QED BY <1>1, <1>2, <1>3, <1>5, <2>2, <2>4, <2>5 DEF Fits
<1>6. ASSUME table[id] = None, Len(queue) = MaxTasks
      PROVE  Fits(nextT, nextQ)
  <2>1. /\ cut = 1 /\ gone = {queue[1]}
        /\ Len(grown) = Len(queue) + 1
        /\ \A i \in 1..Len(queue) : grown[i] = queue[i]
        /\ grown[Len(queue) + 1] = id
    BY <1>6, GrownOrder, EvictedOldest
  <2>2. /\ Len(nextQ) = Len(queue)
        /\ \A i \in 1..Len(queue) - 1 : nextQ[i] = queue[i + 1]
        /\ nextQ[Len(queue)] = id
    BY <1>1, <1>3, <1>6, <2>1
  <2>3. id \notin Keys(table)
    BY <1>6 DEF Keys
  <2> HIDE DEF nextT, nextQ, gone, grown, cut
  <2>4. Keys(nextT) = {nextQ[i] : i \in 1..Len(nextQ)}
    <3>1. ASSUME NEW t \in Keys(nextT)
          PROVE  \E i \in 1..Len(nextQ) : t = nextQ[i]
      <4>1. CASE t = id
        BY <1>1, <1>6, <2>2, <4>1
      <4>2. CASE t # id
        <5>1. PICK i \in 1..Len(queue) : t = queue[i]
          BY <1>1, <1>2, <3>1, <4>2
        <5>2. i # 1
          BY <1>2, <2>1, <3>1, <5>1
        <5>3. i - 1 \in 1..Len(queue) - 1 /\ nextQ[i - 1] = t
          BY <1>1, <2>2, <5>1, <5>2
        <5> QED BY <1>1, <2>2, <5>3
      <4> QED BY <4>1, <4>2
    <3>2. ASSUME NEW i \in 1..Len(nextQ)
          PROVE  nextQ[i] \in Keys(nextT)
      <4>1. CASE i = Len(queue)
        BY <1>1, <1>2, <2>1, <2>2, <2>3, <1>6, <4>1
      <4>2. CASE i # Len(queue)
        <5>1. i \in 1..Len(queue) - 1 /\ i + 1 \in 1..Len(queue) /\ 1 \in 1..Len(queue)
          BY <1>1, <2>2, <3>2, <4>2
        <5>2. queue[i + 1] # queue[1]
          BY <1>1, <5>1
        <5> QED BY <1>1, <1>2, <2>1, <2>2, <5>1, <5>2
      <4> QED BY <4>1, <4>2
    <3> QED BY <3>1, <3>2
  <2>5. \A i, j \in 1..Len(nextQ) : nextQ[i] = nextQ[j] => i = j
    <3>1. ASSUME NEW i \in 1..Len(queue) - 1
          PROVE  nextQ[i] # id
      BY <1>1, <2>2, <2>3
    <3>2. ASSUME NEW i \in 1..Len(queue) - 1, NEW j \in 1..Len(queue) - 1,
                 nextQ[i] = nextQ[j]
          PROVE  i = j
      BY <1>1, <2>2, <3>2
    <3> QED BY <1>1, <2>2, <3>1, <3>2
  <2> QED BY <1>1, <1>2, <1>3, <1>6, <2>2, <2>4, <2>5 DEF Fits
<1> QED BY <1>4, <1>5, <1>6

-----------------------------------------------------------------------------
(* Type correctness, and the consistency of the table *)

\* The two are one induction: that the order is a sequence of ids after an
\* eviction needs the bound on its length.
TableInv == TypeOK /\ TableConsistent

LEMMA TableFits == TableInv => Fits(tasks, order)
BY DEF TableInv, TypeOK, TableConsistent, Fits

\* putTaskLocked, whoever calls it, keeps the types and the consistency.
LEMMA PutTaskLockedInv ==
    ASSUME TableInv, NEW id \in TaskIDs, NEW o \in Requests, PutTaskLocked(id, o)
    PROVE  /\ tasks' \in [TaskIDs -> Requests \cup {None}]
           /\ order' \in Seq(TaskIDs)
           /\ evictedIds' \in SUBSET TaskIDs
           /\ TableConsistent'
<1>1. Fits(tasks, order)
  BY TableFits
<1>2. Fits(tasks', order')
  BY <1>1, PutFits DEF PutTaskLocked
<1>3. Evicted(tasks, order, id) \subseteq TaskIDs
  BY <1>1, EvictedOldest DEF Keys
<1>4. evictedIds' \in SUBSET TaskIDs
  BY <1>3 DEF PutTaskLocked, TableInv, TypeOK
<1> QED BY <1>2, <1>4 DEF Fits, TableConsistent, Keys

\* getOrCreateTask hands back a task and keeps the same invariant parts.
LEMMA GetOrCreateTaskInv ==
    ASSUME TableInv, NEW r \in Requests, NEW t \in TaskIDs, GetOrCreateTask(r, t)
    PROVE  /\ tasks' \in [TaskIDs -> Requests \cup {None}]
           /\ order' \in Seq(TaskIDs)
           /\ evictedIds' \in SUBSET TaskIDs
           /\ TableConsistent'
           /\ status' \in [Requests -> TaskStates \cup {"none"}]
           /\ note' \in [Requests -> BOOLEAN]
           /\ record' \in [Requests -> SUBSET Items]
           /\ obj' \in [Requests -> Requests \cup {None}]
           /\ overlapped' \in SUBSET Requests
           /\ obj'[r] \in Requests
           /\ \A q \in Requests : q # r => obj'[q] = obj[q]
<1> <<"user", r>> \in Items
  BY DEF Items
<1> USE DEF TableInv, TypeOK
<1>1. CASE tasks[t] # None
  <2>1. tasks[t] \in Requests
    BY <1>1
  <2>2. ResumeTask(r, tasks[t])
    BY <1>1 DEF GetOrCreateTask
  <2>3. overlapped' \in SUBSET Requests
    BY <2>1, <2>2 DEF ResumeTask
  <2>4. TableConsistent'
    BY <2>2 DEF ResumeTask, TableConsistent, Keys
  <2>5. record' \in [Requests -> SUBSET Items]
    BY <2>1, <2>2 DEF ResumeTask
  <2> QED BY <2>1, <2>2, <2>3, <2>4, <2>5 DEF ResumeTask
<1>2. CASE tasks[t] = None
  <2>1. CreateTask(r, t)
    BY <1>2 DEF GetOrCreateTask
  <2>2. PutTaskLocked(t, r)
    BY <2>1 DEF CreateTask
  <2> HIDE DEF TableInv
  <2>3. /\ tasks' \in [TaskIDs -> Requests \cup {None}]
        /\ order' \in Seq(TaskIDs)
        /\ evictedIds' \in SUBSET TaskIDs
        /\ TableConsistent'
    BY <2>2, PutTaskLockedInv
  <2> QED BY <2>1, <2>3 DEF CreateTask, TaskStates, TableInv
<1> QED BY <1>1, <1>2

LEMMA TableInvInit == Init => TableInv
<1> SUFFICES ASSUME Init PROVE TableInv
  OBVIOUS
<1>1. Keys(tasks) = {} /\ Len(order) = 0
  BY DEF Init, Keys, EmptyTable
<1>2. TableConsistent
  BY <1>1, ServerAssumption DEF TableConsistent
<1>3. order \in Seq(TaskIDs) /\ emits \in [Requests -> 0..MaxEmits]
  BY ServerAssumption, EmptySeq DEF Init
<1>4. /\ tasks \in [TaskIDs -> Requests \cup {None}]
      /\ status \in [Requests -> TaskStates \cup {"none"}]
      /\ note \in [Requests -> BOOLEAN]
      /\ record \in [Requests -> SUBSET Items]
  BY DEF Init, EmptyTable, Objects
<1>5. /\ pc \in [Requests -> PCs]
      /\ kind \in [Requests -> Kinds]
      /\ tid \in [Requests -> TaskIDs \cup {None}]
      /\ obj \in [Requests -> Requests \cup {None}]
      /\ local \in [Requests -> SUBSET Items]
      /\ final \in [Requests -> TaskStates \cup {"none"}]
      /\ reply \in [Requests -> TaskStates \cup {"none"}]
      /\ overlapped \in SUBSET Requests
      /\ evictedIds \in SUBSET TaskIDs
      /\ \A r \in Requests : pc[r] = "idle"
  BY DEF Init, PCs, Kinds
<1>6. TypeOK
  BY <1>3, <1>4, <1>5 DEF TypeOK
<1> QED BY <1>2, <1>6 DEF TableInv

LEMMA TableInvNext == TableInv /\ [Next]_vars => TableInv'
<1> SUFFICES ASSUME TableInv, [Next]_vars PROVE TableInv'
  OBVIOUS
<1> USE DEF TableInv
<1>1. ASSUME NEW r \in Requests, Receive(r)
      PROVE  TableInv'
  <2>1. PICK t \in TaskIDs, k \in Kinds :
            /\ kind' = [kind EXCEPT ![r] = k]
            /\ tid' = [tid EXCEPT ![r] = t]
            /\ GetOrCreateTask(r, t)
            /\ pc' = [pc EXCEPT ![r] = IF k = "invokeStream" THEN "running" ELSE "begun"]
            /\ UNCHANGED <<local, final, emits, reply>>
    BY <1>1 DEF Receive
  <2>2. /\ pc' \in [Requests -> PCs]
        /\ kind' \in [Requests -> Kinds]
        /\ tid' \in [Requests -> TaskIDs \cup {None}]
    BY <2>1 DEF TypeOK, PCs, Active
  <2>3. \A q \in Requests : pc'[q] # "idle" => obj'[q] # None /\ tid'[q] # None
    <3>1. obj'[r] # None /\ tid'[r] = t /\ t # None
      BY <2>1, GetOrCreateTaskInv, ServerAssumption DEF TypeOK
    <3>2. ASSUME NEW q \in Requests, q # r
          PROVE  obj'[q] = obj[q] /\ tid'[q] = tid[q] /\ pc'[q] = pc[q]
      BY <2>1, <3>2, GetOrCreateTaskInv DEF TypeOK
    <3> QED BY <3>1, <3>2 DEF TypeOK
  <2> QED BY <2>1, <2>2, <2>3, GetOrCreateTaskInv DEF TypeOK
<1>2. ASSUME NEW r \in Requests, Step(r), pc[r] # "idle"
      PROVE  TableInv'
  <2> DEFINE o == obj[r]
  <2>1. o \in Requests /\ tid[r] \in TaskIDs
    BY <1>2 DEF TypeOK
  <2>2. UNCHANGED tableVars => TableConsistent'
    BY DEF tableVars, TableConsistent, Keys
  <2>3. CASE MarkWorking(r)
    BY <2>1, <2>2, <2>3 DEF MarkWorking, TypeOK, TaskStates, PCs, Active, tableVars, requestVars
  <2>4. CASE RefuseStream(r)
    BY <2>1, <2>2, <2>4 DEF RefuseStream, TypeOK, PCs, tableVars, requestVars, objectVars
  <2>5. CASE Snapshot(r)
    BY <2>1, <2>2, <2>5 DEF Snapshot, TypeOK, PCs, Active, tableVars, requestVars, objectVars
  <2>6. CASE Emit(r)
    <3>1. emits' \in [Requests -> 0..MaxEmits]
      BY <2>6, ServerAssumption DEF Emit, TypeOK
    <3>2. /\ status' \in [Requests -> TaskStates \cup {"none"}]
          /\ note' \in [Requests -> BOOLEAN]
          /\ local' \in [Requests -> SUBSET Items]
      <4>1. CASE UNCHANGED <<status, note, local>>
        BY <4>1 DEF TypeOK
      <4>2. CASE /\ local' = [local EXCEPT ![r] = @ \cup {<<"agent", r>>}]
                 /\ UNCHANGED <<status, note>>
        BY <4>2 DEF TypeOK, Items
      <4>3. CASE /\ \E state \in HandlerStates :
                       /\ status' = [status EXCEPT ![o] = state]
                       /\ note' = [note EXCEPT ![o] = (state = "failed")]
                 /\ UNCHANGED local
        <5>1. PICK state \in HandlerStates :
                 /\ status' = [status EXCEPT ![o] = state]
                 /\ note' = [note EXCEPT ![o] = (state = "failed")]
          BY <4>3
        <5>2. state \in TaskStates
          BY ServerAssumption
        <5>3. status' \in [Requests -> TaskStates \cup {"none"}]
          BY <2>1, <5>1, <5>2 DEF TypeOK
        <5>4. note' \in [Requests -> BOOLEAN]
          BY <2>1, <5>1 DEF TypeOK
        <5> QED BY <4>3, <5>3, <5>4 DEF TypeOK
      <4> QED BY <2>6, <4>1, <4>2, <4>3 DEF Emit
    <3> QED BY <2>2, <2>6, <3>1, <3>2 DEF Emit, TypeOK, tableVars, requestVars
  <2>7. CASE Panic(r)
    BY <2>1, <2>2, <2>7 DEF Panic, TypeOK, TaskStates, PCs, Active, tableVars, requestVars
  <2>8. CASE Close(r)
    BY <2>1, <2>2, <2>8, ServerAssumption DEF Close, TypeOK, PCs, Active, tableVars, requestVars, objectVars
  <2>9. CASE ReadFinalState(r)
    <3>1. final' \in [Requests -> TaskStates \cup {"none"}]
      BY <2>1, <2>9 DEF ReadFinalState, FinalState, TypeOK, TaskStates
    <3> QED BY <2>2, <2>9, <3>1 DEF ReadFinalState, TypeOK, PCs, Active, tableVars, requestVars, objectVars
  <2>10. CASE WriteBack(r)
    BY <2>1, <2>2, <2>10 DEF WriteBack, TypeOK, PCs, Stored, tableVars, requestVars
  <2>11. CASE Store(r)
    <3>1. PutTaskLocked(tid[r], o)
      BY <2>11 DEF Store
    <3>2. /\ tasks' \in [TaskIDs -> Requests \cup {None}]
          /\ order' \in Seq(TaskIDs)
          /\ evictedIds' \in SUBSET TaskIDs
          /\ TableConsistent'
      BY <2>1, <3>1, PutTaskLockedInv
    <3> QED BY <2>1, <2>11, <3>2 DEF Store, TypeOK, PCs, Stored, requestVars, objectVars
  <2>12. CASE Reply(r)
    BY <2>1, <2>2, <2>12 DEF Reply, TypeOK, PCs, tableVars, requestVars, objectVars
  <2> QED BY <1>2, <2>3, <2>4, <2>5, <2>6, <2>7, <2>8, <2>9, <2>10, <2>11, <2>12 DEF Step
<1>3. ASSUME NEW r \in Requests, Step(r)
      PROVE  pc[r] # "idle"
  BY <1>3 DEF Step, MarkWorking, RefuseStream, Snapshot, Emit, Panic, Close,
              ReadFinalState, WriteBack, Store, Reply
<1>4. ASSUME NEW t \in TaskIDs, HandleTasksCancel(t)
      PROVE  TableInv'
  <2>1. tasks[t] \in Requests
    BY <1>4 DEF HandleTasksCancel, TypeOK
  <2>2. TableConsistent'
    BY <1>4 DEF HandleTasksCancel, tableVars, TableConsistent, Keys
  <2> QED BY <1>4, <2>1, <2>2 DEF HandleTasksCancel, TypeOK, TaskStates, tableVars, requestVars
<1>5. CASE UNCHANGED vars
  BY <1>5 DEF vars, TypeOK, TableConsistent, Keys
<1> QED BY <1>1, <1>2, <1>3, <1>4, <1>5 DEF Next

\* Every variable keeps its type, and every goroutine past getOrCreateTask
\* holds an allocated task.
THEOREM TypeCorrect == Spec => []TypeOK
<1>1. TableInv => TypeOK
  BY DEF TableInv
<1> QED BY <1>1, TableInvInit, TableInvNext, PTL DEF Spec

\* The map and the insertion order of the task table never drift apart, and
\* the table never exceeds MaxTasks entries.
THEOREM TableStaysConsistent == Spec => []TableConsistent
<1>1. TableInv => TableConsistent
  BY DEF TableInv
<1> QED BY <1>1, TableInvInit, TableInvNext, PTL DEF Spec

\* An entry leaves the table only from its front, and only for a new id.
THEOREM EvictionIsFifo == Spec => FifoEviction
<1> DEFINE Fifo == \A t \in Keys(tasks) : tasks'[t] = None
                     => /\ Len(order) = MaxTasks
                        /\ t = Head(order)
                        /\ \E u \in TaskIDs \ Keys(tasks) : tasks'[u] # None
<1>1. ASSUME TableInv, NEW id \in TaskIDs, NEW o \in Requests, PutTaskLocked(id, o)
      PROVE  Fifo
  <2>1. Fits(tasks, order)
    BY <1>1, TableFits
  <2> SUFFICES ASSUME NEW t \in Keys(tasks), tasks'[t] = None
               PROVE  /\ Len(order) = MaxTasks
                      /\ t = Head(order)
                      /\ \E u \in TaskIDs \ Keys(tasks) : tasks'[u] # None
    OBVIOUS
  <2>2. t \in Evicted(tasks, order, id)
    BY <1>1, ServerAssumption DEF PutTaskLocked, PutTasks, Keys
  <2>3. /\ tasks[id] = None /\ Len(order) = MaxTasks /\ t = order[1] /\ Len(order) >= 1
        /\ id \notin Evicted(tasks, order, id)
    BY <2>1, <2>2, EvictedOldest
  <2>4. t = Head(order)
    BY <2>1, <2>3 DEF Fits
  <2>5. id \in TaskIDs \ Keys(tasks) /\ tasks'[id] # None
    BY <1>1, <2>3, ServerAssumption DEF PutTaskLocked, PutTasks, Keys
  <2> QED BY <2>3, <2>4, <2>5
<1>2. ASSUME UNCHANGED tasks
      PROVE  Fifo
  BY <1>2 DEF Keys
<1>3. TableInv /\ [Next]_vars => Fifo
  <2> SUFFICES ASSUME TableInv, [Next]_vars PROVE Fifo
    OBVIOUS
  <2> HIDE DEF Fifo
  <2>1. ASSUME NEW r \in Requests, Receive(r)
        PROVE  Fifo
    <3>1. PICK t \in TaskIDs : GetOrCreateTask(r, t)
      BY <2>1 DEF Receive
    <3>2. UNCHANGED tasks \/ PutTaskLocked(t, r)
      BY <3>1 DEF GetOrCreateTask, ResumeTask, CreateTask
    <3> QED BY <1>1, <1>2, <3>2
  <2>2. ASSUME NEW r \in Requests, Step(r)
        PROVE  Fifo
    <3>1. CASE Store(r)
      <4>1. tid[r] \in TaskIDs /\ obj[r] \in Requests
        BY <3>1 DEF Store, TableInv, TypeOK
      <4> QED BY <1>1, <3>1, <4>1 DEF Store
    <3>2. CASE ~Store(r)
      <4>1. UNCHANGED tasks
        BY <2>2, <3>2 DEF Step, MarkWorking, RefuseStream, Snapshot, Emit, Panic,
                          Close, ReadFinalState, WriteBack, Reply, tableVars
      <4> QED BY <1>2, <4>1
    <3> QED BY <3>1, <3>2
  <2>3. ASSUME NEW t \in TaskIDs, HandleTasksCancel(t)
        PROVE  Fifo
    BY <1>2, <2>3 DEF HandleTasksCancel, tableVars
  <2>4. CASE UNCHANGED vars
    BY <1>2, <2>4 DEF vars
  <2> QED BY <2>1, <2>2, <2>3, <2>4 DEF Next
<1> QED BY <1>3, TableInvInit, TableInvNext, PTL DEF Spec, FifoEviction

-----------------------------------------------------------------------------
(* One task per id *)

LEMMA OneTaskNext == TableInv /\ OneTaskUntilEvicted /\ [Next]_vars => OneTaskUntilEvicted'
<1> SUFFICES ASSUME TableInv, OneTaskUntilEvicted, [Next]_vars
             PROVE  OneTaskUntilEvicted'
  OBVIOUS
<1> USE DEF OneTaskUntilEvicted
\* A put keeps the claim for the goroutines that are past getOrCreateTask.
<1>1. ASSUME NEW id \in TaskIDs, NEW o \in Requests, PutTaskLocked(id, o),
             NEW q \in Requests, pc[q] # "idle", tid[q] \notin evictedIds',
             tid[q] = id => obj[q] = o
      PROVE  tasks'[tid[q]] = obj[q]
  <2>1. tid[q] \in TaskIDs
    BY <1>1 DEF TableInv, TypeOK
  <2>2. tid[q] \notin Evicted(tasks, order, id) /\ tid[q] \notin evictedIds
    BY <1>1 DEF PutTaskLocked
  <2>3. tasks'[tid[q]] = IF tid[q] = id THEN o ELSE tasks[tid[q]]
    BY <1>1, <2>1, <2>2 DEF PutTaskLocked, PutTasks
  <2> QED BY <1>1, <2>2, <2>3
<1>2. ASSUME NEW r \in Requests, Receive(r)
      PROVE  OneTaskUntilEvicted'
  <2>1. PICK t \in TaskIDs, k \in Kinds :
            /\ pc[r] = "idle"
            /\ tid' = [tid EXCEPT ![r] = t]
            /\ GetOrCreateTask(r, t)
            /\ pc' = [pc EXCEPT ![r] = IF k = "invokeStream" THEN "running" ELSE "begun"]
    BY <1>2 DEF Receive
  <2>2. /\ tid'[r] = t
        /\ \A q \in Requests : q # r => /\ tid'[q] = tid[q] /\ pc'[q] = pc[q]
                                        /\ obj'[q] = obj[q]
    BY <2>1, GetOrCreateTaskInv DEF TableInv, TypeOK
  <2>3. CASE tasks[t] # None
    <3>1. ResumeTask(r, tasks[t])
      BY <2>1, <2>3 DEF GetOrCreateTask
    <3>2. obj'[r] = tasks[t]
      BY <3>1 DEF ResumeTask, TableInv, TypeOK
    <3> QED BY <2>2, <3>1, <3>2 DEF ResumeTask
  <2>4. CASE tasks[t] = None
    <3>1. /\ PutTaskLocked(t, r)
          /\ obj' = [obj EXCEPT ![r] = r]
      BY <2>1, <2>4 DEF GetOrCreateTask, CreateTask
    <3>2. obj'[r] = r /\ tasks'[t] = r
      <4>1. t \notin Evicted(tasks, order, t)
        BY TableFits, EvictedOldest
      <4> QED BY <3>1, <4>1 DEF PutTaskLocked, PutTasks, TableInv, TypeOK
    <3>3. ASSUME NEW q \in Requests, q # r, pc'[q] # "idle", tid'[q] \notin evictedIds'
          PROVE  tasks'[tid'[q]] = obj'[q]
      <4>1. pc[q] # "idle" /\ tid[q] \notin evictedIds' /\ tid[q] \notin evictedIds
        BY <2>2, <3>1, <3>3 DEF PutTaskLocked
      <4>2. tid[q] # t
        BY <2>4, <4>1 DEF TableInv, TypeOK
      <4> QED BY <1>1, <2>2, <3>1, <3>3, <4>1, <4>2
    <3> QED BY <2>2, <3>2, <3>3
  <2> QED BY <2>3, <2>4
<1>3. ASSUME NEW r \in Requests, Step(r)
      PROVE  OneTaskUntilEvicted'
  <2>1. /\ UNCHANGED <<tid, obj>>
        /\ \A q \in Requests : pc'[q] # "idle" => pc[q] # "idle"
    BY <1>3 DEF Step, MarkWorking, RefuseStream, Snapshot, Emit, Panic, Close,
        ReadFinalState, WriteBack, Store, Reply, requestVars, TableInv, TypeOK
  <2>2. CASE Store(r)
    <3>1. /\ tid[r] \in TaskIDs /\ obj[r] \in Requests /\ pc[r] # "idle"
          /\ PutTaskLocked(tid[r], obj[r])
      BY <2>2 DEF Store, TableInv, TypeOK
    <3>2. ASSUME NEW q \in Requests, pc'[q] # "idle", tid'[q] \notin evictedIds'
          PROVE  tasks'[tid'[q]] = obj'[q]
      <4>1. pc[q] # "idle" /\ tid[q] \notin evictedIds' /\ tid[q] \notin evictedIds
        BY <2>1, <3>1, <3>2 DEF PutTaskLocked
      <4>2. tid[q] = tid[r] => obj[q] = obj[r]
        BY <3>1, <4>1
      <4> QED BY <1>1, <2>1, <3>1, <4>1, <4>2
    <3> QED BY <3>2
  <2>3. CASE ~Store(r)
    <3>1. UNCHANGED <<tasks, evictedIds>>
      BY <1>3, <2>3 DEF Step, MarkWorking, RefuseStream, Snapshot, Emit, Panic,
                        Close, ReadFinalState, WriteBack, Reply, tableVars
    <3> QED BY <2>1, <3>1
  <2> QED BY <2>2, <2>3
<1>4. ASSUME NEW t \in TaskIDs, HandleTasksCancel(t)
      PROVE  OneTaskUntilEvicted'
  BY <1>4 DEF HandleTasksCancel, tableVars, requestVars
<1>5. CASE UNCHANGED vars
  BY <1>5 DEF vars
<1> QED BY <1>2, <1>3, <1>4, <1>5 DEF Next

\* Requests that name the same id share one task until that id is evicted.
THEOREM OneTaskPerId == Spec => []OneTaskUntilEvicted
<1>1. Init => OneTaskUntilEvicted
  BY DEF Init, OneTaskUntilEvicted
<1> QED BY <1>1, TableInvInit, TableInvNext, OneTaskNext, PTL DEF Spec

-----------------------------------------------------------------------------
(* What a run leaves behind: the settled status and the kept record *)

\* A task is held, stored or set only after the request that allocates it
\* arrived, and a request that has not arrived holds none.
Allocated ==
    /\ \A r \in Requests : obj[r] # None => pc[obj[r]] # "idle"
    /\ \A t \in TaskIDs : tasks[t] # None => pc[tasks[t]] # "idle"
    /\ \A r \in Requests : pc[r] = "idle" =>
            obj[r] = None /\ status[r] = "none" /\ reply[r] = "none"

\* /invoke/stream goes from getOrCreateTask to its handler and from there out.
StreamOnly ==
    \A r \in Requests : kind[r] = "invokeStream" =>
        pc[r] \in {"idle", "running", "done", "dead"}

\* On a task that never saw an overlap, at most one request works.
Alone ==
    \A o \in Requests \ overlapped : \A q, r \in Requests :
        Works(q, o) /\ Works(r, o) => q = r

\* There, the slices of the run hold all that the task records, until it
\* writes them back; what it read as final is still so; and what it wrote
\* stays until its reply.
RunCovers ==
    \A r \in Requests : obj[r] \notin overlapped /\ Works(r, obj[r]) =>
        /\ pc[r] \in {"running", "closed", "final"} =>
                record[obj[r]] \subseteq local[r]
        /\ pc[r] = "final" /\ final[r] = "failed" => status[obj[r]] = "failed"
        /\ pc[r] \in Stored => IsTerminal(status[obj[r]])

FinalIsTerminal == \A r \in Requests : pc[r] = "final" => IsTerminal(final[r])

RunInv ==
    /\ Allocated
    /\ StreamOnly
    /\ Alone
    /\ RunCovers
    /\ FinalIsTerminal
    /\ UnsettledIsInProgress
    /\ RecordKept
    /\ FailureExplained
    /\ ReplySettled

\* What no step of a received request changes.
LEMMA StepFrame ==
    ASSUME TableInv, StreamOnly, NEW r \in Requests, Step(r)
    PROVE  /\ obj[r] \in Requests /\ pc[r] \in Active \cup Stored
           /\ UNCHANGED <<kind, tid, obj, overlapped>>
           /\ \A q \in Requests : q # r => /\ pc'[q] = pc[q]
                                          /\ local'[q] = local[q]
                                          /\ final'[q] = final[q]
                                          /\ reply'[q] = reply[q]
           /\ \A o \in Requests : o # obj[r] => /\ status'[o] = status[o]
                                               /\ note'[o] = note[o]
                                               /\ record'[o] = record[o]
           /\ kind[r] = "invokeStream" =>
                /\ UNCHANGED <<tasks, status, note, record>>
                /\ pc'[r] \in {"running", "done", "dead"}
<1>1. obj[r] \in Requests /\ pc[r] \in Active \cup Stored
  BY DEF Step, MarkWorking, RefuseStream, Snapshot, Emit, Panic, Close, ReadFinalState,
         WriteBack, Store, Reply, Active, Stored, TableInv, TypeOK
<1> USE <1>1 DEF TableInv, TypeOK, Active, Stored, tableVars, objectVars, requestVars
<1>2. kind[r] = "invokeStream" => pc[r] = "running"
  BY DEF StreamOnly
<1>3. CASE MarkWorking(r)
  BY <1>2, <1>3 DEF MarkWorking
<1>4. CASE RefuseStream(r)
  BY <1>2, <1>4 DEF RefuseStream
<1>5. CASE Snapshot(r)
  BY <1>2, <1>5 DEF Snapshot
<1>6. CASE Emit(r)
  BY <1>2, <1>6 DEF Emit
<1>7. CASE Panic(r)
  BY <1>2, <1>7 DEF Panic
<1>8. CASE Close(r)
  BY <1>2, <1>8 DEF Close
<1>9. CASE ReadFinalState(r)
  BY <1>2, <1>9 DEF ReadFinalState
<1>10. CASE WriteBack(r)
  BY <1>2, <1>10 DEF WriteBack
<1>11. CASE Store(r)
  BY <1>2, <1>11 DEF Store
<1>12. CASE Reply(r)
  BY <1>2, <1>12 DEF Reply
<1> QED BY <1>3, <1>4, <1>5, <1>6, <1>7, <1>8, <1>9, <1>10, <1>11, <1>12 DEF Step

\* Where a step leads: the program points it joins, and what it does to the
\* task the request works on.
LEMMA StepEffect ==
    ASSUME TableInv, StreamOnly, FinalIsTerminal, NEW r \in Requests, Step(r),
           kind[r] # "invokeStream"
    PROVE  \/ /\ pc[r] \in Active /\ pc'[r] \in Active
              /\ record' = record /\ reply' = reply /\ tasks' = tasks
           \/ /\ WriteBack(r) /\ pc'[r] = "written"
              /\ IsTerminal(status'[obj[r]])
              /\ record'[obj[r]] = local[r] /\ local' = local
              /\ reply' = reply /\ tasks' = tasks
           \/ /\ pc[r] \in Stored /\ pc'[r] = "stored" /\ local' = local
              /\ status' = status /\ note' = note /\ record' = record /\ reply' = reply
           \/ /\ pc[r] \in Stored /\ pc'[r] = "done"
              /\ status' = status /\ note' = note /\ record' = record /\ tasks' = tasks
              /\ reply' = [reply EXCEPT ![r] = status[obj[r]]]
           \/ /\ kind[r] = "stream" /\ pc[r] \in Active /\ pc'[r] = "dead"
              /\ status' = status /\ note' = note /\ record' = record
              /\ reply' = reply /\ tasks' = tasks
<1>1. obj[r] \in Requests /\ pc[r] \in Active \cup Stored
  BY StepFrame
<1> USE <1>1 DEF TableInv, TypeOK, Active, Stored, tableVars, objectVars, requestVars
<1>3. CASE MarkWorking(r)
  BY <1>3 DEF MarkWorking
<1>4. CASE RefuseStream(r)
  BY <1>4 DEF RefuseStream
<1>5. CASE Snapshot(r)
  BY <1>5 DEF Snapshot
<1>6. CASE Emit(r)
  BY <1>6 DEF Emit
<1>7. CASE Panic(r)
  <2>1. kind[r] \in {"send", "stream"}
    BY DEF Kinds
  <2> QED BY <1>7, <2>1 DEF Panic
<1>8. CASE Close(r)
  BY <1>8 DEF Close
<1>9. CASE ReadFinalState(r)
  BY <1>9 DEF ReadFinalState
<1>10. CASE WriteBack(r)
  <2>1. IsTerminal(status'[obj[r]])
    BY <1>10 DEF WriteBack, KeepsStatus, FinalIsTerminal, IsTerminal
  <2> QED BY <1>10, <2>1 DEF WriteBack
<1>11. CASE Store(r)
  BY <1>11 DEF Store
<1>12. CASE Reply(r)
  BY <1>12 DEF Reply
<1> QED BY <1>3, <1>4, <1>5, <1>6, <1>7, <1>8, <1>9, <1>10, <1>11, <1>12 DEF Step

\* The settled status survives the steps of a received request.
LEMMA StepSettled ==
    ASSUME TableInv, RunInv, NEW r \in Requests, Step(r)
    PROVE  UnsettledIsInProgress'
<1> USE DEF RunInv
<1>1. /\ obj[r] \in Requests /\ pc[r] \in Active \cup Stored
      /\ UNCHANGED <<kind, obj>>
      /\ \A q \in Requests : q # r => pc'[q] = pc[q]
      /\ \A o \in Requests : o # obj[r] => status'[o] = status[o]
  BY StepFrame
<1> SUFFICES ASSUME NEW o \in Requests, status'[o] # "none", ~IsTerminal(status'[o])
             PROVE  \/ \E q \in Requests : Works(q, o)' /\ pc'[q] \in Active
                    \/ Abandoned(o)'
  BY DEF UnsettledIsInProgress, Objects
\* The witness of a task whose status the step leaves alone.
<1>2. ASSUME status'[o] = status[o],
             Works(r, o) => pc[r] \notin Active \/ pc'[r] \in Active
      PROVE  \/ \E q \in Requests : Works(q, o)' /\ pc'[q] \in Active
             \/ Abandoned(o)'
  <2>1. CASE \E q \in Requests : Works(q, o) /\ pc[q] \in Active
    <3>1. PICK q \in Requests : Works(q, o) /\ pc[q] \in Active
      BY <2>1
    <3>2. pc'[q] \in Active /\ Works(q, o)'
      BY <1>1, <1>2, <3>1 DEF Works
    <3> QED BY <3>2
  <2>2. CASE Abandoned(o)
    <3>1. PICK q \in Requests : /\ obj[q] = o
                               /\ \/ kind[q] = "stream" /\ pc[q] = "dead"
                                  \/ kind[q] = "invokeStream" /\ q = o
      BY <2>2 DEF Abandoned
    <3>2. pc[q] = "dead" => q # r
      BY <1>1 DEF Active, Stored
    <3> QED BY <1>1, <3>1, <3>2 DEF Abandoned
  <2> QED BY <1>2, <2>1, <2>2 DEF UnsettledIsInProgress, Objects
<1>3. CASE o # obj[r]
  BY <1>1, <1>2, <1>3 DEF Works
<1>4. CASE o = obj[r] /\ kind[r] = "invokeStream"
  <2>1. status'[o] = status[o]
    BY <1>4, StepFrame
  <2> QED BY <1>2, <1>4, <2>1 DEF Works
<1>5. CASE o = obj[r] /\ kind[r] # "invokeStream"
  <2>1. CASE pc'[r] \in Active
    BY <1>1, <1>5, <2>1 DEF Works
  <2>2. CASE pc'[r] \in Stored \cup {"done"}
    <3>1. status'[o] = status[o] /\ pc[r] \notin Active
      BY <1>5, <2>2, StepEffect DEF Active, Stored
    <3> QED BY <1>2, <3>1
  <2>3. CASE kind[r] = "stream" /\ pc'[r] = "dead"
    BY <1>1, <1>5, <2>3 DEF Abandoned
  <2> QED BY <1>5, <2>1, <2>2, <2>3, StepEffect DEF Active, Stored
<1> QED BY <1>3, <1>4, <1>5

\* Who works on a task after a step worked on it before.
LEMMA StepAlone ==
    ASSUME TableInv, RunInv, NEW r \in Requests, Step(r)
    PROVE  /\ \A q, o \in Requests : Works(q, o)' => Works(q, o)
           /\ Alone'
<1> USE DEF RunInv
<1>1. \A q, o \in Requests : Works(q, o)' => Works(q, o)
  BY StepFrame DEF Works
<1>2. UNCHANGED overlapped
  BY StepFrame
<1> QED BY <1>1, <1>2 DEF Alone

\* On a task that never saw an overlap a step disturbs no other worker.
LEMMA Undisturbed ==
    ASSUME TableInv, RunInv, NEW r \in Requests, Step(r),
           NEW q \in Requests, q # r, obj[q] \notin overlapped, Works(q, obj[q])
    PROVE  status'[obj[q]] = status[obj[q]] /\ record'[obj[q]] = record[obj[q]]
<1> USE DEF RunInv
<1>1. obj[q] \in Requests
  BY DEF Works, TableInv, TypeOK, Active, Stored
<1>2. CASE obj[q] # obj[r]
  BY <1>1, <1>2, StepFrame
<1>3. CASE obj[q] = obj[r]
  <2>1. ~Works(r, obj[q])
    BY <1>1 DEF Alone
  <2>2. kind[r] = "invokeStream"
    BY <1>3, <2>1, StepFrame DEF Works
  <2> QED BY <2>2, StepFrame
<1> QED BY <1>2, <1>3

\* The run's slices cover the record until they are written back.
LEMMA StepCovers ==
    ASSUME TableInv, RunInv, NEW r \in Requests, Step(r)
    PROVE  RunCovers'
<1> USE DEF RunInv
<1> SUFFICES ASSUME NEW q \in Requests, (obj[q] \notin overlapped)', Works(q, obj[q])'
             PROVE  /\ pc'[q] \in {"running", "closed", "final"} =>
                          record'[obj'[q]] \subseteq local'[q]
                    /\ pc'[q] = "final" /\ final'[q] = "failed" =>
                          status'[obj'[q]] = "failed"
                    /\ pc'[q] \in Stored => IsTerminal(status'[obj'[q]])
  BY DEF RunCovers
<1>1. /\ UNCHANGED <<kind, obj, overlapped>> /\ obj[r] \in Requests
      /\ q # r => pc'[q] = pc[q] /\ local'[q] = local[q] /\ final'[q] = final[q]
  BY StepFrame
<1>2. obj[q] \in Requests /\ Works(q, obj[q]) /\ obj[q] \notin overlapped
  BY <1>1, StepAlone DEF Works, TableInv, TypeOK, Active, Stored
<1>3. CASE q # r
  BY <1>1, <1>2, <1>3, Undisturbed DEF RunCovers
<1>4. CASE q = r
  <2>1. kind[r] # "invokeStream"
    BY <1>2, <1>4 DEF Works
  <2> USE <1>1, <1>2, <1>4, <2>1 DEF RunCovers, TableInv, TypeOK, requestVars, objectVars, Stored
  <2>3. CASE MarkWorking(r)
    BY <2>3 DEF MarkWorking
  <2>4. CASE RefuseStream(r)
    BY <2>4 DEF RefuseStream, Works, Active
  <2>5. CASE Snapshot(r)
    BY <2>5 DEF Snapshot
  <2>6. CASE Emit(r)
    BY <2>6 DEF Emit
  <2>7. CASE Panic(r)
    BY <2>7 DEF Panic, Works, Active
  <2>8. CASE Close(r)
    BY <2>8 DEF Close
  <2>9. CASE ReadFinalState(r)
    BY <2>9 DEF ReadFinalState, FinalState, IsTerminal
  <2>10. CASE WriteBack(r)
    BY <2>10 DEF WriteBack, KeepsStatus, FinalIsTerminal, IsTerminal
  <2>11. CASE Store(r)
    BY <2>11 DEF Store
  <2>12. CASE Reply(r)
    BY <2>12 DEF Reply
  <2> QED BY <2>3, <2>4, <2>5, <2>6, <2>7, <2>8, <2>9, <2>10, <2>11, <2>12 DEF Step
<1> QED BY <1>3, <1>4

\* The record keeps every request's message and every finished run's slices.
LEMMA StepKept ==
    ASSUME TableInv, RunInv, NEW r \in Requests, Step(r)
    PROVE  RecordKept'
<1> USE DEF RunInv
<1> SUFFICES ASSUME NEW q \in Requests, pc'[q] # "idle", (obj[q] \notin overlapped)'
             PROVE  /\ <<"user", q>> \in record'[obj'[q]]
                    /\ Works(q, obj[q])' /\ pc'[q] \in Stored
                          => local'[q] \subseteq record'[obj'[q]]
  BY DEF RecordKept
<1>1. /\ UNCHANGED <<kind, obj, overlapped>> /\ obj[r] \in Requests
      /\ pc[r] \in Active \cup Stored
      /\ q # r => pc'[q] = pc[q] /\ local'[q] = local[q]
      /\ \A o \in Requests : o # obj[r] => record'[o] = record[o]
  BY StepFrame
<1>2. /\ pc[q] # "idle" /\ obj[q] \notin overlapped /\ obj[q] \in Requests
      /\ <<"user", q>> \in record[obj[q]]
      /\ Works(q, obj[q]) /\ pc[q] \in Stored => local[q] \subseteq record[obj[q]]
  BY <1>1 DEF RecordKept, TableInv, TypeOK, Active, Stored
<1>3. CASE record' = record
  <2>1. CASE q # r
    BY <1>1, <1>2, <1>3, <2>1, StepAlone
  <2>2. CASE q = r
    <3>1. kind[r] # "invokeStream" /\ pc'[r] \in Stored
            => WriteBack(r) \/ (pc[r] \in Stored /\ local' = local)
      BY StepEffect DEF Active, Stored
    <3>2. CASE WriteBack(r)
      BY <1>1, <1>2, <1>3, <2>2, <3>2 DEF WriteBack, TableInv, TypeOK
    <3>3. Works(r, obj[r])' => Works(r, obj[r])
      BY <1>1, <1>2, <2>2, StepAlone
    <3> QED BY <1>1, <1>2, <1>3, <2>2, <3>1, <3>2, <3>3 DEF Works
  <2> QED BY <2>1, <2>2
<1>4. CASE record' # record
  <2>1. kind[r] # "invokeStream"
    BY <1>4, StepFrame
  <2>2. /\ pc[r] = "final" /\ pc'[r] = "written" /\ local' = local
        /\ record'[obj[r]] = local[r]
    BY <1>4, <2>1, StepEffect DEF WriteBack
  <2>3. Works(r, obj[r])
    BY <2>1, <2>2 DEF Works, Active
  <2>4. CASE obj[q] = obj[r]
    <3>1. record[obj[r]] \subseteq local[r]
      BY <1>2, <2>2, <2>3, <2>4 DEF RunCovers
    <3>2. <<"user", q>> \in record'[obj[q]]
      BY <1>2, <2>2, <2>4, <3>1
    <3>3. CASE q = r
      BY <1>1, <2>2, <3>2, <3>3
    <3>4. CASE q # r
      BY <1>1, <1>2, <2>2, <2>4, <3>1, <3>2, <3>4, StepAlone
    <3> QED BY <3>3, <3>4
  <2>5. CASE obj[q] # obj[r]
    BY <1>1, <1>2, <2>5, StepAlone
  <2> QED BY <2>4, <2>5
<1> QED BY <1>3, <1>4

\* A failure loses its message only to a stream or to an overlap.
LEMMA StepExplained ==
    ASSUME TableInv, RunInv, NEW r \in Requests, Step(r)
    PROVE  FailureExplained'
<1> USE DEF RunInv
<1>1. /\ UNCHANGED <<kind, obj, overlapped>> /\ obj[r] \in Requests
      /\ pc[r] \in Active \cup Stored
      /\ \A q \in Requests : q # r => pc'[q] = pc[q]
      /\ \A o \in Requests : o # obj[r] => status'[o] = status[o] /\ note'[o] = note[o]
  BY StepFrame
<1>2. \A q \in Requests : kind[q] = "stream" /\ pc[q] \in Stored \cup {"done"}
                            => pc'[q] \in Stored \cup {"done"}
  BY <1>1, StepEffect DEF Active, Stored
<1> SUFFICES ASSUME NEW o \in Requests, status'[o] = "failed", ~note'[o], o \notin overlapped'
             PROVE  \E q \in Requests : /\ obj'[q] = o /\ kind'[q] = "stream"
                                       /\ pc'[q] \in Stored \cup {"done"}
  BY DEF FailureExplained, Objects
<1>3. CASE status[o] = "failed" /\ ~note[o]
  BY <1>1, <1>2, <1>3 DEF FailureExplained, Objects
<1>4. CASE ~(status[o] = "failed" /\ ~note[o])
  <2>1. o = obj[r] /\ kind[r] # "invokeStream"
    BY <1>1, <1>4, StepFrame
  <2> USE <1>1, <1>4, <2>1 DEF TableInv, TypeOK, objectVars, requestVars
  <2>2. CASE MarkWorking(r)
    BY <2>2 DEF MarkWorking
  <2>3. CASE Emit(r)
    <3>1. CASE UNCHANGED <<status, note, local>> \/ UNCHANGED <<status, note>>
      BY <3>1
    <3>2. CASE \E state \in HandlerStates :
                  /\ status' = [status EXCEPT ![obj[r]] = state]
                  /\ note' = [note EXCEPT ![obj[r]] = (state = "failed")]
      BY <3>2
    <3> QED BY <2>3, <3>1, <3>2 DEF Emit
  <2>4. CASE Panic(r)
    BY <2>4 DEF Panic
  <2>5. CASE WriteBack(r)
    <3>1. Works(r, o)
      BY <2>5 DEF Works, Active, WriteBack
    <3>2. CASE KeepsStatus(r)
      BY <2>5, <3>2 DEF WriteBack
    <3>3. CASE ~KeepsStatus(r)
      <4>1. final[r] = "failed"
        BY <2>5, <3>3 DEF WriteBack
      <4>2. status[o] = "failed"
        BY <2>5, <3>1, <4>1 DEF RunCovers, WriteBack
      <4>3. kind[r] = "stream"
        BY <3>3, <4>2 DEF KeepsStatus, Kinds
      <4> QED BY <2>5, <4>3 DEF WriteBack, Stored
    <3> QED BY <3>2, <3>3
  <2>6. CASE RefuseStream(r) \/ Snapshot(r) \/ Close(r) \/ ReadFinalState(r)
               \/ Store(r) \/ Reply(r)
    BY <2>6 DEF RefuseStream, Snapshot, Close, ReadFinalState, Store, Reply
  <2> QED BY <2>2, <2>3, <2>4, <2>5, <2>6 DEF Step
<1> QED BY <1>3, <1>4

\* All of it survives the steps of a received request.
LEMMA StepRunInv ==
    ASSUME TableInv, RunInv, NEW r \in Requests, Step(r)
    PROVE  RunInv'
<1> USE DEF RunInv
<1>1. /\ UNCHANGED <<kind, obj, overlapped>> /\ obj[r] \in Requests
      /\ pc[r] \in Active \cup Stored
      /\ \A q \in Requests : q # r => /\ pc'[q] = pc[q] /\ reply'[q] = reply[q]
                                     /\ final'[q] = final[q]
      /\ \A o \in Requests : o # obj[r] => status'[o] = status[o]
  BY StepFrame
<1>2. pc'[r] # "idle" /\ pc[r] # "idle"
  BY <1>1, StepEffect, StepFrame DEF Active, Stored
<1>3. Allocated'
  <2>1. \A q \in Requests : pc[q] # "idle" <=> pc'[q] # "idle"
    BY <1>1, <1>2
  <2>2. \A q \in Requests : pc'[q] = "idle" => status'[q] = status[q] /\ reply'[q] = reply[q]
    BY <1>1, <1>2 DEF Allocated, TableInv, TypeOK
  <2>3. \A t \in TaskIDs : tasks'[t] # None => tasks'[t] = tasks[t] \/ tasks'[t] = obj[r]
    <3>1. CASE Store(r)
      BY <3>1 DEF Store, PutTaskLocked, PutTasks
    <3>2. CASE ~Store(r)
      <4>1. UNCHANGED tasks
        BY <3>2 DEF Step, MarkWorking, RefuseStream, Snapshot, Emit, Panic, Close,
                    ReadFinalState, WriteBack, Reply, tableVars
      <4> QED BY <4>1
    <3> QED BY <3>1, <3>2
  <2>4. \A q \in Requests : obj'[q] # None => pc'[obj'[q]] # "idle"
    BY <1>1, <2>1 DEF Allocated, TableInv, TypeOK
  <2>5. \A t \in TaskIDs : tasks'[t] # None => pc'[tasks'[t]] # "idle"
    BY <1>1, <2>1, <2>3, ServerAssumption DEF Allocated, TableInv, TypeOK
  <2> QED BY <1>1, <2>1, <2>2, <2>4, <2>5 DEF Allocated
<1>4. StreamOnly'
  BY <1>1, StepFrame DEF StreamOnly
<1>5. FinalIsTerminal'
  <2>1. CASE ReadFinalState(r)
    BY <1>1, <2>1 DEF ReadFinalState, FinalState, IsTerminal, FinalIsTerminal, TableInv, TypeOK
  <2>2. CASE ~ReadFinalState(r)
    <3>1. pc'[r] # "final"
      BY <2>2 DEF Step, MarkWorking, RefuseStream, Snapshot, Emit, Panic, Close,
                  WriteBack, Store, Reply, TableInv, TypeOK
    <3> QED BY <1>1, <3>1 DEF FinalIsTerminal
  <2> QED BY <2>1, <2>2
<1>6. ReplySettled'
  <2> SUFFICES ASSUME NEW q \in Requests, reply'[q] # "none", (obj[q] \notin overlapped)'
               PROVE  IsTerminal(reply'[q])
    BY DEF ReplySettled
  <2>1. CASE reply'[q] = reply[q]
    BY <1>1, <2>1 DEF ReplySettled
  <2>2. CASE reply'[q] # reply[q]
    <3>1. q = r
      BY <1>1, <2>2
    <3>2. Reply(r)
      BY <2>2 DEF Step, MarkWorking, RefuseStream, Snapshot, Emit, Panic, Close,
                  ReadFinalState, WriteBack, Store
    <3>3. pc[r] \in Stored /\ kind[r] # "invokeStream" /\ reply'[r] = status[obj[r]]
      BY <3>2 DEF Reply, Stored, StreamOnly, TableInv, TypeOK
    <3> QED BY <1>1, <3>1, <3>3 DEF RunCovers, Works
  <2> QED BY <2>1, <2>2
<1> QED BY <1>3, <1>4, <1>5, <1>6, StepAlone, StepCovers, StepSettled, StepKept, StepExplained

\* An arrival: a new worker joins a task, which is then marked as overlapped if
\* it had one, or a task nobody held before is allocated.
LEMMA ReceiveRunInv ==
    ASSUME TableInv, RunInv, NEW r \in Requests, Receive(r)
    PROVE  RunInv'
<1> USE DEF RunInv
<1>1. PICK t \in TaskIDs, k \in Kinds :
          /\ pc[r] = "idle"
          /\ kind' = [kind EXCEPT ![r] = k]
          /\ GetOrCreateTask(r, t)
          /\ pc' = [pc EXCEPT ![r] = IF k = "invokeStream" THEN "running" ELSE "begun"]
          /\ UNCHANGED <<local, final, emits, reply>>
  BY DEF Receive
<1>2. /\ kind'[r] = k /\ pc'[r] = (IF k = "invokeStream" THEN "running" ELSE "begun")
      /\ obj'[r] \in Requests
      /\ \A q \in Requests : q # r =>
            kind'[q] = kind[q] /\ pc'[q] = pc[q] /\ obj'[q] = obj[q]
      /\ UNCHANGED <<local, final, reply>>
  BY <1>1, GetOrCreateTaskInv DEF TableInv, TypeOK
<1> DEFINE o == obj'[r]
\* The two branches of getOrCreateTask, as the invariant sees them.
<1>3. \/ /\ o # r /\ pc[o] # "idle"
         /\ record' = [record EXCEPT ![o] = @ \cup {<<"user", r>>}]
         /\ overlapped' = (IF \E q \in Requests : Works(q, o)
                           THEN overlapped \cup {o} ELSE overlapped)
         /\ UNCHANGED <<tasks, status, note>>
      \/ /\ o = r
         /\ record' = [record EXCEPT ![r] = {<<"user", r>>}]
         /\ status' = [status EXCEPT ![r] = "submitted"]
         /\ \A u \in TaskIDs : tasks'[u] # None => tasks'[u] = tasks[u] \/ tasks'[u] = r
         /\ UNCHANGED <<note, overlapped>>
  <2>1. CASE tasks[t] # None
    <3>1. ResumeTask(r, tasks[t])
      BY <1>1, <2>1 DEF GetOrCreateTask
    <3>2. o = tasks[t] /\ pc[o] # "idle"
      BY <2>1, <3>1 DEF ResumeTask, Allocated, TableInv, TypeOK
    <3> QED BY <1>1, <3>1, <3>2 DEF ResumeTask
  <2>2. CASE tasks[t] = None
    <3>1. CreateTask(r, t)
      BY <1>1, <2>2 DEF GetOrCreateTask
    <3>2. \A u \in TaskIDs : tasks'[u] # None => tasks'[u] = tasks[u] \/ tasks'[u] = r
      BY <3>1 DEF CreateTask, PutTaskLocked, PutTasks
    <3> QED BY <3>1, <3>2 DEF CreateTask, TableInv, TypeOK
  <2> QED BY <2>1, <2>2
<1> HIDE DEF o
\* What the arrival leaves to the other requests.
<1>4. obj[r] = None /\ \A q \in Requests : obj[q] # r
  BY <1>1, ServerAssumption DEF Allocated, TableInv, TypeOK
<1>5. /\ overlapped \subseteq overlapped'
      /\ \A p \in Requests : p # r => status'[p] = status[p]
      /\ \A p \in Requests : p # r => record[p] \subseteq record'[p]
      /\ \A p \in Requests : p # r /\ p # o => record'[p] = record[p]
      /\ note' = note
      /\ <<"user", r>> \in record'[o]
      /\ (\E q \in Requests : Works(q, o)) => o \in overlapped'
  <2>1. o \in Requests
    BY <1>2 DEF o
  <2>2. o = r => ~ \E q \in Requests : Works(q, o)
    BY <1>4 DEF Works
  <2>3. /\ record \in [Requests -> SUBSET Items] /\ status \in [Requests -> TaskStates \cup {"none"}]
        /\ r \in Requests
    BY DEF TableInv, TypeOK
  <2>4. CASE /\ o # r
             /\ record' = [record EXCEPT ![o] = @ \cup {<<"user", r>>}]
             /\ overlapped' = (IF \E q \in Requests : Works(q, o)
                               THEN overlapped \cup {o} ELSE overlapped)
             /\ UNCHANGED <<tasks, status, note>>
    BY <2>1, <2>3, <2>4
  <2>5. CASE /\ o = r
             /\ record' = [record EXCEPT ![r] = {<<"user", r>>}]
             /\ status' = [status EXCEPT ![r] = "submitted"]
             /\ UNCHANGED <<note, overlapped>>
    BY <2>2, <2>3, <2>5
  <2> QED BY <1>3, <2>4, <2>5
<1>6. \A q, p \in Requests : q # r => (Works(q, p)' <=> Works(q, p))
  BY <1>2 DEF Works
<1>7. Allocated'
  <2>1. \A q \in Requests : pc'[q] = "idle" => q # r /\ pc[q] = "idle"
    BY <1>2
  <2>2. \A q \in Requests : obj'[q] # None => pc'[obj'[q]] # "idle"
    BY <1>1, <1>2, <1>3, <2>1 DEF Allocated, TableInv, TypeOK, o
  <2>3. \A u \in TaskIDs : tasks'[u] # None => pc'[tasks'[u]] # "idle"
    BY <1>1, <1>2, <1>3, <2>1, ServerAssumption DEF Allocated, TableInv, TypeOK
  <2> QED BY <1>2, <1>5, <2>1, <2>2, <2>3 DEF Allocated
<1>8. StreamOnly' /\ FinalIsTerminal'
  BY <1>2 DEF StreamOnly, FinalIsTerminal
<1>9. Alone'
  <2> SUFFICES ASSUME NEW p \in Requests, p \notin overlapped', NEW q \in Requests,
                      NEW w \in Requests, Works(q, p)', Works(w, p)', q # w
               PROVE  FALSE
    BY DEF Alone
  <2>1. CASE q # r /\ w # r
    BY <1>5, <1>6, <2>1 DEF Alone
  <2>2. CASE q = r
    BY <1>5, <1>6, <2>2 DEF Works, o
  <2>3. CASE w = r
    BY <1>5, <1>6, <2>3 DEF Works, o
  <2> QED BY <2>1, <2>2, <2>3
<1>10. RunCovers'
  <2> SUFFICES ASSUME NEW q \in Requests, (obj[q] \notin overlapped)', Works(q, obj[q])'
               PROVE  /\ pc'[q] \in {"running", "closed", "final"} =>
                            record'[obj'[q]] \subseteq local'[q]
                      /\ pc'[q] = "final" /\ final'[q] = "failed" =>
                            status'[obj'[q]] = "failed"
                      /\ pc'[q] \in Stored => IsTerminal(status'[obj'[q]])
    BY DEF RunCovers
  <2>1. CASE q = r
    BY <1>2, <2>1 DEF Works, Stored
  <2>2. CASE q # r
    <3>1. obj'[q] = obj[q] /\ obj[q] \in Requests /\ obj[q] # r /\ Works(q, obj[q])
      BY <1>2, <1>4, <2>2 DEF Works, TableInv, TypeOK, Active, Stored
    <3>2. obj[q] # o
      BY <1>5, <3>1
    <3> QED BY <1>2, <1>5, <2>2, <3>1, <3>2 DEF RunCovers
  <2> QED BY <2>1, <2>2
<1>11. UnsettledIsInProgress'
  <2> SUFFICES ASSUME NEW p \in Requests, status'[p] # "none", ~IsTerminal(status'[p])
               PROVE  \/ \E q \in Requests : Works(q, p)' /\ pc'[q] \in Active
                      \/ Abandoned(p)'
    BY DEF UnsettledIsInProgress, Objects
  <2>1. CASE p # r
    <3>1. \/ \E q \in Requests : Works(q, p) /\ pc[q] \in Active
          \/ Abandoned(p)
      BY <1>5, <2>1 DEF UnsettledIsInProgress, Objects
    <3>2. CASE \E q \in Requests : Works(q, p) /\ pc[q] \in Active
      BY <1>1, <1>2, <1>6, <3>2 DEF Active
    <3>3. CASE Abandoned(p)
      BY <1>2, <1>4, <3>3, ServerAssumption DEF Abandoned
    <3> QED BY <3>1, <3>2, <3>3
  <2>2. CASE p = r
    <3>1. o = r
      BY <1>1, <1>3, <2>2 DEF Allocated
    <3>2. CASE k = "invokeStream"
      BY <1>2, <2>2, <3>1, <3>2 DEF Abandoned, o
    <3>3. CASE k # "invokeStream"
      BY <1>2, <2>2, <3>1, <3>3 DEF Works, Active, o
    <3> QED BY <3>2, <3>3
  <2> QED BY <2>1, <2>2
<1>12. RecordKept'
  <2> SUFFICES ASSUME NEW q \in Requests, pc'[q] # "idle", (obj[q] \notin overlapped)'
               PROVE  /\ <<"user", q>> \in record'[obj'[q]]
                      /\ Works(q, obj[q])' /\ pc'[q] \in Stored
                            => local'[q] \subseteq record'[obj'[q]]
    BY DEF RecordKept
  <2>1. CASE q = r
    BY <1>2, <1>5, <2>1 DEF Stored, o
  <2>2. CASE q # r
    <3>1. /\ obj'[q] = obj[q] /\ obj[q] \in Requests /\ obj[q] # r
          /\ Works(q, obj[q])' => Works(q, obj[q])
      BY <1>2, <1>4, <1>6, <2>2 DEF TableInv, TypeOK
    <3> QED BY <1>2, <1>5, <2>2, <3>1 DEF RecordKept
  <2> QED BY <2>1, <2>2
<1>13. FailureExplained'
  <2> SUFFICES ASSUME NEW p \in Requests, status'[p] = "failed", ~note'[p], p \notin overlapped'
               PROVE  \E q \in Requests : /\ obj'[q] = p /\ kind'[q] = "stream"
                                         /\ pc'[q] \in Stored \cup {"done"}
    BY DEF FailureExplained, Objects
  <2>1. status[p] = "failed"
    BY <1>1, <1>3, <1>5 DEF Allocated, TableInv, TypeOK
  <2>2. PICK q \in Requests : /\ obj[q] = p /\ kind[q] = "stream"
                             /\ pc[q] \in Stored \cup {"done"}
    BY <1>5, <2>1 DEF FailureExplained, Objects
  <2>3. q # r
    BY <1>1, <2>2 DEF Stored
  <2> QED BY <1>2, <2>2, <2>3
<1>14. ReplySettled'
  <2>1. \A q \in Requests : reply'[q] # "none" => q # r /\ obj'[q] = obj[q]
    BY <1>1, <1>2 DEF Allocated
  <2> QED BY <1>2, <1>5, <2>1 DEF ReplySettled
<1> QED BY <1>7, <1>8, <1>9, <1>10, <1>11, <1>12, <1>13, <1>14

\* A cancel only turns an unsettled task into a canceled one.
LEMMA CancelRunInv ==
    ASSUME TableInv, RunInv, NEW t \in TaskIDs, HandleTasksCancel(t)
    PROVE  RunInv'
<1> USE DEF RunInv
<1> DEFINE o == tasks[t]
<1>1. /\ o \in Requests /\ pc[o] # "idle" /\ ~IsTerminal(status[o])
      /\ status' = [status EXCEPT ![o] = "canceled"]
      /\ \A p \in Requests : p # o => status'[p] = status[p] /\ note'[p] = note[p]
      /\ UNCHANGED <<tasks, order, record, pc, kind, tid, obj, local, final, reply, overlapped>>
  BY DEF HandleTasksCancel, Allocated, TableInv, TypeOK, tableVars, requestVars
<1> HIDE DEF o
<1>2. status'[o] = "canceled" /\ status[o] # "failed"
  BY <1>1 DEF TableInv, TypeOK, IsTerminal
<1>3. Allocated' /\ StreamOnly' /\ Alone' /\ FinalIsTerminal' /\ RecordKept' /\ ReplySettled'
  BY <1>1 DEF Allocated, StreamOnly, Alone, FinalIsTerminal, RecordKept, ReplySettled, Works
<1>4. RunCovers'
  BY <1>1, <1>2 DEF RunCovers, Works, IsTerminal
<1>5. UnsettledIsInProgress'
  BY <1>1, <1>2 DEF UnsettledIsInProgress, Abandoned, Works, IsTerminal, Objects
<1>6. FailureExplained'
  BY <1>1, <1>2 DEF FailureExplained, Objects
<1> QED BY <1>3, <1>4, <1>5, <1>6

LEMMA RunInvNext == TableInv /\ RunInv /\ [Next]_vars => RunInv'
<1> SUFFICES ASSUME TableInv, RunInv, [Next]_vars PROVE RunInv'
  OBVIOUS
<1>1. CASE UNCHANGED vars
  BY <1>1 DEF vars, RunInv, Allocated, StreamOnly, Alone, RunCovers, FinalIsTerminal, Works,
      UnsettledIsInProgress, Abandoned, RecordKept, FailureExplained, ReplySettled
<1> QED BY <1>1, StepRunInv, ReceiveRunInv, CancelRunInv DEF Next

LEMMA RunInvInit == Init => RunInv
BY DEF Init, RunInv, Allocated, StreamOnly, Alone, RunCovers, FinalIsTerminal, Works, Objects,
       UnsettledIsInProgress, RecordKept, FailureExplained, ReplySettled, EmptyTable, Active,
       Stored

LEMMA RunInvHolds == Spec => []RunInv
BY TableInvInit, TableInvNext, RunInvInit, RunInvNext, PTL DEF Spec

\* No task is left unsettled unless somebody still works on it or abandoned it.
THEOREM UnsettledMeansInProgress == Spec => []UnsettledIsInProgress
<1>1. RunInv => UnsettledIsInProgress
  BY DEF RunInv
<1> QED BY <1>1, RunInvHolds, PTL

\* Without overlapping runs, a task keeps all that its requests recorded.
THEOREM RecordIsKept == Spec => []RecordKept
<1>1. RunInv => RecordKept
  BY DEF RunInv
<1> QED BY <1>1, RunInvHolds, PTL

\* Without overlapping runs, only a stream loses the message of a failure.
THEOREM FailureIsExplained == Spec => []FailureExplained
<1>1. RunInv => FailureExplained
  BY DEF RunInv
<1> QED BY <1>1, RunInvHolds, PTL

\* Without overlapping runs, a response shows a terminal task.
THEOREM ReplyIsSettled == Spec => []ReplySettled
<1>1. RunInv => ReplySettled
  BY DEF RunInv
<1> QED BY <1>1, RunInvHolds, PTL
=============================================================================
