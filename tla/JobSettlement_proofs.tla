------------------------- MODULE JobSettlement_proofs -------------------------
(***************************************************************************)
(* Proofs about JobSettlement for any callers, jobs and number of retries.  *)
(***************************************************************************)
EXTENDS JobSettlement, FiniteSetTheorems, TLAPS

(* The market only moves forward *)

\* A later status of a later status is a later status.
LEMMA SinceTransitive ==
    ASSUME NEW a \in Statuses, NEW b \in Since(a)
    PROVE  Since(b) \subseteq Since(a) /\ b \in Statuses /\ a \in Since(a)
BY DEF Since, Statuses, Settled

\* A job moves forward, and its deliverable stays from its submission on.
Forward(j) ==
    job[j] # "none" => /\ job'[j] \in Since(job[j])
                       /\ job[j] \in Since("submitted") => work'[j] = work[j]

LEMMA EffectForward ==
    ASSUME TypeOK, NEW c \in Callers, op[c] \in Requests, Effect(c), NEW j \in Jobs
    PROVE  Forward(j)
<1> USE DEF TypeOK, Forward, Since, Statuses, Settled, Requests, marketVars
<1>1. CASE op[c] = "create"
  <2>1. PICK k \in Jobs : PostJob(k)
    BY <1>1 DEF Effect
  <2> QED BY <2>1 DEF PostJob
<1>2. CASE op[c] = "get"
  BY <1>2 DEF Effect
<1>3. CASE op[c] \in {"accept", "submit", "complete", "reject"}
  <2>1. Operate(op[c], target[c]) /\ target[c] \in Jobs
    BY <1>3 DEF Effect
  <2> QED BY <1>3, <2>1 DEF Operate, From, To
<1> QED BY <1>1, <1>2, <1>3

\* What an operation leaves: the status it is for, or one that does not allow it.
LEMMA OperateResult ==
    ASSUME TypeOK, NEW j \in Jobs, NEW o \in {"accept", "submit", "complete", "reject"},
           Operate(o, j)
    PROVE  /\ job'[j] = To[o] \/ (job'[j] = job[j] /\ job[j] # From[o])
           /\ \A k \in Jobs : k # j => job'[k] = job[k]
BY DEF TypeOK, Operate, marketVars, From, To

-----------------------------------------------------------------------------
(* Type correctness *)

LEMMA EffectType ==
    ASSUME TypeOK, NEW c \in Callers, op[c] \in Requests, Effect(c)
    PROVE  /\ job' \in [Jobs -> Statuses \cup {"none"}]
           /\ work' \in [Jobs -> Works]
           /\ made' \in [Callers -> SUBSET Jobs]
<1> USE DEF TypeOK, Statuses, Settled, Requests, marketVars
<1>1. CASE op[c] = "create"
  BY <1>1 DEF Effect, PostJob
<1>2. CASE op[c] = "get"
  BY <1>2 DEF Effect
<1>3. CASE op[c] \in {"accept", "submit", "complete", "reject"}
  <2>1. Operate(op[c], target[c]) /\ UNCHANGED made
    BY <1>3 DEF Effect
  <2>2. /\ job' \in [Jobs -> Statuses \cup {"none"}]
        /\ work' \in [Jobs -> Works]
    BY <1>3, <2>1 DEF Operate, From, To
  <2> QED BY <2>1, <2>2
<1> QED BY <1>1, <1>2, <1>3

\* Where the callers are in their plans.
PlanInv ==
    \A c \in Callers :
        /\ plan[c] = "none" <=> at[c] = "idle"
        /\ at[c] = "idle" => op[c] = "none"
        /\ plan[c] \in Plans \ {"settle"} => op[c] = plan[c]
        /\ plan[c] = "settle" => op[c] \in {"get", "complete", "reject"}
        /\ at[c] \in {"idle", "sending", "waiting"} => attempt[c] <= MaxRetries

CallInv == TypeOK /\ PlanInv

LEMMA CallInvInit == Init => CallInv
BY SettlementAssumption DEF Init, MarketInit, CallInv, TypeOK, PlanInv, Statuses, Works, Plans

LEMMA CallInvNext == CallInv /\ [Next]_vars => CallInv'
<1> SUFFICES ASSUME CallInv, [Next]_vars PROVE CallInv'
  OBVIOUS
<1> USE SettlementAssumption DEF CallInv, TypeOK, PlanInv, Plans, Requests, Statuses, Settled,
        callVars, marketVars
<1>1. ASSUME NEW c \in Callers, Begin(c) PROVE CallInv'
  <2>1. PICK p \in Plans, j \in Jobs :
            /\ at[c] = "idle"
            /\ p # "create" => job[j] # "none"
            /\ plan' = [plan EXCEPT ![c] = p]
            /\ target' = [target EXCEPT ![c] = IF p = "create" THEN None ELSE j]
            /\ op' = [op EXCEPT ![c] = IF p = "settle" THEN "get" ELSE p]
            /\ at' = [at EXCEPT ![c] = "sending"]
            /\ UNCHANGED <<marketVars, attempt, seen, checked, outcome, made>>
    BY <1>1 DEF Begin
  <2>2. TypeOK'
    <3> DEFINE t == IF p = "create" THEN None ELSE j
               o == IF p = "settle" THEN "get" ELSE p
    <3>1. t \in Jobs \cup {None} /\ o \in Requests /\ (o # "create" => t \in Jobs)
      OBVIOUS
    <3>2. target' = [target EXCEPT ![c] = t] /\ op' = [op EXCEPT ![c] = o]
      BY <2>1
    <3> HIDE DEF t, o
    <3>3. /\ target' \in [Callers -> Jobs \cup {None}]
          /\ op' \in [Callers -> Requests \cup {"none"}]
      BY <3>1, <3>2
    <3>4. \A d \in Callers : op'[d] \notin {"none", "create"} => target'[d] \in Jobs
      BY <3>1, <3>2
    <3> QED BY <2>1, <3>3, <3>4
  <2>3. PlanInv'
    <3>1. plan[c] = "none" /\ attempt[c] <= MaxRetries
      BY <2>1
    <3>2. /\ plan'[c] = p /\ at'[c] = "sending" /\ attempt'[c] = attempt[c]
          /\ op'[c] = IF p = "settle" THEN "get" ELSE p
      BY <2>1
    <3>3. \A d \in Callers : d # c => /\ plan'[d] = plan[d] /\ at'[d] = at[d]
                                     /\ op'[d] = op[d] /\ attempt'[d] = attempt[d]
      BY <2>1
    <3> QED BY <3>1, <3>2, <3>3
  <2> QED BY <2>2, <2>3
<1>2. ASSUME NEW c \in Callers, AttemptFails(c) PROVE CallInv'
  <2>1. /\ job' \in [Jobs -> Statuses \cup {"none"}]
        /\ work' \in [Jobs -> Works]
        /\ made' \in [Callers -> SUBSET Jobs]
    <3>1. CASE Effect(c)
      BY <1>2, <3>1, EffectType DEF AttemptFails
    <3> QED BY <1>2, <3>1 DEF AttemptFails
  <2>2. /\ at[c] = "sending" /\ attempt[c] <= MaxRetries /\ attempt[c] \in Nat
        /\ Retry(c)
        /\ UNCHANGED <<callVars, op, seen, checked, outcome>>
    BY <1>2 DEF AttemptFails
  <2>3. attempt' \in [Callers -> 0..MaxRetries + 1]
    BY <2>2 DEF Retry
  <2>4. TypeOK'
    BY <2>1, <2>2, <2>3 DEF Retry
  <2>5. PlanInv'
    BY <2>2 DEF Retry
  <2> QED BY <2>4, <2>5
<1>3. ASSUME NEW c \in Callers, AttemptRefused(c) PROVE CallInv'
  <2>1. /\ job' \in [Jobs -> Statuses \cup {"none"}]
        /\ work' \in [Jobs -> Works]
        /\ made' \in [Callers -> SUBSET Jobs]
    <3>1. CASE Effect(c)
      BY <1>3, <3>1, EffectType DEF AttemptRefused
    <3> QED BY <1>3, <3>1 DEF AttemptRefused
  <2> QED BY <1>3, <2>1 DEF AttemptRefused
<1>4. ASSUME NEW c \in Callers, AttemptCreates(c) PROVE CallInv'
  BY <1>4 DEF AttemptCreates, PostJob
<1>5. ASSUME NEW c \in Callers, AttemptAnswered(c) PROVE CallInv'
  <2>1. /\ job' \in [Jobs -> Statuses \cup {"none"}]
        /\ work' \in [Jobs -> Works]
        /\ made' \in [Callers -> SUBSET Jobs]
        /\ target[c] \in Jobs
    BY <1>5, EffectType DEF AttemptAnswered
  <2>2. TypeOK'
    BY <1>5, <2>1 DEF AttemptAnswered
  <2>3. PlanInv'
    BY <1>5 DEF AttemptAnswered
  <2> QED BY <2>2, <2>3
<1>6. ASSUME NEW c \in Callers, Backoff(c) \/ ContextDone(c) PROVE CallInv'
  BY <1>6 DEF Backoff, ContextDone
<1>7. ASSUME NEW c \in Callers, Return(c) \/ GiveUp(c) \/ Settle(c) PROVE CallInv'
  BY <1>7 DEF Return, GiveUp, Settle
<1>8. ASSUME NEW c \in Callers, Decide(c) PROVE CallInv'
  BY <1>8 DEF Decide, Verdict
<1>9. CASE UNCHANGED vars
  BY <1>9 DEF vars
<1> QED BY <1>1, <1>2, <1>3, <1>4, <1>5, <1>6, <1>7, <1>8, <1>9 DEF Next, Step

LEMMA CallInvHolds == Spec => []CallInv
BY CallInvInit, CallInvNext, PTL DEF Spec

\* Type correctness.
THEOREM SettlementTypeCorrect == Spec => []TypeOK
<1>1. CallInv => TypeOK
  BY DEF CallInv
<1> QED BY <1>1, CallInvHolds, PTL

-----------------------------------------------------------------------------
(* What the answers say *)

\* What a caller knows of its job.  Each part survives what the others do,
\* because jobs only move forward.
Knows(c) ==
    /\ plan[c] \notin {"none", "create"} => target[c] \in Jobs /\ job[target[c]] # "none"
    /\ at[c] # "returned" => outcome[c] = "none"
    /\ at[c] = "answered" /\ op[c] # "create" => job[target[c]] \in Since(seen[c])
    /\ at[c] = "answered" /\ op[c] = "get" /\ seen[c] = "submitted" =>
         work[target[c]] = checked[c]
    /\ op[c] = "reject" \/ (plan[c] = "settle" /\ op[c] = "complete") =>
         /\ op[c] = Verdict(checked[c])
         /\ job[target[c]] \in Since("submitted")
         /\ work[target[c]] = checked[c]
         /\ at[c] = "answered" => job[target[c]] \in Settled
    /\ outcome[c] = "true" =>
         /\ plan[c] \in {"accept", "submit", "complete"} => job[target[c]] \in Since(To[plan[c]])
         /\ plan[c] = "settle" => /\ job[target[c]] \in Settled
                                  /\ checked[c] = "fitting" => job[target[c]] = "completed"

SettleInv == CallInv /\ (\A c \in Callers : Knows(c)) /\ VerdictFits

LEMMA NextForward ==
    ASSUME CallInv, [Next]_vars, NEW j \in Jobs
    PROVE  Forward(j)
<1>1. job[j] \in Statuses \cup {"none"} /\ work[j] \in Works
  BY DEF CallInv, TypeOK
<1>2. CASE UNCHANGED marketVars
  BY <1>1, <1>2 DEF Forward, Since, Statuses, Settled, marketVars
<1>3. ASSUME NEW c \in Callers, at[c] = "sending", Effect(c) PROVE Forward(j)
  <2>1. op[c] \in Requests
    BY <1>3 DEF CallInv, PlanInv, TypeOK, Plans, Requests
  <2> QED BY <1>3, <2>1, EffectForward DEF CallInv
<1>4. ASSUME NEW c \in Callers, AttemptCreates(c) PROVE Forward(j)
  BY <1>1, <1>4 DEF AttemptCreates, PostJob, Forward, CallInv, TypeOK, Since, Statuses, Settled
<1> QED
  BY <1>2, <1>3, <1>4 DEF Next, Step, Begin, AttemptFails, AttemptRefused, AttemptAnswered,
     Backoff, ContextDone, Return, GiveUp, Decide, Settle, vars, marketVars

\* A caller still knows what it knew when only the market has moved, also when
\* it moved by a request of its own that failed for the caller.
LEMMA StillKnows ==
    ASSUME CallInv, \A j \in Jobs : Forward(j), NEW c \in Callers, Knows(c),
           plan'[c] = plan[c], target'[c] = target[c], op'[c] = op[c],
           seen'[c] = seen[c], checked'[c] = checked[c], outcome'[c] = outcome[c],
           at'[c] = at[c] \/ (at[c] = "sending" /\ at'[c] \in {"waiting", "failed"})
    PROVE  Knows(c)'
<1> USE DEF CallInv, PlanInv
<1>1. CASE plan[c] \in {"none", "create"}
  BY <1>1 DEF Knows, Plans
<1>2. CASE plan[c] \notin {"none", "create"}
  <2> DEFINE t == target[c]
  <2>1. /\ t \in Jobs /\ job[t] \in Statuses
        /\ job'[t] \in Since(job[t])
        /\ job[t] \in Since("submitted") => work'[t] = work[t]
    BY <1>2 DEF Forward, TypeOK, Knows
  <2>2. \A a \in Statuses : job[t] \in Since(a) => job'[t] \in Since(a)
    BY <2>1, SinceTransitive
  <2>3. seen[c] \in Statuses \cup {"none"}
    BY DEF TypeOK
  <2>4. job[t] \in Settled => job'[t] = job[t]
    BY <2>1 DEF Since, Settled, Statuses
  <2>5. \A a : a \notin Statuses => job[t] \notin Since(a)
    BY <2>1 DEF Since, Statuses, Settled
  <2> QED
    BY <1>2, <2>1, <2>2, <2>3, <2>4 DEF Knows, Since, Statuses, Settled, To, Plans
<1> QED BY <1>1, <1>2

\* A request leaves the verdicts fitting: what settles a job is a caller's
\* Complete, or an evaluator's verdict on the deliverable the job still has.
LEMMA EffectFits ==
    ASSUME SettleInv, NEW c \in Callers, at[c] = "sending", Effect(c), UNCHANGED callVars
    PROVE  VerdictFits'
<1> USE DEF SettleInv, CallInv, TypeOK, VerdictFits, callVars, marketVars
<1>1. op[c] \in Requests
  BY DEF PlanInv, Plans, Requests
<1>2. CASE op[c] = "create"
  BY <1>2 DEF Effect, PostJob
<1>3. CASE op[c] = "get"
  BY <1>3 DEF Effect
<1>4. CASE op[c] \in {"accept", "submit", "complete", "reject"}
  <2> DEFINE t == target[c]
  <2>1. Operate(op[c], t) /\ t \in Jobs
    BY <1>4 DEF Effect
  <2>2. \A k \in Jobs : k # t => job'[k] = job[k] /\ work'[k] = work[k]
    BY <1>4, <2>1 DEF Operate
  <2>3. CASE op[c] \in {"accept", "submit"}
    BY <2>1, <2>2, <2>3 DEF Operate, To, From
  <2>4. CASE op[c] = "complete"
    <3>1. plan[c] = "complete" \/ plan[c] = "settle"
      BY <2>4 DEF PlanInv, Plans
    <3>2. plan[c] = "settle" => work[t] = "fitting"
      BY <2>4 DEF Knows, Verdict
    <3> QED BY <2>1, <2>2, <2>4, <3>1, <3>2 DEF Operate, To, From
  <2>5. CASE op[c] = "reject"
    <3>1. work[t] # "fitting"
      BY <2>5 DEF Knows, Verdict
    <3> QED BY <2>1, <2>2, <2>5, <3>1 DEF Operate, To, From
  <2> QED BY <1>4, <2>3, <2>4, <2>5
<1> QED BY <1>1, <1>2, <1>3, <1>4 DEF Requests

LEMMA SettleInvInit == Init => SettleInv
<1> SUFFICES ASSUME Init PROVE SettleInv
  OBVIOUS
<1>1. \A c \in Callers : Knows(c)
  BY DEF Init, Knows
<1>2. VerdictFits
  BY DEF Init, MarketInit, VerdictFits
<1> QED BY <1>1, <1>2, CallInvInit DEF SettleInv

\* A step that leaves the market alone, and the callers' plans, or the plan
\* of a caller that had none.
LEMMA FitsWithoutEffect ==
    ASSUME SettleInv, UNCHANGED marketVars, NEW c \in Callers,
           \A d \in Callers \ {c} : plan'[d] = plan[d] /\ target'[d] = target[d],
           plan[c] = "none" \/ (plan'[c] = plan[c] /\ target'[c] = target[c])
    PROVE  VerdictFits'
BY DEF SettleInv, VerdictFits, marketVars

LEMMA SettleInvNext == SettleInv /\ [Next]_vars => SettleInv'
<1> SUFFICES ASSUME SettleInv, [Next]_vars PROVE SettleInv'
  OBVIOUS
<1> USE DEF SettleInv
<1>1. CallInv'
  BY CallInvNext
<1>2. \A j \in Jobs : Forward(j)
  BY NextForward
<1>3. CASE UNCHANGED vars
  <2>1. ASSUME NEW c \in Callers PROVE Knows(c)'
    BY <1>2, <1>3, StillKnows DEF vars
  <2> QED BY <1>1, <1>3, <2>1 DEF vars, VerdictFits
<1>4. ASSUME NEW c \in Callers, Begin(c) \/ Step(c) PROVE SettleInv'
  <2> USE DEF CallInv, TypeOK, callVars, marketVars
  <2>1. \A d \in Callers \ {c} :
           /\ plan'[d] = plan[d] /\ target'[d] = target[d] /\ op'[d] = op[d]
           /\ at'[d] = at[d] /\ seen'[d] = seen[d] /\ checked'[d] = checked[d]
           /\ outcome'[d] = outcome[d]
    BY <1>4 DEF Begin, Step, AttemptFails, AttemptRefused, AttemptCreates, AttemptAnswered,
       Retry, Backoff, ContextDone, Return, GiveUp, Decide, Settle
  <2>2. \A d \in Callers \ {c} : Knows(d)'
    BY <1>2, <2>1, StillKnows
  <2>3. CASE Begin(c)
    <3>1. Knows(c)'
      BY <2>3 DEF Begin, Knows, PlanInv, Plans
    <3>2. VerdictFits'
      BY <2>1, <2>3, FitsWithoutEffect DEF Begin, PlanInv
    <3> QED BY <1>1, <2>2, <3>1, <3>2
  <2>4. CASE AttemptFails(c) \/ AttemptRefused(c)
    <3>1. Knows(c)'
      <4>1. at[c] = "sending" /\ at'[c] \in {"waiting", "failed"}
        BY <2>4 DEF AttemptFails, AttemptRefused, Retry
      <4>2. /\ plan'[c] = plan[c] /\ target'[c] = target[c] /\ op'[c] = op[c]
            /\ seen'[c] = seen[c] /\ checked'[c] = checked[c] /\ outcome'[c] = outcome[c]
        BY <2>4 DEF AttemptFails, AttemptRefused
      <4> QED BY <1>2, <4>1, <4>2, StillKnows
    <3>2. VerdictFits'
      BY <2>1, <2>4, FitsWithoutEffect, EffectFits DEF AttemptFails, AttemptRefused
    <3> QED BY <1>1, <2>2, <3>1, <3>2
  <2>5. CASE AttemptCreates(c)
    <3>1. Knows(c)'
      BY <2>5 DEF AttemptCreates, Knows, PlanInv, Plans
    <3>2. VerdictFits'
      BY <2>5 DEF AttemptCreates, VerdictFits, PostJob, PlanInv, Plans
    <3> QED BY <1>1, <2>2, <3>1, <3>2
  <2>6. CASE AttemptAnswered(c)
    <3>1. Knows(c)'
      <4> DEFINE t == target[c]
      <4>1. /\ t \in Jobs /\ job[t] \in Statuses /\ op[c] \in Requests \ {"create"}
            /\ at[c] = "sending" /\ outcome[c] = "none" /\ plan[c] \notin {"none", "create"}
        BY <2>6 DEF AttemptAnswered, Knows, PlanInv, Plans, Requests
      <4>2. /\ plan'[c] = plan[c] /\ target'[c] = t /\ op'[c] = op[c]
            /\ at'[c] = "answered" /\ outcome'[c] = "none"
            /\ seen'[c] = job'[t]
            /\ checked'[c] = IF op[c] = "get" THEN work[t] ELSE checked[c]
        BY <2>6, <4>1 DEF AttemptAnswered
      <4>3. job'[t] \in Statuses /\ job'[t] \in Since(job'[t])
        BY <1>2, <4>1 DEF Forward, Since, Statuses, Settled
      <4>4. CASE op[c] = "get"
        <5>1. work'[t] = work[t] /\ plan[c] = "settle"
          BY <2>6, <4>4 DEF AttemptAnswered, Effect, PlanInv, Plans
        <5> QED BY <4>1, <4>2, <4>3, <4>4, <5>1 DEF Knows, Statuses, Settled
      <4>5. CASE op[c] = "reject" \/ (plan[c] = "settle" /\ op[c] = "complete")
        <5>1. /\ job[t] \in Since("submitted") /\ work[t] = checked[c]
              /\ op[c] = Verdict(checked[c])
          BY <4>5 DEF Knows
        <5>2. job'[t] \in Since("submitted") /\ work'[t] = work[t]
          BY <1>2, <4>1, <5>1, SinceTransitive DEF Forward, Statuses
        <5>3. Operate(op[c], t)
          BY <2>6, <4>5 DEF AttemptAnswered, Effect
        <5>4. job'[t] \in Settled
          BY <4>1, <4>5, <5>1, <5>3, OperateResult DEF Since, Settled, To, From
        <5> QED BY <4>1, <4>2, <4>3, <4>5, <5>1, <5>2, <5>4 DEF Knows, Statuses, Settled
      <4>6. CASE op[c] # "get" /\ op[c] # "reject" /\ ~(plan[c] = "settle" /\ op[c] = "complete")
        BY <4>1, <4>2, <4>3, <4>6 DEF Knows, Statuses, Settled
      <4> QED BY <4>4, <4>5, <4>6
    <3>2. VerdictFits'
      BY <2>6, EffectFits DEF AttemptAnswered
    <3> QED BY <1>1, <2>2, <3>1, <3>2
  <2>7. CASE Backoff(c) \/ ContextDone(c)
    <3>1. Knows(c)'
      BY <2>7 DEF Backoff, ContextDone, Knows
    <3>2. VerdictFits'
      BY <2>1, <2>7, FitsWithoutEffect DEF Backoff, ContextDone
    <3> QED BY <1>1, <2>2, <3>1, <3>2
  <2>8. CASE Return(c)
    <3>1. Knows(c)'
      BY <2>8 DEF Return, Reports, Knows, PlanInv, Plans
    <3>2. VerdictFits'
      BY <2>1, <2>8, FitsWithoutEffect DEF Return
    <3> QED BY <1>1, <2>2, <3>1, <3>2
  <2>9. CASE GiveUp(c)
    <3>1. Knows(c)'
      BY <2>9 DEF GiveUp, Knows
    <3>2. VerdictFits'
      BY <2>1, <2>9, FitsWithoutEffect DEF GiveUp
    <3> QED BY <1>1, <2>2, <3>1, <3>2
  <2>10. CASE Decide(c)
    <3>1. Knows(c)'
      BY <2>10 DEF Decide, Knows, Verdict, Plans
    <3>2. VerdictFits'
      BY <2>1, <2>10, FitsWithoutEffect DEF Decide
    <3> QED BY <1>1, <2>2, <3>1, <3>2
  <2>11. CASE Settle(c)
    <3>1. Knows(c)'
      <4>1. /\ plan'[c] = plan[c] /\ target'[c] = target[c] /\ op'[c] = op[c]
            /\ at'[c] = "returned" /\ checked'[c] = checked[c]
            /\ job' = job /\ work' = work /\ plan[c] = "settle"
            /\ op[c] = Verdict(checked[c]) /\ op[c] \in {"complete", "reject"}
        BY <2>11 DEF Settle, Knows
      <4>2. ASSUME outcome'[c] = "true"
            PROVE  /\ at[c] = "answered"
                   /\ op[c] = "complete" => seen[c] = "completed"
        BY <2>11, <4>2 DEF Settle, Reports, To
      <4>3. ASSUME outcome'[c] = "true"
            PROVE  /\ job[target[c]] \in Settled
                   /\ checked[c] = "fitting" => job[target[c]] = "completed"
        BY <4>1, <4>2, <4>3 DEF Knows, Verdict, Since
      <4> QED BY <4>1, <4>3 DEF Knows
    <3>2. VerdictFits'
      BY <2>1, <2>11, FitsWithoutEffect DEF Settle
    <3> QED BY <1>1, <2>2, <3>1, <3>2
  <2> QED
    BY <1>4, <2>3, <2>4, <2>5, <2>6, <2>7, <2>8, <2>9, <2>10, <2>11 DEF Step
<1> QED BY <1>3, <1>4 DEF Next

\* A caller that is told true was told so of its job, by its status then and
\* ever since.
THEOREM SuccessIsReal == Spec => []TrueIsSo
<1>1. SettleInv => TrueIsSo
  BY DEF SettleInv, Knows, TrueIsSo
<1> QED BY <1>1, SettleInvInit, SettleInvNext, PTL DEF Spec

\* Evaluators settle by the deliverable they checked, which is the one the
\* job still has.
THEOREM VerdictsAreFit == Spec => []VerdictFits
<1>1. SettleInv => VerdictFits
  BY DEF SettleInv
<1> QED BY <1>1, SettleInvInit, SettleInvNext, PTL DEF Spec

-----------------------------------------------------------------------------
(* The jobs a caller makes *)

\* Only a create makes jobs, and no more than its attempts so far.
MadeInv ==
    \A c \in Callers :
        /\ plan[c] # "create" => made[c] = {}
        /\ Cardinality(made[c]) <= attempt[c] + 1
        /\ at[c] \in {"idle", "sending", "waiting"} => Cardinality(made[c]) <= attempt[c]
        /\ at[c] # "returned" => outcome[c] = "none"
        /\ plan[c] = "create" /\ (at[c] = "answered" \/ outcome[c] = "true") =>
             target[c] \in made[c]

LEMMA MadeIsFinite ==
    ASSUME TypeOK, NEW c \in Callers
    PROVE  /\ IsFiniteSet(made[c])
           /\ Cardinality(made[c]) \in Nat
           /\ attempt[c] \in Nat
           /\ \A j \in Jobs : Cardinality(made[c] \cup {j}) \in 0..Cardinality(made[c]) + 1
<1>1. IsFiniteSet(made[c])
  BY SettlementAssumption, FS_Subset DEF TypeOK
<1>2. Cardinality(made[c]) \in Nat
  BY <1>1, FS_CardinalityType
<1>3. ASSUME NEW j \in Jobs PROVE Cardinality(made[c] \cup {j}) \in 0..Cardinality(made[c]) + 1
  BY <1>1, <1>2, FS_AddElement
<1> QED BY <1>1, <1>2, <1>3, SettlementAssumption DEF TypeOK

LEMMA MadeInvInit == Init => MadeInv
BY FS_EmptySet DEF Init, MadeInv

LEMMA MadeInvNext == CallInv /\ MadeInv /\ [Next]_vars => MadeInv'
<1> SUFFICES ASSUME CallInv, MadeInv, [Next]_vars PROVE MadeInv'
  OBVIOUS
<1> USE DEF CallInv, callVars, marketVars
<1>1. CASE UNCHANGED vars
  BY <1>1 DEF vars, MadeInv
<1>2. ASSUME NEW c \in Callers, Begin(c) \/ Step(c) PROVE MadeInv'
  <2>1. \A d \in Callers \ {c} :
           /\ plan'[d] = plan[d] /\ target'[d] = target[d] /\ made'[d] = made[d]
           /\ at'[d] = at[d] /\ attempt'[d] = attempt[d] /\ outcome'[d] = outcome[d]
    BY <1>2 DEF TypeOK, Begin, Step, AttemptFails, AttemptRefused, AttemptCreates,
       AttemptAnswered, Effect, Retry, Backoff, ContextDone, Return, GiveUp, Decide, Settle
  <2> DEFINE M(d) ==
        /\ plan'[d] # "create" => made'[d] = {}
        /\ Cardinality(made'[d]) <= attempt'[d] + 1
        /\ at'[d] \in {"idle", "sending", "waiting"} => Cardinality(made'[d]) <= attempt'[d]
        /\ at'[d] # "returned" => outcome'[d] = "none"
        /\ plan'[d] = "create" /\ (at'[d] = "answered" \/ outcome'[d] = "true") =>
             target'[d] \in made'[d]
  <2>2. \A d \in Callers \ {c} : M(d)
    BY <2>1 DEF MadeInv
  <2>3. SUFFICES M(c)
    BY <2>2 DEF MadeInv
  <2>4. /\ attempt[c] \in Nat /\ Cardinality(made[c]) \in Nat
        /\ \A j \in Jobs : Cardinality(made[c] \cup {j}) \in 0..Cardinality(made[c]) + 1
    BY MadeIsFinite
  <2>5. CASE Begin(c)
    BY <2>4, <2>5 DEF Begin, MadeInv, PlanInv, TypeOK
  <2>6. ASSUME at[c] = "sending", Effect(c) \/ UNCHANGED <<marketVars, made>>
        PROVE  /\ Cardinality(made'[c]) <= attempt[c] + 1
               /\ plan[c] # "create" => made'[c] = {}
    <3>1. Cardinality(made[c]) <= attempt[c] /\ (plan[c] # "create" => made[c] = {})
      BY <2>6 DEF MadeInv
    <3>2. CASE op[c] = "create"
      <4>1. plan[c] = "create"
        BY <2>6, <3>2 DEF PlanInv, Plans, TypeOK
      <4>2. made'[c] = made[c] \/ \E j \in Jobs : made'[c] = made[c] \cup {j}
        BY <2>6, <3>2 DEF Effect, TypeOK
      <4> QED BY <2>4, <3>1, <4>1, <4>2
    <3>3. CASE op[c] # "create"
      BY <2>4, <2>6, <3>1, <3>3 DEF Effect
    <3> QED BY <3>2, <3>3
  <2>7. CASE AttemptFails(c)
    <3>1. /\ at[c] = "sending" /\ outcome'[c] = outcome[c] /\ outcome[c] = "none"
          /\ plan'[c] = plan[c] /\ attempt'[c] = attempt[c] + 1
          /\ at'[c] \in {"waiting", "failed"}
      BY <2>7 DEF AttemptFails, Retry, TypeOK, MadeInv
    <3>2. /\ Cardinality(made'[c]) <= attempt[c] + 1
          /\ plan[c] # "create" => made'[c] = {}
      BY <2>6, <2>7 DEF AttemptFails
    <3>3. Cardinality(made'[c]) \in Nat
      <4>1. IsFiniteSet(made'[c])
        BY SettlementAssumption, CallInvNext, FS_Subset DEF TypeOK
      <4> QED BY <4>1, FS_CardinalityType
    <3> QED BY <2>4, <3>1, <3>2, <3>3
  <2>8. CASE AttemptRefused(c)
    BY <2>4, <2>6, <2>8 DEF AttemptRefused, TypeOK, MadeInv
  <2>9. CASE AttemptCreates(c)
    <3>1. PICK j \in Jobs : /\ made' = [made EXCEPT ![c] = @ \cup {j}]
                            /\ target' = [target EXCEPT ![c] = j]
      BY <2>9 DEF AttemptCreates
    <3>2. /\ made'[c] = made[c] \cup {j} /\ target'[c] = j /\ at'[c] = "answered"
          /\ attempt'[c] = attempt[c] /\ plan'[c] = plan[c] /\ plan[c] = "create"
          /\ Cardinality(made[c]) <= attempt[c] /\ outcome'[c] = "none"
      BY <2>9, <3>1 DEF AttemptCreates, TypeOK, MadeInv, PlanInv, Plans
    <3> QED BY <2>4, <3>2
  <2>10. CASE AttemptAnswered(c)
    <3>1. /\ made'[c] = made[c] /\ plan'[c] = plan[c] /\ plan[c] # "create"
          /\ at'[c] = "answered" /\ attempt'[c] = attempt[c]
          /\ at[c] = "sending" /\ outcome'[c] = outcome[c]
      BY <2>10 DEF AttemptAnswered, Effect, TypeOK, PlanInv, Plans
    <3> QED BY <3>1 DEF MadeInv
  <2>11. CASE Backoff(c) \/ ContextDone(c)
    BY <2>11 DEF Backoff, ContextDone, MadeInv, TypeOK
  <2>12. CASE Return(c)
    BY <2>12 DEF Return, MadeInv, TypeOK
  <2>13. CASE GiveUp(c) \/ Settle(c)
    BY <2>13 DEF GiveUp, Settle, MadeInv, TypeOK
  <2>14. CASE Decide(c)
    <3>1. /\ made'[c] = {} /\ plan'[c] = "settle" /\ attempt'[c] = 0
          /\ outcome'[c] = "none"
      BY <2>14 DEF Decide, MadeInv, TypeOK
    <3> QED BY <3>1, FS_EmptySet
  <2> QED
    BY <1>2, <2>5, <2>7, <2>8, <2>9, <2>10, <2>11, <2>12, <2>13, <2>14 DEF Step
<1> QED BY <1>1, <1>2 DEF Next

\* A job is made twice only by a request that was repeated, and the job that
\* is answered is one of those that were made.
THEOREM CreationsAccounted == Spec => []CreateAccounted
<1>1. MadeInv => CreateAccounted
  BY DEF MadeInv, CreateAccounted
<1> QED BY <1>1, MadeInvInit, MadeInvNext, CallInvHolds, PTL DEF Spec
=============================================================================
