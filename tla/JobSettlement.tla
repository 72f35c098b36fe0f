---------------------------- MODULE JobSettlement ----------------------------
(***************************************************************************)
(* Callers of the job market (platform/jobs.go, commerce/client.go) and     *)
(* evaluators (commerce/evaluator.go).  Each call goes through the retry    *)
(* loop of platform/client.go, which repeats a request that may already     *)
(* have taken effect; an evaluator checks a job with one call and settles   *)
(* it with the next.                                                        *)
(***************************************************************************)
EXTENDS JobMarket

CONSTANTS Callers,      \* the goroutines that use the market
          MaxRetries,   \* how often a request is repeated
          None          \* no job

ASSUME SettlementAssumption ==
    /\ MaxRetries \in Nat
    /\ None \notin Jobs
    /\ IsFiniteSet(Jobs)

VARIABLES
    plan,      \* what each caller is about: a method of JobClient, or "settle"
    target,    \* the job it is about; for "create", the id it was answered
    op,        \* the request it is making
    at,        \* where it is in the retry loop
    attempt,   \* how many attempts have failed
    seen,      \* the status in the last answer, "none" out of scope
    checked,   \* the deliverable that GetJob answered
    outcome,   \* what the caller was returned
    made       \* history: the jobs that its requests created

callVars == <<plan, target>>
doVars == <<op, at, attempt, seen, checked>>
vars == <<job, work, plan, target, op, at, attempt, seen, checked, outcome, made>>

Plans == {"create", "accept", "submit", "complete", "settle"}
Requests == {"create", "get", "accept", "submit", "complete", "reject"}

Init ==
    /\ MarketInit
    /\ plan = [c \in Callers |-> "none"]
    /\ target = [c \in Callers |-> None]
    /\ op = [c \in Callers |-> "none"]
    /\ at = [c \in Callers |-> "idle"]
    /\ attempt = [c \in Callers |-> 0]
    /\ seen = [c \in Callers |-> "none"]
    /\ checked = [c \in Callers |-> "missing"]
    /\ outcome = [c \in Callers |-> "none"]
    /\ made = [c \in Callers |-> {}]

\* A caller uses a method of JobClient, or an evaluator VerifyAndSettle.
Begin(c) == \E p \in Plans, j \in Jobs :
    /\ at[c] = "idle"
    /\ p # "create" => job[j] # "none"
    /\ plan' = [plan EXCEPT ![c] = p]
    /\ target' = [target EXCEPT ![c] = IF p = "create" THEN None ELSE j]
    /\ op' = [op EXCEPT ![c] = IF p = "settle" THEN "get" ELSE p]
    /\ at' = [at EXCEPT ![c] = "sending"]
    /\ UNCHANGED <<marketVars, attempt, seen, checked, outcome, made>>

-----------------------------------------------------------------------------
(* The retry loop *)

\* The request takes effect at the market.
Effect(c) ==
    CASE op[c] = "create" -> \E j \in Jobs :
            /\ PostJob(j)
            /\ made' = [made EXCEPT ![c] = @ \cup {j}]
      [] op[c] = "get" -> UNCHANGED <<marketVars, made>>
      [] OTHER -> Operate(op[c], target[c]) /\ UNCHANGED made

\* Defect: the attempts are not counted.
RetryForever(c) ==
    /\ at' = [at EXCEPT ![c] = "waiting"]
    /\ UNCHANGED attempt

\* Defect: one attempt too many.
RetryOnceMore(c) ==
    /\ attempt' = [attempt EXCEPT ![c] = @ + 1]
    /\ at' = [at EXCEPT ![c] = IF attempt[c] > MaxRetries THEN "failed" ELSE "waiting"]

\* A network error or a retryable status: another attempt, or the last error.
Retry(c) ==
    /\ attempt' = [attempt EXCEPT ![c] = @ + 1]
    /\ at' = [at EXCEPT ![c] = IF attempt[c] = MaxRetries THEN "failed" ELSE "waiting"]

\* The attempt fails for the caller, whether or not the market took it.
AttemptFails(c) ==
    /\ at[c] = "sending"
    /\ Effect(c) \/ UNCHANGED <<marketVars, made>>
    /\ Retry(c)
    /\ UNCHANGED <<callVars, op, seen, checked, outcome>>

\* The market refuses, or accepts with an answer that cannot be decoded.
AttemptRefused(c) ==
    /\ at[c] = "sending"
    /\ Effect(c) \/ UNCHANGED <<marketVars, made>>
    /\ at' = [at EXCEPT ![c] = "failed"]
    /\ UNCHANGED <<callVars, op, attempt, seen, checked, outcome>>

\* The market answers with the new job, or with the job as it now is.
AttemptCreates(c) ==
    /\ at[c] = "sending" /\ op[c] = "create"
    /\ \E j \in Jobs :
          /\ PostJob(j)
          /\ made' = [made EXCEPT ![c] = @ \cup {j}]
          /\ target' = [target EXCEPT ![c] = j]
    /\ seen' = [seen EXCEPT ![c] = "open"]
    /\ at' = [at EXCEPT ![c] = "answered"]
    /\ UNCHANGED <<plan, op, attempt, checked, outcome>>

AttemptAnswered(c) ==
    /\ at[c] = "sending" /\ op[c] # "create"
    /\ Effect(c)
    /\ seen' = [seen EXCEPT ![c] = job'[target[c]]]
    /\ checked' = [checked EXCEPT ![c] = IF op[c] = "get" THEN work[target[c]] ELSE @]
    /\ at' = [at EXCEPT ![c] = "answered"]
    /\ UNCHANGED <<callVars, op, attempt, outcome>>

\* The delay before the next attempt is over.
Backoff(c) ==
    /\ at[c] = "waiting"
    /\ at' = [at EXCEPT ![c] = "sending"]
    /\ UNCHANGED <<marketVars, callVars, op, attempt, seen, checked, outcome, made>>

\* The context ends during the delay.
ContextDone(c) ==
    /\ at[c] = "waiting"
    /\ at' = [at EXCEPT ![c] = "failed"]
    /\ UNCHANGED <<marketVars, callVars, op, attempt, seen, checked, outcome, made>>

-----------------------------------------------------------------------------
(* What the callers make of it *)

\* Defect: any answer will do.
ReportsAny(c) == TRUE

\* The methods of JobClient return true if the answer shows the status they
\* are for.
Reports(c) == op[c] = "create" \/ seen[c] = To[op[c]]

Return(c) ==
    /\ plan[c] # "settle" /\ at[c] \in {"answered", "failed"}
    /\ outcome' = [outcome EXCEPT ![c] = IF at[c] = "failed" THEN "error"
                                         ELSE IF Reports(c) THEN "true" ELSE "false"]
    /\ at' = [at EXCEPT ![c] = "returned"]
    /\ seen' = [seen EXCEPT ![c] = "none"]
    /\ UNCHANGED <<marketVars, callVars, op, attempt, checked, made>>

\* VerifyAndSettle gives up on a job it cannot get or that is not submitted.
GiveUp(c) ==
    /\ plan[c] = "settle" /\ op[c] = "get"
    /\ at[c] = "failed" \/ (at[c] = "answered" /\ seen[c] # "submitted")
    /\ outcome' = [outcome EXCEPT ![c] = "false"]
    /\ at' = [at EXCEPT ![c] = "returned"]
    /\ seen' = [seen EXCEPT ![c] = "none"]
    /\ UNCHANGED <<marketVars, callVars, op, attempt, checked, made>>

\* Defect: a deliverable that is absent is not told from one that fits.
VerdictLax(deliverable) == IF deliverable = "unfit" THEN "reject" ELSE "complete"

\* validateData's verdict on a deliverable; one that is absent is rejected.
Verdict(deliverable) == IF deliverable = "fitting" THEN "complete" ELSE "reject"

Decide(c) ==
    /\ plan[c] = "settle" /\ op[c] = "get"
    /\ at[c] = "answered" /\ seen[c] = "submitted"
    /\ op' = [op EXCEPT ![c] = Verdict(checked[c])]
    /\ at' = [at EXCEPT ![c] = "sending"]
    /\ attempt' = [attempt EXCEPT ![c] = 0]
    /\ UNCHANGED <<marketVars, callVars, seen, checked, outcome, made>>

\* A completion is reported as Complete reports it; a rejection whose request
\* succeeds is reported as true, unless the deliverable was absent.
Settle(c) ==
    /\ plan[c] = "settle" /\ op[c] \in {"complete", "reject"}
    /\ at[c] \in {"answered", "failed"}
    /\ outcome' = [outcome EXCEPT ![c] =
           IF op[c] = "complete"
           THEN IF at[c] = "failed" THEN "error" ELSE IF Reports(c) THEN "true" ELSE "false"
           ELSE IF at[c] = "answered" /\ checked[c] # "missing" THEN "true" ELSE "false"]
    /\ at' = [at EXCEPT ![c] = "returned"]
    /\ seen' = [seen EXCEPT ![c] = "none"]
    /\ UNCHANGED <<marketVars, callVars, op, attempt, checked, made>>

-----------------------------------------------------------------------------
Step(c) ==
    \/ AttemptFails(c) \/ AttemptRefused(c) \/ AttemptCreates(c) \/ AttemptAnswered(c)
    \/ Backoff(c) \/ ContextDone(c)
    \/ Return(c) \/ GiveUp(c) \/ Decide(c) \/ Settle(c)

Next == \E c \in Callers : Begin(c) \/ Step(c)

Spec == Init /\ [][Next]_vars

\* Goroutines are scheduled, requests end by the client's timeout and delays
\* pass; no attempt is promised to succeed.
FairSpec == Spec /\ \A c \in Callers : WF_vars(Step(c))

-----------------------------------------------------------------------------
(* Properties *)

\* Every variable has its type; a request names a job unless it creates one.
TypeOK ==
    /\ job \in [Jobs -> Statuses \cup {"none"}]
    /\ work \in [Jobs -> Works]
    /\ plan \in [Callers -> Plans \cup {"none"}]
    /\ target \in [Callers -> Jobs \cup {None}]
    /\ op \in [Callers -> Requests \cup {"none"}]
    /\ at \in [Callers -> {"idle", "sending", "waiting", "answered", "failed", "returned"}]
    /\ attempt \in [Callers -> 0..MaxRetries + 1]
    /\ seen \in [Callers -> Statuses \cup {"none"}]
    /\ checked \in [Callers -> Works]
    /\ outcome \in [Callers -> {"none", "true", "false", "error"}]
    /\ made \in [Callers -> SUBSET Jobs]
    /\ \A c \in Callers : op[c] \notin {"none", "create"} => target[c] \in Jobs

\* The statuses a job can be in once it has been in one.
Since(status) ==
    CASE status = "open" -> Statuses
      [] status = "accepted" -> Statuses \ {"open"}
      [] status = "submitted" -> {"submitted"} \cup Settled
      [] OTHER -> {status}

\* A caller that is told true was told so of its job: the status it asked for
\* was reached, and an evaluator's job is settled - completed, if it found the
\* deliverable to fit - whoever else works on the job and however often the
\* requests were repeated (do, JobClient, VerifyAndSettle).
TrueIsSo ==
    \A c \in Callers : outcome[c] = "true" =>
        /\ plan[c] \in {"accept", "submit", "complete"} => job[target[c]] \in Since(To[plan[c]])
        /\ plan[c] = "settle" => /\ job[target[c]] \in Settled
                                 /\ checked[c] = "fitting" => job[target[c]] = "completed"

\* Evaluators settle what they checked: a job whose deliverable fails its
\* schema is not completed, except by a caller of Complete, and one that fits
\* is not rejected, however late the verdict arrives (VerifyAndSettle).
VerdictFits ==
    \A j \in Jobs :
        /\ job[j] = "completed" /\ work[j] # "fitting" =>
             \E c \in Callers : plan[c] = "complete" /\ target[c] = j
        /\ job[j] = "rejected" => work[j] # "fitting"

\* A call of Create makes a job for each failed attempt at most, besides the
\* one it answers, which it made: a job is made twice only by a repeated
\* request (do, CreateJob).
CreateAccounted ==
    \A c \in Callers :
        /\ Cardinality(made[c]) <= attempt[c] + 1
        /\ plan[c] = "create" /\ outcome[c] = "true" => target[c] \in made[c]

\* Every call returns: the retries are bounded.
CallReturns ==
    \A c \in Callers : at[c] = "sending" ~> at[c] = "returned"
=============================================================================
