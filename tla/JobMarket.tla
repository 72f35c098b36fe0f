------------------------------ MODULE JobMarket ------------------------------
(***************************************************************************)
(* The platform's job market.  It is a service outside this repository:     *)
(* what is modelled is what platform/jobs.go, commerce/client.go and        *)
(* commerce/evaluator.go ask of it.  A job goes through its statuses in one *)
(* direction, and its settlement, which is on a chain, is final.            *)
(***************************************************************************)
EXTENDS Naturals, FiniteSets

CONSTANT Jobs   \* the jobs there can be

VARIABLES job,    \* the status of each job, "none" if there is no such job
          work    \* its deliverable, by what an evaluator makes of it

marketVars == <<job, work>>

Statuses == {"open", "accepted", "submitted", "completed", "rejected"}
Settled == {"completed", "rejected"}

\* deliverable_data is absent, or fits the deliverable schema, or does not.
Works == {"missing", "fitting", "unfit"}

\* The market is in use when a caller comes to it: jobs wait for work or for
\* a verdict.
MarketInit ==
    /\ job \in [Jobs -> {"none", "accepted", "submitted"}]
    /\ work \in [Jobs -> Works]
    /\ \A j \in Jobs : job[j] # "submitted" => work[j] = "missing"

\* A new job, under an id of the market's choice.
PostJob(j) ==
    /\ job[j] = "none"
    /\ job' = [job EXCEPT ![j] = "open"]
    /\ UNCHANGED work

\* The status an operation takes a job from, and the one it takes it to.
From == [accept |-> "open", submit |-> "accepted",
         complete |-> "submitted", reject |-> "submitted"]
To == [accept |-> "accepted", submit |-> "submitted",
       complete |-> "completed", reject |-> "rejected"]

\* An operation in a status that does not allow it changes nothing.
Operate(op, j) ==
    IF job[j] = From[op]
    THEN /\ job' = [job EXCEPT ![j] = To[op]]
         /\ IF op = "submit" THEN \E w \in Works : work' = [work EXCEPT ![j] = w]
            ELSE UNCHANGED work
    ELSE UNCHANGED marketVars
=============================================================================
