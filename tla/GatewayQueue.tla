---------------------------- MODULE GatewayQueue ----------------------------
(***************************************************************************)
(* The gateway's task queue.  It is a service outside this repository: what *)
(* is modelled is what its callers rely on (gateway/a2a_client.go submits,  *)
(* asks for status and result, cancels; server/registration.go and          *)
(* agent/external.go poll and complete).  What they do not rely on is left  *)
(* open.                                                                    *)
(***************************************************************************)
EXTENDS Naturals, FiniteSets

CONSTANT Tasks   \* the task ids; a client draws a fresh one for each call

VARIABLES gw,       \* the status the gateway reports for a task
          outcome   \* the state of the agent's Task inside the result it holds

gatewayVars == <<gw, outcome>>

GatewayStates == {"absent", "queued", "assigned", "completed", "failed", "canceled"}
Over == {"completed", "failed", "canceled"}
Outcomes == {"none", "completed", "failed"}

GatewayInit ==
    /\ gw = [t \in Tasks |-> "absent"]
    /\ outcome = [t \in Tasks |-> "none"]

\* POST /gateway/tasks/submit takes effect.
Enqueue(t) ==
    /\ gw[t] = "absent"
    /\ gw' = [gw EXCEPT ![t] = "queued"]
    /\ UNCHANGED outcome

\* GET /gateway/tasks/poll hands a queued task to the agent.
Assign(t) ==
    /\ gw[t] = "queued"
    /\ gw' = [gw EXCEPT ![t] = "assigned"]
    /\ UNCHANGED outcome

\* POST /gateway/tasks/complete takes effect: on a task canceled meanwhile the
\* gateway may keep the cancel or take the result.
Complete(t, state, inner) ==
    \/ /\ gw[t] \in {"assigned", "canceled"}
       /\ gw' = [gw EXCEPT ![t] = state]
       /\ outcome' = [outcome EXCEPT ![t] = inner]
    \/ gw[t] = "canceled" /\ UNCHANGED gatewayVars

\* POST /gateway/tasks/<id>/cancel takes effect, on a task that is not over.
CancelQueued(t) ==
    /\ gw[t] \in {"queued", "assigned"}
    /\ gw' = [gw EXCEPT ![t] = "canceled"]
    /\ UNCHANGED outcome
=============================================================================
