---------------------------- MODULE AgentContract ----------------------------
(***************************************************************************)
(* What a polling agent owes the gateway's task queue, whichever program it *)
(* is: it holds at most one task at a time, it reports only the task it     *)
(* holds, once, and it lets go of a task unreported only when the network   *)
(* lost its assignment or its report.  The polling loop of the server       *)
(* (PollingAgent) and the external agent client (ExternalAgent) implement   *)
(* it.                                                                      *)
(***************************************************************************)
EXTENDS GatewayQueue

CONSTANT None   \* no task

VARIABLES held,  \* the task in the agent's hands
          lost   \* the tasks whose assignment or report was lost

contractVars == <<gatewayVars, held, lost>>

Init ==
    /\ GatewayInit
    /\ held = None
    /\ lost = {}

Take(t) ==
    /\ held = None
    /\ Assign(t)
    /\ held' = t
    /\ UNCHANGED lost

TakeLost(t) ==
    /\ held = None
    /\ Assign(t)
    /\ lost' = lost \cup {t}
    /\ UNCHANGED held

\* A completed report carries an outcome.
Report ==
    /\ held # None
    /\ \E state \in {"completed", "failed"}, inner \in Outcomes :
          /\ state = "completed" => inner # "none"
          /\ Complete(held, state, inner)
    /\ held' = None
    /\ UNCHANGED lost

ReportLost ==
    /\ held # None
    /\ lost' = lost \cup {held}
    /\ held' = None
    /\ UNCHANGED gatewayVars

\* The queue's clients submit and cancel.
ClientStep ==
    /\ \E t \in Tasks : Enqueue(t) \/ CancelQueued(t)
    /\ UNCHANGED <<held, lost>>

Next ==
    \/ \E t \in Tasks : Take(t) \/ TakeLost(t)
    \/ Report
    \/ ReportLost
    \/ ClientStep

Spec == Init /\ [][Next]_contractVars
=============================================================================
