------------------------------- MODULE Readiness -------------------------------
(***************************************************************************)
(* Waiting for the services: WaitForReady of platform/client.go,            *)
(* WaitForGateway of gateway/client.go and WaitForServices of               *)
(* registry/registry.go, over health checks of services that come and go.   *)
(***************************************************************************)
EXTENDS Naturals

CONSTANT MaxAttempts  \* the most attempts a caller asks for

ASSUME AttemptsAssumption == MaxAttempts \in Nat

VARIABLES
    up,       \* the services that are healthy now
    waitCtx,  \* the caller's context: "live" or "canceled"
    wait,     \* the call: which one, its attempts, and where it is
    checked   \* the services found healthy in the current attempt

waitVars == <<up, waitCtx, wait, checked>>

Services == {"platform", "gateway"}

\* What a call checks; the registry's client in gateway mode both, in order.
Needs == CASE wait.call = "WaitForReady"    -> <<"platform">>
           [] wait.call = "WaitForGateway"  -> <<"gateway">>
           [] wait.call = "WaitForServices" -> <<"platform", "gateway">>
Needed == {Needs[i] : i \in DOMAIN Needs}

WaitInit ==
    /\ up \in SUBSET Services
    /\ waitCtx = "live"
    /\ wait \in [call : {"WaitForReady", "WaitForGateway", "WaitForServices"},
                 attempts : 0..MaxAttempts, made : {0}, stage : {"attempt"}, at : {1}]
    /\ checked = {}

-----------------------------------------------------------------------------
\* A service comes or goes.
Turn == \E s \in Services :
    /\ up' = IF s \in up THEN up \ {s} ELSE up \cup {s}
    /\ UNCHANGED <<waitCtx, wait, checked>>

CancelWait ==
    /\ waitCtx = "live"
    /\ waitCtx' = "canceled"
    /\ UNCHANGED <<up, wait, checked>>

\* The head of the loop.
BeginAttempt ==
    /\ wait.stage = "attempt"
    /\ wait' = IF wait.made < wait.attempts
               THEN [wait EXCEPT !.stage = "check", !.at = 1, !.made = @ + 1]
               ELSE [wait EXCEPT !.stage = "false"]
    /\ checked' = {}
    /\ UNCHANGED <<up, waitCtx>>

\* One HealthCheck; a request may fail although the service is healthy, and
\* does under a canceled context.
HealthCheck ==
    /\ wait.stage = "check"
    /\ wait.at \in DOMAIN Needs
    /\ \/ /\ Needs[wait.at] \in up
          /\ waitCtx = "live"
          /\ checked' = checked \cup {Needs[wait.at]}
       \/ UNCHANGED checked
    /\ wait' = [wait EXCEPT !.at = @ + 1]
    /\ UNCHANGED <<up, waitCtx>>

\* Defect: one healthy service is enough.
AnyChecked ==
    /\ wait.stage = "check"
    /\ wait.at \notin DOMAIN Needs
    /\ wait' = [wait EXCEPT !.stage = IF checked # {} THEN "true" ELSE "sleep"]
    /\ UNCHANGED <<up, waitCtx, checked>>

\* All checks of the attempt are made.  Only WaitForReady sleeps after its last
\* attempt too.
EndAttempt ==
    /\ wait.stage = "check"
    /\ wait.at \notin DOMAIN Needs
    /\ wait' = [wait EXCEPT !.stage =
         IF checked = Needed THEN "true"
         ELSE IF wait.made < wait.attempts \/ wait.call = "WaitForReady" THEN "sleep"
         ELSE "attempt"]
    /\ UNCHANGED <<up, waitCtx, checked>>

\* The interval is over, or the context is.
Sleep ==
    /\ wait.stage = "sleep"
    /\ \/ wait' = [wait EXCEPT !.stage = "attempt"]
       \/ waitCtx = "canceled" /\ wait' = [wait EXCEPT !.stage = "false"]
    /\ UNCHANGED <<up, waitCtx, checked>>

Waiting == BeginAttempt \/ HealthCheck \/ EndAttempt \/ Sleep
WaitNext == Turn \/ CancelWait \/ Waiting

\* The call goes on: requests time out and intervals pass.
WaitFairness == WF_waitVars(Waiting)

WaitSpec == WaitInit /\ [][WaitNext]_waitVars /\ WaitFairness

-----------------------------------------------------------------------------
WaitTypeOK ==
    /\ up \subseteq Services
    /\ waitCtx \in {"live", "canceled"}
    /\ wait \in [call : {"WaitForReady", "WaitForGateway", "WaitForServices"},
                 attempts : 0..MaxAttempts, made : 0..MaxAttempts,
                 stage : {"attempt", "check", "sleep", "true", "false"}, at : 1..3]
    /\ checked \subseteq Services

\* A caller that is told to go on has seen every service it needs healthy within
\* one attempt, none of it left over from an earlier one; one that is told not
\* to has used up its attempts, or its context has ended.
WaitHonest ==
    /\ wait.stage = "true" => checked = Needed /\ wait.made > 0
    /\ wait.stage = "false" => wait.made = wait.attempts \/ waitCtx = "canceled"

\* A call that has begun returns, however the services come and go.
WaitEnds == wait.made > 0 ~> wait.stage \in {"true", "false"}
=============================================================================
