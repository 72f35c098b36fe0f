----------------------------- MODULE EventStream -----------------------------
(***************************************************************************)
(* What the reader of a run's event stream is promised: it receives the     *)
(* platform's events in their order, none twice and none left out, and it   *)
(* is told once how the stream ended - that it ended well only when it has  *)
(* received all of it.                                                      *)
(***************************************************************************)
EXTENDS Naturals, Sequences

CONSTANTS Events,     \* what the platform may send
          MaxEvents   \* bound: events of one run

VARIABLES wire,     \* the events the platform has sent
          line,     \* "none" before the response, "open", "ended", "cut"
          events,   \* the events the reader has received
          told      \* what it was told of the end: "none", "end", "error"

streamVars == <<wire, line, events, told>>

Init ==
    /\ wire = <<>>
    /\ line = "none"
    /\ events = <<>>
    /\ told = "none"

\* The platform answers, sends, and ends the stream; a network or a deadline
\* cuts it.
Open ==
    /\ line = "none"
    /\ line' = "open"
    /\ UNCHANGED <<wire, events, told>>

Send(e) ==
    /\ line = "open"
    /\ Len(wire) < MaxEvents
    /\ wire' = Append(wire, e)
    /\ UNCHANGED <<line, events, told>>

Finish ==
    /\ line = "open"
    /\ line' \in {"ended", "cut"}
    /\ UNCHANGED <<wire, events, told>>

Receive ==
    /\ told = "none"
    /\ Len(events) < Len(wire)
    /\ events' = Append(events, wire[Len(events) + 1])
    /\ UNCHANGED <<wire, line, told>>

TellEnd ==
    /\ told = "none"
    /\ line = "ended" /\ events = wire
    /\ told' = "end"
    /\ UNCHANGED <<wire, line, events>>

TellError ==
    /\ told = "none"
    /\ told' = "error"
    /\ UNCHANGED <<wire, line, events>>

Next ==
    \/ Open \/ Finish \/ Receive \/ TellEnd \/ TellError
    \/ \E e \in Events : Send(e)

Spec == Init /\ [][Next]_streamVars
=============================================================================
