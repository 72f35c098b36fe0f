----------------------------- MODULE PlatformRun -----------------------------
(***************************************************************************)
(* A run on the platform (platform/client.go): the goroutine of RunStream   *)
(* reads the platform's events and hands them over on an unbuffered channel *)
(* to its reader, which is Run, or a caller of RunStream that may leave.    *)
(***************************************************************************)
EXTENDS Integers, Sequences

CONSTANT MaxEvents   \* bound: events the platform sends in one run

ASSUME RunAssumption == MaxEvents \in Nat

\* What Run tells apart of an event: its type, and whether it carries a run id.
\* "completed" and "error" stand for completedEventTypes and errorEventTypes.
EventTypes == {"completed", "error", "payment", "other"}
Events == [type : EventTypes, named : BOOLEAN]

VARIABLES
    reader,     \* who reads the channel: "run" or "caller"
    wire,       \* the events the platform has sent
    line,       \* the response: "none", "open", "ended" or "cut"
    producer,   \* where the goroutine of RunStream is
    scanned,    \* how many events it has read
    consumer,   \* where the reader is
    events,     \* Run's local events
    payments,   \* its local payments, as positions in events
    result,     \* the position of the event it took its result from, 0 for nil
    runID,      \* the position of the event it took the run id from, 0 for ""
    errMsg      \* where its error message is from: 0 for "", or StreamError

StreamError == -1

platformVars == <<wire, line>>
producerVars == <<producer, scanned>>
runVars == <<events, payments, result, runID, errMsg>>
vars == <<reader, wire, line, producer, scanned, consumer, events, payments,
          result, runID, errMsg>>

Init ==
    /\ reader \in {"run", "caller"}
    /\ wire = <<>> /\ line = "none"
    /\ producer = "requesting" /\ scanned = 0
    /\ consumer = "receiving"
    /\ events = <<>> /\ payments = <<>>
    /\ result = 0 /\ runID = 0 /\ errMsg = 0

-----------------------------------------------------------------------------
(* The platform and the network *)

Send(e) ==
    /\ line = "open"
    /\ Len(wire) < MaxEvents
    /\ wire' = Append(wire, e)
    /\ UNCHANGED <<reader, line, producerVars, consumer, runVars>>

EndStream ==
    /\ line = "open"
    /\ line' = "ended"
    /\ UNCHANGED <<reader, wire, producerVars, consumer, runVars>>

\* The connection breaks, the caller's context ends, or one of the two
\* deadlines passes: the stream's own or that of the HTTP client.
Cut ==
    /\ line = "open"
    /\ line' = "cut"
    /\ UNCHANGED <<reader, wire, producerVars, consumer, runVars>>

-----------------------------------------------------------------------------
(* RunStream's goroutine *)

\* The request fails or is refused, or its response opens the stream.
Request ==
    /\ producer = "requesting"
    /\ \/ producer' = "failing" /\ UNCHANGED line
       \/ producer' = "scanning" /\ line' = "open"
    /\ UNCHANGED <<reader, wire, scanned, consumer, runVars>>

\* The next event is read; it is offered on the channel until it is taken.
Scan ==
    /\ producer = "scanning"
    /\ scanned < Len(wire)
    /\ scanned' = scanned + 1
    /\ producer' = "offering"
    /\ UNCHANGED <<reader, platformVars, consumer, runVars>>

\* The stream is over: every event was read.
ScanEnds ==
    /\ producer = "scanning"
    /\ line = "ended" /\ scanned = Len(wire)
    /\ producer' = "ending"
    /\ UNCHANGED <<reader, platformVars, scanned, consumer, runVars>>

\* Defect: scanner.Err is not looked at.
ScanFailsSilently ==
    /\ producer = "scanning"
    /\ line = "cut" \/ scanned < Len(wire)
    /\ producer' = "ending"
    /\ UNCHANGED <<reader, platformVars, scanned, consumer, runVars>>

\* The stream was cut, or its next line exceeds the scanner's buffer.
ScanFails ==
    /\ producer = "scanning"
    /\ line = "cut" \/ scanned < Len(wire)
    /\ producer' = "failing"
    /\ UNCHANGED <<reader, platformVars, scanned, consumer, runVars>>

Close ==
    /\ producer = "ending"
    /\ producer' = "closed"
    /\ UNCHANGED <<reader, platformVars, scanned, consumer, runVars>>

-----------------------------------------------------------------------------
(* The reader *)

\* Defects: a payment is not kept among the events; a completed event clears
\* the error.
RecordUnlessPayment(e) ==
    /\ events' = IF e.type = "payment" THEN events ELSE Append(events, e)
    /\ runID' = IF runID = 0 /\ e.named THEN Len(events) + 1 ELSE runID
    /\ payments' = IF e.type = "payment" THEN Append(payments, Len(events) + 1) ELSE payments
    /\ result' = IF e.type = "completed" THEN Len(events) + 1 ELSE result
    /\ errMsg' = IF e.type = "error" THEN Len(events) + 1 ELSE errMsg

RecordForgiving(e) ==
    /\ events' = Append(events, e)
    /\ runID' = IF runID = 0 /\ e.named THEN Len(events) + 1 ELSE runID
    /\ payments' = IF e.type = "payment" THEN Append(payments, Len(events) + 1) ELSE payments
    /\ result' = IF e.type = "completed" THEN Len(events) + 1 ELSE result
    /\ errMsg' = IF e.type = "error" THEN Len(events) + 1
                 ELSE IF e.type = "completed" THEN 0 ELSE errMsg

\* The body of Run's loop for an event: the first run id, every payment, the
\* last result and the last error are kept.
Record(e) ==
    /\ events' = Append(events, e)
    /\ runID' = IF runID = 0 /\ e.named THEN Len(events) + 1 ELSE runID
    /\ payments' = IF e.type = "payment" THEN Append(payments, Len(events) + 1) ELSE payments
    /\ result' = IF e.type = "completed" THEN Len(events) + 1 ELSE result
    /\ errMsg' = IF e.type = "error" THEN Len(events) + 1 ELSE errMsg

\* Defect: Run stops reading at the completed event.
ReceiveUntilCompleted ==
    /\ producer = "offering" /\ consumer = "receiving"
    /\ Record(wire[scanned])
    /\ producer' = "scanning"
    /\ consumer' = IF wire[scanned].type = "completed" THEN "returned" ELSE consumer
    /\ UNCHANGED <<reader, platformVars, scanned>>

\* An event passes from the goroutine to the reader.
Receive ==
    /\ producer = "offering" /\ consumer = "receiving"
    /\ Record(wire[scanned])
    /\ producer' = "scanning"
    /\ UNCHANGED <<reader, platformVars, scanned, consumer>>

\* An error passes, which ends Run's loop as it ends the goroutine.
ReceiveError ==
    /\ producer = "failing" /\ consumer = "receiving"
    /\ errMsg' = StreamError
    /\ consumer' = "returned"
    /\ producer' = "ending"
    /\ UNCHANGED <<reader, platformVars, scanned, events, payments, result, runID>>

\* The channel is closed: the loop ends.
ReceiveClosed ==
    /\ producer = "closed" /\ consumer = "receiving"
    /\ consumer' = "returned"
    /\ UNCHANGED <<reader, platformVars, producerVars, runVars>>

\* A caller of RunStream stops reading; Run never does.
Leave ==
    /\ reader = "caller" /\ consumer = "receiving"
    /\ consumer' = "left"
    /\ UNCHANGED <<reader, platformVars, producerVars, runVars>>

-----------------------------------------------------------------------------
\* What the two goroutines do next.
RunStep ==
    \/ Request \/ Scan \/ ScanEnds \/ ScanFails \/ Close
    \/ Receive \/ ReceiveError \/ ReceiveClosed

Next ==
    \/ \E e \in Events : Send(e)
    \/ EndStream
    \/ Cut
    \/ RunStep
    \/ Leave

Spec == Init /\ [][Next]_vars

\* The goroutines are scheduled, requests end by their timeouts and an open
\* stream by its deadline; nothing is promised of the platform or the caller.
FairSpec == Spec /\ WF_vars(RunStep) /\ WF_vars(Cut)

-----------------------------------------------------------------------------
(* Properties *)

\* What Run returns as its status.
Status == IF errMsg # 0 THEN "failed" ELSE "completed"

Producers == {"requesting", "scanning", "offering", "failing", "ending", "closed"}

\* Every variable has its type, and what Run takes from events is in them.
TypeOK ==
    /\ reader \in {"run", "caller"}
    /\ wire \in Seq(Events)
    /\ line \in {"none", "open", "ended", "cut"}
    /\ producer \in Producers
    /\ scanned \in 0..Len(wire)
    /\ producer = "offering" => scanned > 0
    /\ consumer \in {"receiving", "returned", "left"}
    /\ events \in Seq(Events)
    /\ payments \in Seq(1..Len(events))
    /\ result \in 0..Len(events)
    /\ runID \in 0..Len(events)
    /\ errMsg \in StreamError..Len(events)

\* The positions of the events of a type that Run has received.
Positions(type) == {i \in 1..Len(events) : events[i].type = type}

\* Whatever the order of terminal events, Run's result is that of the last
\* completed one and its error that of the last failed one, unless the stream
\* broke; its run id is the first; its payments are all of them, in order.  It
\* has none of these only if no such event came.
AggregateFaithful ==
    /\ IF Positions("completed") = {} THEN result = 0
       ELSE result \in Positions("completed")
            /\ \A i \in Positions("completed") : i <= result
    /\ errMsg # StreamError =>
         IF Positions("error") = {} THEN errMsg = 0
         ELSE errMsg \in Positions("error")
              /\ \A i \in Positions("error") : i <= errMsg
    /\ IF \A i \in 1..Len(events) : ~events[i].named THEN runID = 0
       ELSE /\ runID \in 1..Len(events) /\ events[runID].named
            /\ \A i \in 1..runID - 1 : ~events[i].named
    /\ {payments[i] : i \in 1..Len(payments)} = Positions("payment")
    /\ \A i, j \in 1..Len(payments) : i < j => payments[i] < payments[j]

\* A run reported as completed received the whole stream of a platform that
\* ended it, with no error in it: one that was cut, timed out or never started
\* is not passed off as completed.
SuccessIsWhole ==
    consumer = "returned" /\ Status = "completed" =>
        /\ line = "ended"
        /\ events = wire
        /\ \A i \in 1..Len(wire) : wire[i].type # "error"

\* The reader has what EventStream promises.
Stream == INSTANCE EventStream
            WITH told <- IF errMsg = StreamError THEN "error"
                         ELSE IF consumer = "returned" THEN "end" ELSE "none"
KeepsStream == Stream!Spec

\* The goroutine ends and its channel is closed, and Run returns, although it
\* breaks out of its loop; only a caller that leaves can strand the goroutine.
RunEnds ==
    consumer = "receiving" ~>
        \/ consumer = "returned" /\ producer = "closed"
        \/ consumer = "left"
=============================================================================
