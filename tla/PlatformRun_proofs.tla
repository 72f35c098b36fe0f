-------------------------- MODULE PlatformRun_proofs --------------------------
(***************************************************************************)
(* Proofs about PlatformRun for runs of any length.                         *)
(***************************************************************************)
EXTENDS PlatformRun, SequenceTheorems, TLAPS

\* The reader has what the goroutine has handed over, which is what it scanned
\* but for an event on offer; the goroutine ends after an error that it told,
\* or after the whole of a stream that ended; and a reader that has returned
\* leaves nothing for the goroutine to offer.
HandedInv ==
    /\ Len(events) = IF producer = "offering" THEN scanned - 1 ELSE scanned
    /\ \A i \in 1..Len(events) : events[i] = wire[i]
    /\ producer = "requesting" => line = "none"
    /\ line = "none" => wire = <<>>
    /\ producer \in {"ending", "closed"} =>
         \/ errMsg = StreamError
         \/ line = "ended" /\ scanned = Len(wire)
    /\ consumer = "returned" => producer \in {"ending", "closed"}
    /\ errMsg = StreamError => consumer = "returned"

RunInv == TypeOK /\ HandedInv

\* What Run records of an event, position by position.
LEMMA Recorded ==
    ASSUME TypeOK, NEW e \in Events, Record(e)
    PROVE  LET n == Len(events) + 1 IN
           /\ events' \in Seq(Events) /\ Len(events') = n
           /\ events'[n] = e
           /\ \A i \in 1..Len(events) : events'[i] = events[i]
           /\ payments' \in Seq(1..n)
<1> DEFINE n == Len(events) + 1
<1>1. events \in Seq(Events) /\ payments \in Seq(1..Len(events)) /\ Len(events) \in Nat
  BY LenProperties DEF TypeOK
<1>2. /\ events' \in Seq(Events) /\ Len(events') = n
      /\ events'[n] = e
      /\ \A i \in 1..Len(events) : events'[i] = events[i]
  BY <1>1, AppendProperties DEF Record
<1>3. payments \in Seq(1..n) /\ n \in 1..n
  <2>1. 1..Len(events) \subseteq 1..n /\ n \in 1..n
    BY <1>1
  <2> QED BY <1>1, <2>1, SeqMonotonic
<1>4. payments' \in Seq(1..n)
  BY <1>3, AppendProperties DEF Record
<1> QED BY <1>2, <1>4

LEMMA RunInvInit == Init => RunInv
<1> SUFFICES ASSUME Init PROVE RunInv
  OBVIOUS
<1>1. /\ wire \in Seq(Events) /\ events \in Seq(Events)
      /\ Len(wire) = 0 /\ Len(events) = 0
      /\ payments \in Seq(1..Len(events))
  BY EmptySeq DEF Init
<1>2. TypeOK
  BY <1>1 DEF Init, TypeOK, Producers, StreamError
<1>3. HandedInv
  BY <1>1 DEF Init, HandedInv, StreamError
<1> QED BY <1>2, <1>3 DEF RunInv

\* An event is handed over.
LEMMA ReceiveInv == RunInv /\ Receive => RunInv'
<1> SUFFICES ASSUME RunInv, Receive PROVE RunInv'
  OBVIOUS
<1> DEFINE n == Len(events) + 1
           e == wire[scanned]
<1>1. /\ Len(wire) \in Nat /\ Len(events) \in Nat
      /\ scanned \in 1..Len(wire) /\ scanned = n
  BY LenProperties DEF RunInv, TypeOK, HandedInv, Receive
<1>2. e \in Events
  BY <1>1, ElementOfSeq DEF RunInv, TypeOK
<1>3. /\ events' \in Seq(Events) /\ Len(events') = n
      /\ events'[n] = e
      /\ \A i \in 1..Len(events) : events'[i] = events[i]
      /\ payments' \in Seq(1..n)
  BY <1>2, Recorded DEF RunInv, Receive
<1>4. /\ result' \in 0..n /\ runID' \in 0..n /\ errMsg' \in StreamError..n
      /\ errMsg' = StreamError => errMsg = StreamError
  BY <1>1 DEF RunInv, TypeOK, Receive, Record, StreamError
<1>5. TypeOK'
  BY <1>1, <1>3, <1>4 DEF RunInv, TypeOK, Receive, Producers, platformVars
<1>6. \A i \in 1..n : events'[i] = wire'[i]
  <2> SUFFICES ASSUME NEW i \in 1..n PROVE events'[i] = wire'[i]
    OBVIOUS
  <2>1. CASE i = n
    BY <1>1, <1>3, <2>1 DEF Receive, platformVars
  <2>2. CASE i # n
    <3>1. i \in 1..Len(events)
      BY <1>1, <2>2
    <3> QED BY <3>1, <1>3 DEF RunInv, HandedInv, Receive, platformVars
  <2> QED BY <2>1, <2>2
<1>7. HandedInv'
  BY <1>1, <1>3, <1>4, <1>6 DEF RunInv, HandedInv, Receive, platformVars
<1> QED BY <1>5, <1>7 DEF RunInv

LEMMA RunInvNext == RunInv /\ [Next]_vars => RunInv'
<1> SUFFICES ASSUME RunInv, [Next]_vars PROVE RunInv'
  OBVIOUS
<1>0. /\ Len(wire) \in Nat /\ Len(events) \in Nat
      /\ wire \in Seq(Events) /\ scanned \in 0..Len(wire)
  BY LenProperties DEF RunInv, TypeOK
<1> USE DEF RunInv, TypeOK, HandedInv, Producers, StreamError, platformVars, producerVars, runVars
<1>1. ASSUME NEW e \in Events, Send(e) PROVE RunInv'
  <2>1. /\ wire' \in Seq(Events) /\ Len(wire') = Len(wire) + 1
        /\ \A i \in 1..Len(wire) : wire'[i] = wire[i]
    BY <1>0, <1>1, AppendProperties DEF Send
  <2>2. \A i \in 1..Len(events) : i \in 1..Len(wire)
    BY <1>0
  <2>3. TypeOK'
    BY <1>0, <1>1, <2>1 DEF Send
  <2>4. \A i \in 1..Len(events') : events'[i] = wire'[i]
    BY <1>1, <2>1, <2>2 DEF Send
  <2>5. HandedInv'
    BY <1>0, <1>1, <2>1, <2>4 DEF Send
  <2> QED BY <2>3, <2>5
<1>2. CASE EndStream
  BY <1>0, <1>2 DEF EndStream
<1>3. CASE Cut
  BY <1>0, <1>3 DEF Cut
<1>4. CASE Request
  BY <1>0, <1>4 DEF Request
<1>5. CASE Scan
  BY <1>0, <1>5 DEF Scan
<1>6. CASE ScanEnds
  BY <1>0, <1>6 DEF ScanEnds
<1>7. CASE ScanFails
  BY <1>0, <1>7 DEF ScanFails
<1>8. CASE Close
  BY <1>0, <1>8 DEF Close
<1>9. CASE Receive
  BY <1>9, ReceiveInv
<1>10. CASE ReceiveError
  BY <1>0, <1>10 DEF ReceiveError
<1>11. CASE ReceiveClosed
  BY <1>0, <1>11 DEF ReceiveClosed
<1>12. CASE Leave
  BY <1>0, <1>12 DEF Leave
<1>13. CASE UNCHANGED vars
  BY <1>13 DEF vars
<1> QED BY <1>1, <1>2, <1>3, <1>4, <1>5, <1>6, <1>7, <1>8, <1>9, <1>10, <1>11, <1>12, <1>13
        DEF Next, RunStep

LEMMA RunInvHolds == Spec => []RunInv
BY RunInvInit, RunInvNext, PTL DEF Spec

\* Type correctness.
THEOREM RunTypeCorrect == Spec => []TypeOK
<1>1. RunInv => TypeOK
  BY DEF RunInv
<1> QED BY <1>1, RunInvHolds, PTL

\* One event more is at one position more.
LEMMA PositionsGrow ==
    ASSUME TypeOK, NEW e \in Events, Record(e), NEW type
    PROVE  Positions(type)' = IF e.type = type THEN Positions(type) \cup {Len(events) + 1}
                              ELSE Positions(type)
<1> DEFINE n == Len(events) + 1
<1>1. /\ Len(events) \in Nat /\ Len(events') = n
      /\ events'[n] = e
      /\ \A i \in 1..Len(events) : events'[i] = events[i]
  BY Recorded, LenProperties DEF TypeOK
<1>2. 1..n = 1..Len(events) \cup {n} /\ n \notin 1..Len(events)
  BY <1>1
<1>3. \A i : i \in Positions(type)' <=>
               \/ i \in Positions(type)
               \/ i = n /\ e.type = type
  BY <1>1, <1>2 DEF Positions
<1> QED BY <1>3

\* Each step of Run's loop keeps the aggregate faithful.
LEMMA RecordFaithful ==
    ASSUME TypeOK, AggregateFaithful, errMsg # StreamError, NEW e \in Events, Record(e)
    PROVE  AggregateFaithful'
<1> DEFINE n == Len(events) + 1
<1>1. /\ Len(events) \in Nat /\ Len(events') = n
      /\ events'[n] = e
      /\ \A i \in 1..Len(events) : events'[i] = events[i]
  BY Recorded, LenProperties DEF TypeOK
<1>2. \A type : Positions(type) \subseteq 1..Len(events)
  BY DEF Positions
<1>3. IF Positions("completed")' = {} THEN result' = 0
      ELSE /\ result' \in Positions("completed")'
           /\ \A i \in Positions("completed")' : i <= result'
  <2>1. Positions("completed")' = IF e.type = "completed" THEN Positions("completed") \cup {n}
                                  ELSE Positions("completed")
    BY PositionsGrow
  <2>2. result' = IF e.type = "completed" THEN n ELSE result
    BY DEF Record
  <2>3. \A i \in Positions("completed") : i <= n
    BY <1>1, <1>2
  <2> QED BY <1>1, <2>1, <2>2, <2>3 DEF AggregateFaithful
<1>4. IF Positions("error")' = {} THEN errMsg' = 0
      ELSE /\ errMsg' \in Positions("error")'
           /\ \A i \in Positions("error")' : i <= errMsg'
  <2>1. Positions("error")' = IF e.type = "error" THEN Positions("error") \cup {n}
                              ELSE Positions("error")
    BY PositionsGrow
  <2>2. errMsg' = IF e.type = "error" THEN n ELSE errMsg
    BY DEF Record
  <2>3. \A i \in Positions("error") : i <= n
    BY <1>1, <1>2
  <2> QED BY <1>1, <2>1, <2>2, <2>3 DEF AggregateFaithful
<1>5. IF \A i \in 1..Len(events') : ~events'[i].named THEN runID' = 0
      ELSE /\ runID' \in 1..Len(events') /\ events'[runID'].named
           /\ \A i \in 1..runID' - 1 : ~events'[i].named
  <2>1. runID' = IF runID = 0 /\ e.named THEN n ELSE runID
    BY DEF Record
  <2>2. 1..n = 1..Len(events) \cup {n}
    BY <1>1
  <2>3. CASE runID = 0
    <3>1. \A i \in 1..Len(events) : ~events[i].named
      BY <2>3, <1>1 DEF AggregateFaithful
    <3>2. n - 1 = Len(events) /\ n \in 1..n
      BY <1>1
    <3> QED BY <1>1, <2>1, <2>2, <2>3, <3>1, <3>2
  <2>4. CASE runID # 0
    <3>1. /\ runID \in 1..Len(events) /\ events[runID].named
          /\ \A i \in 1..runID - 1 : ~events[i].named
      BY <2>4 DEF AggregateFaithful
    <3>2. \A i \in 1..runID - 1 : i \in 1..Len(events)
      BY <1>1, <3>1
    <3> QED BY <1>1, <2>1, <2>2, <2>4, <3>1, <3>2
  <2> QED BY <2>3, <2>4
<1>6. /\ {payments'[i] : i \in 1..Len(payments')} = Positions("payment")'
      /\ \A i, j \in 1..Len(payments') : i < j => payments'[i] < payments'[j]
  <2>1. Positions("payment")' = IF e.type = "payment" THEN Positions("payment") \cup {n}
                                ELSE Positions("payment")
    BY PositionsGrow
  <2>2. payments' = IF e.type = "payment" THEN Append(payments, n) ELSE payments
    BY DEF Record
  <2>3. CASE e.type # "payment"
    BY <2>1, <2>2, <2>3 DEF AggregateFaithful
  <2>4. CASE e.type = "payment"
    <3> DEFINE m == Len(payments) + 1
    <3>1. payments \in Seq(Int) /\ Len(payments) \in Nat
      <4>1. payments \in Seq(1..Len(events)) /\ 1..Len(events) \subseteq Int
        BY DEF TypeOK
      <4> QED BY <4>1, SeqMonotonic, LenProperties
    <3>2. /\ Len(payments') = m /\ payments'[m] = n
          /\ \A i \in 1..Len(payments) : payments'[i] = payments[i]
      BY <1>1, <2>2, <2>4, <3>1, AppendProperties
    <3>3. 1..m = 1..Len(payments) \cup {m} /\ m \notin 1..Len(payments)
      BY <3>1
    <3>4. \A i \in 1..Len(payments) : payments[i] \in 1..Len(events)
      BY ElementOfSeq DEF TypeOK
    <3>5. {payments'[i] : i \in 1..m} = {payments[i] : i \in 1..Len(payments)} \cup {n}
      BY <3>2, <3>3
    <3>6. ASSUME NEW i \in 1..m, NEW j \in 1..m, i < j PROVE payments'[i] < payments'[j]
      <4>1. i \in 1..Len(payments)
        BY <3>1, <3>6
      <4>2. CASE j \in 1..Len(payments)
        BY <3>2, <3>6, <4>1, <4>2 DEF AggregateFaithful
      <4>3. CASE j = m
        <5>1. payments'[i] \in 1..Len(events) /\ payments'[j] = n
          BY <3>2, <3>4, <4>1, <4>3
        <5> QED BY <1>1, <5>1
      <4> QED BY <3>3, <4>2, <4>3
    <3> QED BY <2>1, <2>4, <3>2, <3>5, <3>6 DEF AggregateFaithful
  <2> QED BY <2>3, <2>4
<1> QED BY <1>3, <1>4, <1>5, <1>6 DEF AggregateFaithful

\* What a step of another kind does to Run's locals.
LEMMA LocalsFrame ==
    ASSUME [Next]_vars, ~Receive
    PROVE  /\ UNCHANGED <<events, payments, result, runID>>
           /\ errMsg' = errMsg \/ errMsg' = StreamError
BY DEF Next, RunStep, Send, EndStream, Cut, Request, Scan, ScanEnds, ScanFails, Close,
       ReceiveError, ReceiveClosed, Leave, vars, runVars

\* Run's result is the aggregate of what it received.
THEOREM AggregateIsFaithful == Spec => []AggregateFaithful
<1>1. Init => AggregateFaithful
  BY EmptySeq DEF Init, AggregateFaithful, Positions
<1>2. RunInv /\ AggregateFaithful /\ [Next]_vars => AggregateFaithful'
  <2> SUFFICES ASSUME RunInv, AggregateFaithful, [Next]_vars PROVE AggregateFaithful'
    OBVIOUS
  <2>1. CASE Receive
    <3>1. wire[scanned] \in Events
      BY <2>1, LenProperties, ElementOfSeq DEF RunInv, TypeOK, Receive
    <3>2. errMsg # StreamError
      BY <2>1 DEF RunInv, HandedInv, Receive
    <3> QED BY <2>1, <3>1, <3>2, RecordFaithful DEF RunInv, Receive
  <2>2. CASE ~Receive
    BY <2>2, LocalsFrame DEF AggregateFaithful, Positions
  <2> QED BY <2>1, <2>2
<1> QED BY <1>1, <1>2, RunInvHolds, PTL DEF Spec

\* A reader that has everything scanned of a stream read to its end has it all.
LEMMA WholeStream ==
    ASSUME RunInv, producer \in {"ending", "closed"}, errMsg # StreamError
    PROVE  line = "ended" /\ events = wire
<1>1. line = "ended" /\ scanned = Len(wire) /\ Len(events) = scanned
  BY DEF RunInv, HandedInv
<1>2. \A i \in 1..Len(events) : events[i] = wire[i]
  BY DEF RunInv, HandedInv
<1> QED BY <1>1, <1>2, SeqEqual DEF RunInv, TypeOK

\* A completed run received a whole stream without an error in it.
THEOREM SuccessMeansWhole == Spec => []SuccessIsWhole
<1>1. RunInv /\ AggregateFaithful => SuccessIsWhole
  <2> SUFFICES ASSUME RunInv, AggregateFaithful, consumer = "returned", Status = "completed"
               PROVE  /\ line = "ended"
                      /\ events = wire
                      /\ \A i \in 1..Len(wire) : wire[i].type # "error"
    BY DEF SuccessIsWhole
  <2>1. errMsg = 0 /\ errMsg # StreamError
    BY DEF Status, StreamError
  <2>2. line = "ended" /\ events = wire
    BY <2>1, WholeStream DEF RunInv, HandedInv
  <2>3. Positions("error") = {}
    BY <2>1 DEF AggregateFaithful, Positions
  <2> QED BY <2>2, <2>3 DEF Positions
<1> QED BY <1>1, AggregateIsFaithful, RunInvHolds, PTL

\* The reader has what the abstract stream promises.
THEOREM RunKeepsStream == Spec => KeepsStream
<1>1. Init => Stream!Init
  BY DEF Init, Stream!Init, StreamError
<1>2. RunInv /\ [Next]_vars => [Stream!Next]_(Stream!streamVars)
  <2> SUFFICES ASSUME RunInv, [Next]_vars PROVE Stream!Next \/ UNCHANGED Stream!streamVars
    OBVIOUS
  <2> USE DEF Stream!streamVars, platformVars, producerVars, runVars
  <2>1. ASSUME NEW e \in Events, Send(e) PROVE Stream!Send(e)
    BY <2>1 DEF Send, Stream!Send
  <2>2. CASE EndStream \/ Cut
    BY <2>2 DEF EndStream, Cut, Stream!Finish, Stream!Next
  <2>3. CASE Request
    BY <2>3 DEF Request, RunInv, HandedInv, Stream!Open, Stream!Next
  <2>4. CASE Scan \/ ScanEnds \/ ScanFails \/ Close
    BY <2>4 DEF Scan, ScanEnds, ScanFails, Close
  <2>5. CASE Leave
    BY <2>5 DEF Leave
  <2>6. CASE Receive
    <3>1. scanned = Len(events) + 1 /\ scanned \in 0..Len(wire) /\ Len(events) \in Nat
          /\ Len(wire) \in Nat
      BY <2>6, LenProperties DEF Receive, RunInv, TypeOK, HandedInv
    <3>2. errMsg # StreamError /\ errMsg' # StreamError
      BY <2>6, <3>1 DEF Receive, Record, RunInv, HandedInv, StreamError
    <3>3. Stream!Receive
      BY <2>6, <3>1, <3>2 DEF Receive, Record, Stream!Receive
    <3> QED BY <3>3 DEF Stream!Next
  <2>7. CASE ReceiveError
    <3>1. errMsg # StreamError
      BY <2>7 DEF ReceiveError, RunInv, HandedInv
    <3> QED BY <2>7, <3>1 DEF ReceiveError, Stream!TellError, Stream!Next
  <2>8. CASE ReceiveClosed
    <3>1. errMsg # StreamError
      BY <2>8 DEF ReceiveClosed, RunInv, HandedInv
    <3>2. line = "ended" /\ events = wire
      BY <2>8, <3>1, WholeStream DEF ReceiveClosed
    <3> QED BY <2>8, <3>1, <3>2 DEF ReceiveClosed, Stream!TellEnd, Stream!Next
  <2>9. CASE UNCHANGED vars
    BY <2>9 DEF vars
  <2> QED BY <2>1, <2>2, <2>3, <2>4, <2>5, <2>6, <2>7, <2>8, <2>9 DEF Next, RunStep, Stream!Next
<1> QED BY <1>1, <1>2, RunInvHolds, PTL DEF Spec, KeepsStream, Stream!Spec
=============================================================================
