------------------------------ MODULE StreamRelay ------------------------------
(***************************************************************************)
(* The goroutines that hand a remote stream to a channel: StreamTask of      *)
(* a2a/client.go over the iterator of the a2a-go library, and PushStream of  *)
(* gateway/a2a_client.go over the lines of the response.  The channel has no *)
(* buffer, and neither goroutine watches the context while it sends.         *)
(***************************************************************************)
EXTENDS Naturals, Sequences, SequencesExt

CONSTANT MaxLines  \* what the remote side sends, a bound

ASSUME RelayAssumption == MaxLines \in Nat

VARIABLES
    stream,    \* "task" (StreamTask) or "push" (PushStream)
    sent,      \* what the remote side has sent, in order
    remote,    \* whether it goes on ("open"), has ended or was cut off
    streamCtx, \* the caller's context: "live" or "canceled"
    relay,     \* the goroutine: "connect", "read", "send" or "closed"
    next,      \* how much of what was sent it has read
    item,      \* what it is sending on the channel
    received,  \* what the consumer took from the channel
    consumer   \* "reading", "done" when the channel closed, or "left"

relayVars == <<stream, sent, remote, streamCtx, relay, next, item, received, consumer>>

\* A line is an event, an event that cannot be read, a JSON-RPC error, or
\* something else that is skipped.
Lines == {"event", "unreadable", "error", "noise"}

\* PushStream passes an unreadable event on as an empty response
\* (parseStreamResponse); for StreamTask the library reports an error.
Passes(line) == line = "event" \/ (line = "unreadable" /\ stream = "push")
Fails(line) == line = "error" \/ (line = "unreadable" /\ stream = "task")
Result(n) == <<"response", n>>
Error == <<"error", 0>>
Nothing == <<"none", 0>>

RelayInit ==
    /\ stream \in {"task", "push"}
    /\ sent = <<>>
    /\ remote = "open"
    /\ streamCtx = "live"
    /\ relay = "connect"
    /\ next = 0
    /\ item = Nothing
    /\ received = <<>>
    /\ consumer = "reading"

-----------------------------------------------------------------------------
\* The remote side sends, ends its stream or is cut off.
RemoteSends == \E line \in Lines :
    /\ remote = "open"
    /\ relay # "connect"
    /\ Len(sent) < MaxLines
    /\ sent' = Append(sent, line)
    /\ UNCHANGED <<stream, remote, streamCtx, relay, next, item, received, consumer>>

RemoteEnds ==
    /\ remote = "open"
    /\ relay # "connect"
    /\ remote' \in {"ended", "cut"}
    /\ UNCHANGED <<stream, sent, streamCtx, relay, next, item, received, consumer>>

CancelStream ==
    /\ streamCtx = "live"
    /\ streamCtx' = "canceled"
    /\ UNCHANGED <<stream, sent, remote, relay, next, item, received, consumer>>

-----------------------------------------------------------------------------
\* The request is made: it fails, and the error is sent, or the stream begins.
Connect ==
    /\ relay = "connect"
    /\ \/ relay' = "read" /\ UNCHANGED item
       \/ relay' = "send" /\ item' = Error
    /\ UNCHANGED <<stream, sent, remote, streamCtx, next, received, consumer>>

\* The next line, if any: a response or an error to send, or nothing of note.
ReadLine ==
    /\ relay = "read"
    /\ next < Len(sent)
    /\ next' = next + 1
    /\ CASE Passes(sent[next + 1]) ->
              relay' = "send" /\ item' = Result(next + 1)
         [] Fails(sent[next + 1]) ->
              relay' = "send" /\ item' = Error
         [] OTHER -> UNCHANGED <<relay, item>>
    /\ UNCHANGED <<stream, sent, remote, streamCtx, received, consumer>>

\* Defect: StreamTask ends its loop on an error as PushStream does.
ReadFailsQuietly ==
    /\ relay = "read"
    /\ streamCtx = "canceled" \/ (remote = "cut" /\ next = Len(sent))
    /\ relay' = "closed"
    /\ UNCHANGED <<stream, sent, remote, streamCtx, next, item, received, consumer>>

\* Reading fails: the connection was cut off, or the context is canceled, with
\* what was sent read or not.  The library's iterator reports that, and
\* StreamTask sends it on; PushStream does not ask its scanner for the error.
ReadFails ==
    /\ relay = "read"
    /\ streamCtx = "canceled" \/ (remote = "cut" /\ next = Len(sent))
    /\ IF stream = "task"
         THEN relay' = "send" /\ item' = Error
         ELSE relay' = "closed" /\ UNCHANGED item
    /\ UNCHANGED <<stream, sent, remote, streamCtx, next, received, consumer>>

ReadEnd ==
    /\ relay = "read"
    /\ remote = "ended"
    /\ next = Len(sent)
    /\ relay' = "closed"
    /\ UNCHANGED <<stream, sent, remote, streamCtx, next, item, received, consumer>>

\* The consumer takes the item; after an error the goroutine is done.
HandOver ==
    /\ relay = "send"
    /\ consumer = "reading"
    /\ received' = Append(received, item)
    /\ relay' = IF item = Error THEN "closed" ELSE "read"
    /\ item' = Nothing
    /\ UNCHANGED <<stream, sent, remote, streamCtx, next, consumer>>

\* The consumer sees the channel closed, or stops reading before that.
ConsumerDone ==
    /\ consumer = "reading"
    /\ relay = "closed"
    /\ consumer' = "done"
    /\ UNCHANGED <<stream, sent, remote, streamCtx, relay, next, item, received>>

ConsumerLeaves ==
    /\ consumer = "reading"
    /\ consumer' = "left"
    /\ UNCHANGED <<stream, sent, remote, streamCtx, relay, next, item, received>>

Reader == Connect \/ ReadLine \/ ReadFails \/ ReadEnd
RelayNext == RemoteSends \/ RemoteEnds \/ CancelStream \/ Reader \/ HandOver
             \/ ConsumerDone \/ ConsumerLeaves

\* The goroutine and a consumer that reads go on; the remote side, the context
\* and a consumer that gives up are not bound to anything.
RelayFairness ==
    WF_relayVars(Reader) /\ WF_relayVars(HandOver) /\ WF_relayVars(ConsumerDone)

RelaySpec == RelayInit /\ [][RelayNext]_relayVars /\ RelayFairness

-----------------------------------------------------------------------------
RelayTypeOK ==
    LET items == ({"response"} \X (1..MaxLines)) \cup {Error}
    IN  /\ stream \in {"task", "push"}
        /\ sent \in Seq(Lines)
        /\ remote \in {"open", "ended", "cut"}
        /\ streamCtx \in {"live", "canceled"}
        /\ relay \in {"connect", "read", "send", "closed"}
        /\ next \in 0..Len(sent)
        /\ item \in items \cup {Nothing}
        /\ received \in Seq(items)
        /\ consumer \in {"reading", "done", "left"}

\* What the consumer received are the remote side's events in order, none left
\* out or repeated, and an error only as the last word.  When the channel
\* closes without one, StreamTask has passed on all of a stream that ended;
\* PushStream's may also have been cut off or canceled (StreamTask, PushStream).
RelayFaithful ==
    LET responses == {n \in 1..next : Passes(sent[n])}
        taken == {received[i][2] : i \in {j \in DOMAIN received : received[j] # Error}}
    IN  /\ \A i, j \in DOMAIN received : i < j =>
             received[i] # Error /\ (received[j] # Error => received[i][2] < received[j][2])
        /\ taken \cup (IF relay = "send" /\ item # Error THEN {item[2]} ELSE {}) = responses
        /\ consumer = "done" /\ (received = <<>> \/ Last(received) # Error) =>
             \/ remote = "ended" /\ next = Len(sent)
             \/ stream = "push" /\ (remote = "cut" \/ streamCtx = "canceled")

\* Once the stream is over or its context canceled, the goroutine ends, unless
\* the consumer has left it with something to send.
RelayEnds ==
    streamCtx = "canceled" \/ remote # "open" ~> relay = "closed" \/ consumer = "left"
=============================================================================
