------------------------------ MODULE AgentAnswers ------------------------------
(***************************************************************************)
(* How the words of a handler reach who asked: the adapters of             *)
(* server/handlers.go, and the five ways to ask an agent - message/send,   *)
(* message/stream, /invoke, /invoke/stream and the job queue - each with   *)
(* its own idea of the answer.  What a task's status goes through          *)
(* meanwhile is in TaskServer.                                             *)
(***************************************************************************)
EXTENDS Naturals, Sequences, FiniteSets, SequencesExt

CONSTANTS Asks,      \* the requests, each a run of the handler
          RunIds,    \* the ids that askers choose: run_id or task id
          MaxWords   \* what a streaming handler says in one run, a bound

ASSUME AnswersAssumption == RunIds \cap Asks = {} /\ MaxWords \in Nat \ {0}

VARIABLES
    adapter,   \* the handler: streaming or not, and its rawResponse
    said,      \* Task.History: the agent's messages in it, per id
    failed,    \* whether the status of the task is failed
    asking,    \* per request, its stage, way, id, and what has come of it
    overlaps   \* history: the requests that ran on one id at the same time

answerVars == <<adapter, said, failed, asking, overlaps>>

Ways == {"send", "stream", "invoke", "invoke stream", "job"}

\* A generated id is named by the request that it was generated for.
AnswerIds == RunIds \cup Asks
NotAsked == [stage |-> "idle", way |-> "send", id |-> "none", words |-> 0,
             kept |-> <<>>, written |-> <<>>, answer |-> <<>>, success |-> FALSE]

AnswersInit ==
    /\ adapter \in [streaming : BOOLEAN, raw : BOOLEAN]
    /\ said = [i \in AnswerIds |-> <<>>]
    /\ failed = [i \in AnswerIds |-> FALSE]
    /\ asking = [r \in Asks |-> NotAsked]
    /\ overlaps = {}

Running(r) == asking[r].stage \in {"running", "ended"}

-----------------------------------------------------------------------------
\* The request is let in and its handler called, on a task that may have been
\* worked on before; the job queue's is always new.  The run takes a copy of
\* the history.
Ask(r) == \E way \in Ways, id \in RunIds \cup {r} :
    /\ asking[r].stage = "idle"
    /\ way = "job" => id = r
    /\ asking' = [asking EXCEPT ![r] = [NotAsked EXCEPT
           !.stage = "running", !.way = way, !.id = id, !.kept = said[id]]]
    /\ failed' = IF way = "invoke stream" THEN failed ELSE [failed EXCEPT ![id] = FALSE]
    /\ LET others == {q \in Asks : Running(q) /\ asking[q].id = id}
       IN  overlaps' = IF others = {} THEN overlaps ELSE overlaps \cup others \cup {r}
    /\ UNCHANGED <<adapter, said>>

\* The adapter sends what the author's function says: raw, or as a message.
\* Raw words are written by /invoke/stream alone, messages by both streams; the
\* copy of the history takes messages.
Say(r) ==
    LET word == <<r, asking[r].words + 1>>
    IN  /\ asking[r].stage = "running"
        /\ asking[r].words < IF adapter.streaming THEN MaxWords ELSE 1
        /\ asking' = [asking EXCEPT
             ![r].words = @ + 1,
             ![r].kept = IF adapter.raw THEN @ ELSE Append(@, word),
             ![r].written = IF \/ asking[r].way = "invoke stream"
                               \/ asking[r].way = "stream" /\ ~adapter.raw
                            THEN Append(@, word) ELSE @]
        /\ UNCHANGED <<adapter, said, failed, overlaps>>

\* The author's function returned an error instead; only CreateSimpleHandler's
\* can.  /invoke/stream passes the status update on and leaves the task alone.
HandlerFails(r) ==
    /\ asking[r].stage = "running"
    /\ ~adapter.streaming /\ asking[r].words = 0
    /\ asking' = [asking EXCEPT ![r].stage = "ended"]
    /\ failed' = IF asking[r].way = "invoke stream" THEN failed
                 ELSE [failed EXCEPT ![asking[r].id] = TRUE]
    /\ said' = IF asking[r].way = "invoke stream" THEN said
               ELSE [said EXCEPT ![asking[r].id] = asking[r].kept]
    /\ UNCHANGED <<adapter, overlaps>>

\* The handler is done, and the copy becomes the history, unless the request is
\* an /invoke/stream, which stores nothing of the answer.
HandlerEnds(r) ==
    /\ asking[r].stage = "running"
    /\ adapter.streaming \/ asking[r].words = 1
    /\ asking' = [asking EXCEPT ![r].stage = "ended"]
    /\ said' = IF asking[r].way = "invoke stream" THEN said
               ELSE [said EXCEPT ![asking[r].id] = asking[r].kept]
    /\ UNCHANGED <<adapter, failed, overlaps>>

\* Defect: the text is searched from the beginning of the history.
ExtractFirstText(history) == IF history = <<>> THEN <<>> ELSE <<Head(history)>>

\* The text of the last agent message in the history, if any.
ExtractAgentText(history) == IF history = <<>> THEN <<>> ELSE <<Last(history)>>

\* A job is posted as completed whatever became of it.
Succeeds(r) == asking[r].way = "job" \/ ~failed[asking[r].id]

\* The answer is read off the task as it is by now.
Reply(r) ==
    LET history == said[asking[r].id]
    IN  /\ asking[r].stage = "ended"
        /\ asking' = [asking EXCEPT
             ![r].stage = "done",
             ![r].answer = CASE asking[r].way \in {"invoke", "job"} -> ExtractAgentText(history)
                             [] asking[r].way \in {"send", "stream"} -> history
                             [] OTHER -> asking[r].written,
             ![r].success = Succeeds(r)]
        /\ UNCHANGED <<adapter, said, failed, overlaps>>

AnswersNext == \E r \in Asks :
    Ask(r) \/ Say(r) \/ HandlerFails(r) \/ HandlerEnds(r) \/ Reply(r)

AnswersSpec == AnswersInit /\ [][AnswersNext]_answerVars

-----------------------------------------------------------------------------
AnswersTypeOK ==
    LET words == Seq(Asks \X (1..MaxWords))
    IN  /\ adapter \in [streaming : BOOLEAN, raw : BOOLEAN]
        /\ said \in [AnswerIds -> words]
        /\ failed \in [AnswerIds -> BOOLEAN]
        /\ asking \in [Asks -> [stage : {"idle", "running", "ended", "done"}, way : Ways,
               id : AnswerIds \cup {"none"}, words : 0..MaxWords, kept : words,
               written : words, answer : words, success : BOOLEAN]]
        /\ overlaps \subseteq Asks

\* Unless runs on one id overlap, an asker gets the words of the run it asked
\* for: all of them by message/send and both streams, the last one by /invoke
\* and the job queue.  The words of a raw handler reach /invoke/stream only.
\* An /invoke answers with the words of an earlier run on its id only when its
\* own run put no message in the history: the handler is raw, said nothing or
\* failed (runHandler, streamRPC, extractAgentText, handleInvoke).
AnswersReach == \A r \in Asks : asking[r].stage = "done" /\ r \notin overlaps =>
    LET a == asking[r]
        own == {i \in DOMAIN a.answer : a.answer[i][1] = r}
        heard == Cardinality(own)
        foreign == DOMAIN a.answer # own
    IN  /\ adapter.raw /\ a.way # "invoke stream" => heard = 0
        /\ a.words > 0 /\ (~adapter.raw \/ a.way = "invoke stream") =>
             /\ heard = IF a.way \in {"invoke", "job"} THEN 1 ELSE a.words
             /\ Last(a.answer) = <<r, a.words>>
        /\ a.way = "stream" => a.written = SubSeq(a.answer, Len(a.answer) - heard + 1, Len(a.answer))
        /\ a.way \in {"job", "invoke stream"} => ~foreign
        /\ a.way = "invoke" /\ foreign => a.words = 0 \/ adapter.raw
=============================================================================
