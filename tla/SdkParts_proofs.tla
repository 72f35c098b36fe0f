---------------------------- MODULE SdkParts_proofs ----------------------------
(***************************************************************************)
(* Proofs about AgentAnswers, about TaskQueries and about the composition  *)
(* that MCSdkParts makes of the agent service and its clients, from what   *)
(* SdkClients_proofs and SdkAgents_proofs prove of its parts.              *)
(***************************************************************************)
EXTENDS MCSdkParts, SdkClients_proofs, SdkAgents_proofs

-----------------------------------------------------------------------------
\* The words of a handler.

Words == Seq(Asks \X (1..MaxWords))
AskRecords == [stage : {"idle", "running", "ended", "done"}, way : Ways,
               id : AnswerIds \cup {"none"}, words : 0..MaxWords, kept : Words,
               written : Words, answer : Words, success : BOOLEAN]

\* How many of its words a run puts into its copy of the history, and how many
\* it writes to a stream.
Voiced(r) == IF adapter.raw THEN 0 ELSE asking[r].words
Streamed(r) == IF \/ asking[r].way = "invoke stream"
                  \/ asking[r].way = "stream" /\ ~adapter.raw
               THEN asking[r].words ELSE 0

\* The copy is what others said on the id, then the run's own words in order;
\* a job's id is new.
KeptInv == \A r \in Asks : asking[r].stage # "idle" =>
    /\ Voiced(r) <= Len(asking[r].kept)
    /\ \A i \in 1..Len(asking[r].kept) :
         /\ i <= Len(asking[r].kept) - Voiced(r) => asking[r].kept[i][1] # r
         /\ i > Len(asking[r].kept) - Voiced(r) =>
              asking[r].kept[i] = <<r, i - (Len(asking[r].kept) - Voiced(r))>>
    /\ asking[r].way = "job" => Len(asking[r].kept) = Voiced(r)

\* The stream has the run's own words in order.
WrittenInv == \A r \in Asks : asking[r].stage # "idle" =>
    /\ Len(asking[r].written) = Streamed(r)
    /\ \A k \in 1..Len(asking[r].written) : asking[r].written[k] = <<r, k>>

\* Nobody else has the words of a run that goes on, and nobody at all has asked
\* on the id that a request generates.
UnheardInv == \A r \in Asks : asking[r].stage \in {"idle", "running"} =>
    /\ \A i \in AnswerIds : \A n \in DOMAIN said[i] : said[i][n][1] # r
    /\ \A q \in Asks \ {r} : \A n \in DOMAIN asking[q].kept : asking[q].kept[n][1] # r
    /\ asking[r].stage = "idle" => said[r] = <<>>

OverlapInv == \A q, r \in Asks :
    q # r /\ Running(q) /\ Running(r) /\ asking[q].id = asking[r].id => q \in overlaps

\* Unless runs on one id overlap, the history of a run that ended is its copy
\* until it answers, and its answer is read off it.
Stored(r) ==
    /\ asking[r].stage # "idle" => asking[r].id \in RunIds \cup {r}
    /\ asking[r].stage = "ended" /\ r \notin overlaps /\ asking[r].way # "invoke stream" =>
         said[asking[r].id] = asking[r].kept
    /\ asking[r].stage = "done" /\ r \notin overlaps =>
         /\ asking[r].way \in {"invoke", "job"} =>
              asking[r].answer = ExtractAgentText(asking[r].kept)
         /\ asking[r].way \in {"send", "stream"} => asking[r].answer = asking[r].kept
         /\ asking[r].way = "invoke stream" => asking[r].answer = asking[r].written
StoredInv == \A r \in Asks : Stored(r)

AnswersInv == AnswersTypeOK /\ KeptInv /\ WrittenInv /\ UnheardInv /\ OverlapInv /\ StoredInv

LEMMA AnswersInvInit == AnswersInit => AnswersInv
<1> SUFFICES ASSUME AnswersInit PROVE AnswersInv
  OBVIOUS
<1> USE AnswersAssumption DEF AnswersInit
<1>1. /\ <<>> \in Words
      /\ Len(<<>>) = 0
      /\ \A r \in Asks : asking[r] = NotAsked
  BY DEF Words
<1>2. AnswersTypeOK
  <2>1. NotAsked \in AskRecords
    BY <1>1 DEF AskRecords, NotAsked, Ways
  <2>2. said \in [AnswerIds -> Words] /\ failed \in [AnswerIds -> BOOLEAN]
    BY <1>1
  <2> QED  BY <2>1, <2>2 DEF AnswersTypeOK, AskRecords, Words
<1>3. KeptInv /\ WrittenInv /\ OverlapInv
  BY <1>1 DEF KeptInv, WrittenInv, OverlapInv, NotAsked, Running
<1>4. UnheardInv
  BY <1>1 DEF UnheardInv, NotAsked, AnswerIds
<1>5. StoredInv
  BY <1>1 DEF StoredInv, Stored, NotAsked
<1> QED  BY <1>2, <1>3, <1>4, <1>5 DEF AnswersInv

\* What the type invariant says of one request.
LEMMA AskFacts ==
  ASSUME AnswersTypeOK, NEW r \in Asks
  PROVE  /\ asking[r] \in AskRecords
         /\ asking[r].way \in Ways /\ asking[r].words \in 0..MaxWords
         /\ asking[r].id \in AnswerIds \cup {"none"}
         /\ asking[r].kept \in Words /\ asking[r].written \in Words
         /\ asking[r].answer \in Words /\ asking[r].success \in BOOLEAN
         /\ Len(asking[r].kept) \in Nat /\ Len(asking[r].written) \in Nat
         /\ Voiced(r) \in 0..MaxWords /\ Streamed(r) \in 0..MaxWords
<1>1. asking[r] \in AskRecords
  BY DEF AnswersTypeOK, AskRecords, Words
<1>2. /\ asking[r].way \in Ways /\ asking[r].words \in 0..MaxWords
      /\ asking[r].id \in AnswerIds \cup {"none"}
      /\ asking[r].kept \in Words /\ asking[r].written \in Words
      /\ asking[r].answer \in Words /\ asking[r].success \in BOOLEAN
  BY <1>1 DEF AskRecords
<1>3. Len(asking[r].kept) \in Nat /\ Len(asking[r].written) \in Nat
  BY <1>2, LenProperties DEF Words
<1>4. Voiced(r) \in {0, asking[r].words} /\ Streamed(r) \in {0, asking[r].words}
  BY DEF Voiced, Streamed
<1>5. 0 \in 0..MaxWords
  BY AnswersAssumption
<1> QED  BY <1>1, <1>2, <1>3, <1>4, <1>5

LEMMA AskStep ==
  ASSUME AnswersInv, NEW r \in Asks, Ask(r)
  PROVE  AnswersInv'
<1> USE AnswersAssumption DEF AnswersInv
<1>1. PICK way \in Ways, id \in RunIds \cup {r} :
        /\ asking[r].stage = "idle"
        /\ way = "job" => id = r
        /\ asking' = [asking EXCEPT ![r] = [NotAsked EXCEPT
               !.stage = "running", !.way = way, !.id = id, !.kept = said[id]]]
        /\ failed' = IF way = "invoke stream" THEN failed ELSE [failed EXCEPT ![id] = FALSE]
        /\ LET others == {q \in Asks : Running(q) /\ asking[q].id = id}
           IN  overlaps' = IF others = {} THEN overlaps ELSE overlaps \cup others \cup {r}
        /\ UNCHANGED <<adapter, said>>
  BY DEF Ask
<1>2. PICK new : new = [stage |-> "running", way |-> way, id |-> id, words |-> 0,
                        kept |-> said[id], written |-> <<>>, answer |-> <<>>,
                        success |-> FALSE]
  OBVIOUS
<1>3. asking' = [asking EXCEPT ![r] = new]
  <2> DEFINE begun == [NotAsked EXCEPT !.stage = "running", !.way = way, !.id = id, !.kept = said[id]]
  <2>2. begun.stage = "running" /\ begun.way = way /\ begun.id = id /\ begun.kept = said[id]
    BY DEF NotAsked
  <2>3. /\ begun.words = 0 /\ begun.written = <<>> /\ begun.answer = <<>>
        /\ begun.success = FALSE
    BY DEF NotAsked
  <2>4. /\ begun = [f \in DOMAIN NotAsked |-> begun[f]]
        /\ DOMAIN NotAsked = {"stage", "way", "id", "words", "kept", "written", "answer", "success"}
    BY DEF NotAsked
  <2>5. new = [f \in DOMAIN NotAsked |-> new[f]]
    BY <2>4, <1>2
  <2> HIDE DEF begun
  <2>6. \A f \in DOMAIN NotAsked : begun[f] = new[f]
    BY <2>2, <2>3, <2>4, <1>2
  <2>7. [f \in DOMAIN NotAsked |-> begun[f]] = [f \in DOMAIN NotAsked |-> new[f]]
    BY <2>6
  <2>1. begun = new
    BY <2>4, <2>5, <2>7
  <2> USE DEF begun
  <2> QED  BY <2>1, <1>1
<1>4. /\ id \in AnswerIds /\ said[id] \in Words /\ Len(said[id]) \in Nat
      /\ <<>> \in Words /\ Len(<<>>) = 0
      /\ asking \in [Asks -> AskRecords] /\ overlaps \subseteq Asks
  <2>1. id \in AnswerIds /\ said[id] \in Words
    BY DEF AnswerIds, AnswersTypeOK, Words
  <2>2. Len(said[id]) \in Nat
    BY <2>1, LenProperties DEF Words
  <2>3. <<>> \in Words /\ Len(<<>>) = 0
    BY DEF Words
  <2>4. asking \in [Asks -> AskRecords] /\ overlaps \subseteq Asks
    BY DEF AnswersTypeOK, AskRecords, Words
  <2> QED  BY <2>1, <2>2, <2>3, <2>4
<1>5. new \in AskRecords
  BY <1>2, <1>4 DEF AskRecords
<1>6. asking'[r] = new /\ \A q \in Asks \ {r} : asking'[q] = asking[q]
  BY <1>3, <1>4
<1>7. said' = said /\ adapter' = adapter /\ overlaps \subseteq overlaps' /\ overlaps' \subseteq Asks
  BY <1>1, <1>4
<1>8. AnswersTypeOK'
  <2>1. asking' \in [Asks -> AskRecords]
    BY <1>3, <1>4, <1>5
  <2>2. failed' \in [AnswerIds -> BOOLEAN]
    BY <1>1, <1>4 DEF AnswersTypeOK
  <2> QED  BY <2>1, <2>2, <1>7 DEF AnswersTypeOK, AskRecords, Words
<1>9. \A q \in Asks : Voiced(q)' = (IF q = r THEN 0 ELSE Voiced(q))
                     /\ Streamed(q)' = (IF q = r THEN 0 ELSE Streamed(q))
  <2>1. asking'[r].words = 0
    BY <1>2, <1>6
  <2>2. \A q \in Asks \ {r} : Voiced(q)' = Voiced(q) /\ Streamed(q)' = Streamed(q)
    BY <1>6, <1>7 DEF Voiced, Streamed
  <2>3. Voiced(r)' = 0 /\ Streamed(r)' = 0
    BY <2>1 DEF Voiced, Streamed
  <2> QED  BY <2>2, <2>3
<1>10. \A n \in DOMAIN said[id] : said[id][n][1] # r
  BY <1>1, <1>4 DEF UnheardInv
<1>11. DOMAIN said[id] = 1..Len(said[id])
  BY <1>4, LenProperties DEF Words
<1>12. KeptInv'
  <2> SUFFICES ASSUME NEW q \in Asks, asking'[q].stage # "idle"
      PROVE  /\ Voiced(q)' <= Len(asking'[q].kept)
             /\ \A i \in 1..Len(asking'[q].kept) :
                  /\ i <= Len(asking'[q].kept) - Voiced(q)' => asking'[q].kept[i][1] # q
                  /\ i > Len(asking'[q].kept) - Voiced(q)' =>
                       asking'[q].kept[i] = <<q, i - (Len(asking'[q].kept) - Voiced(q)')>>
             /\ asking'[q].way = "job" => Len(asking'[q].kept) = Voiced(q)'
    BY DEF KeptInv
  <2>1. CASE q # r
    BY <2>1, <1>6, <1>9 DEF KeptInv
  <2>2. CASE q = r
    <3>1. asking'[q].kept = said[id] /\ asking'[q].way = way /\ Voiced(q)' = 0
      BY <2>2, <1>2, <1>6, <1>9
    <3>2. \A i \in 1..Len(said[id]) : said[id][i][1] # r
      BY <1>10, <1>11
    <3>3. way = "job" => Len(said[id]) = 0
      BY <1>1, <1>4 DEF UnheardInv
    <3> QED  BY <2>2, <3>1, <3>2, <3>3, <1>4
  <2> QED  BY <2>1, <2>2
<1>13. WrittenInv'
  BY <1>2, <1>4, <1>6, <1>9 DEF WrittenInv
<1>14. UnheardInv'
  <2> SUFFICES ASSUME NEW q \in Asks, asking'[q].stage \in {"idle", "running"}
      PROVE  /\ \A i \in AnswerIds : \A n \in DOMAIN said[i] : said[i][n][1] # q
             /\ \A p \in Asks \ {q} : \A n \in DOMAIN asking'[p].kept :
                                          asking'[p].kept[n][1] # q
             /\ asking'[q].stage = "idle" => said[q] = <<>>
    BY <1>7 DEF UnheardInv
  <2>1. asking[q].stage \in {"idle", "running"}
    BY <1>1, <1>6
  <2>2. \A i \in AnswerIds : \A n \in DOMAIN said[i] : said[i][n][1] # q
    BY <2>1 DEF UnheardInv
  <2>3. asking'[q].stage = "idle" => said[q] = <<>>
    BY <1>2, <1>6 DEF UnheardInv
  <2>4. ASSUME NEW p \in Asks \ {q}, NEW n \in DOMAIN asking'[p].kept
        PROVE  asking'[p].kept[n][1] # q
    <3>1. CASE p = r
      BY <3>1, <2>2, <1>2, <1>4, <1>6
    <3>2. CASE p # r
      BY <3>2, <2>1, <1>6 DEF UnheardInv
    <3> QED  BY <3>1, <3>2
  <2> QED  BY <2>2, <2>3, <2>4
<1>15. OverlapInv'
  <2> SUFFICES ASSUME NEW p \in Asks, NEW q \in Asks, p # q, Running(p)', Running(q)',
                      asking'[p].id = asking'[q].id
      PROVE  p \in overlaps'
    BY DEF OverlapInv
  <2>1. CASE p # r /\ q # r
    BY <2>1, <1>6, <1>7 DEF OverlapInv, Running
  <2> DEFINE others == {x \in Asks : Running(x) /\ asking[x].id = id}
  <2>2. others # {} => overlaps' = overlaps \cup others \cup {r}
    BY <1>1
  <2>3. new.id = id
    BY <1>2
  <2>4. CASE p = r
    <3>1. Running(q) /\ asking[q].id = id
      BY <2>3, <2>4, <1>6 DEF Running
    <3> QED  BY <3>1, <2>2, <2>4
  <2>5. CASE q = r
    <3>1. Running(p) /\ asking[p].id = id
      BY <2>3, <2>5, <1>6 DEF Running
    <3> QED  BY <3>1, <2>2, <2>5
  <2> QED  BY <2>1, <2>4, <2>5
<1>16. StoredInv'
  <2> SUFFICES ASSUME NEW q \in Asks
      PROVE  /\ asking'[q].stage # "idle" => asking'[q].id \in RunIds \cup {q}
             /\ asking'[q].stage = "ended" /\ q \notin overlaps' /\ asking'[q].way # "invoke stream" =>
                  said'[asking'[q].id] = asking'[q].kept
             /\ asking'[q].stage = "done" /\ q \notin overlaps' =>
                  /\ asking'[q].way \in {"invoke", "job"} =>
                       asking'[q].answer = ExtractAgentText(asking'[q].kept)
                  /\ asking'[q].way \in {"send", "stream"} => asking'[q].answer = asking'[q].kept
                  /\ asking'[q].way = "invoke stream" => asking'[q].answer = asking'[q].written
    BY DEF StoredInv, Stored, ExtractAgentText
  <2>1. CASE q # r
    BY <2>1, <1>6, <1>7 DEF StoredInv, Stored
  <2>2. CASE q = r
    BY <2>2, <1>2, <1>6
  <2> QED  BY <2>1, <2>2
<1> QED  BY <1>8, <1>12, <1>13, <1>14, <1>15, <1>16

LEMMA SayStep ==
  ASSUME AnswersInv, NEW r \in Asks, Say(r)
  PROVE  AnswersInv'
<1> USE AnswersAssumption DEF AnswersInv
<1> DEFINE word == <<r, asking[r].words + 1>>
<1>1. /\ asking[r].stage = "running"
      /\ asking[r].words < IF adapter.streaming THEN MaxWords ELSE 1
      /\ UNCHANGED <<adapter, said, failed, overlaps>>
  BY DEF Say
<1>2. PICK kept : kept = IF adapter.raw THEN asking[r].kept ELSE Append(asking[r].kept, word)
  OBVIOUS
<1>3. PICK written : written = IF \/ asking[r].way = "invoke stream"
                                  \/ asking[r].way = "stream" /\ ~adapter.raw
                               THEN Append(asking[r].written, word) ELSE asking[r].written
  OBVIOUS
<1>4. PICK new : new = [asking[r] EXCEPT !.words = @ + 1, !.kept = kept, !.written = written]
  OBVIOUS
<1>5. asking \in [Asks -> AskRecords] /\ asking[r] \in AskRecords
  BY DEF AnswersTypeOK, AskRecords, Words
<1>6. asking' = [asking EXCEPT ![r] = new]
  BY <1>2, <1>3, <1>4, <1>5 DEF Say, AskRecords
<1>7. asking'[r] = new /\ \A q \in Asks \ {r} : asking'[q] = asking[q]
  BY <1>5, <1>6
<1>8. /\ new.stage = "running" /\ new.way = asking[r].way /\ new.id = asking[r].id
      /\ new.words = asking[r].words + 1 /\ new.kept = kept /\ new.written = written
  BY <1>1, <1>4, <1>5 DEF AskRecords
<1>9. word \in Asks \X (1..MaxWords) /\ asking[r].words + 1 \in 1..MaxWords
  <2>1. asking[r].words \in 0..MaxWords
    BY <1>5 DEF AskRecords
  <2>2. asking[r].words < MaxWords
    <3>1. CASE adapter.streaming = TRUE
      BY <3>1, <1>1
    <3>2. CASE adapter.streaming = FALSE
      BY <3>2, <1>1, <2>1
    <3>3. adapter.streaming \in BOOLEAN
      BY DEF AnswersTypeOK
    <3> QED  BY <3>1, <3>2, <3>3
  <2> QED  BY <2>1, <2>2
<1> HIDE DEF word
<1>10. kept \in Words /\ written \in Words
  <2>1. asking[r].kept \in Words /\ asking[r].written \in Words
    BY <1>5 DEF AskRecords
  <2>2. Append(asking[r].kept, word) \in Words /\ Append(asking[r].written, word) \in Words
    BY <2>1, <1>9, AppendProperties DEF Words
  <2> QED  BY <2>1, <2>2, <1>2, <1>3
<1>11. AnswersTypeOK'
  <2>0. asking[r].words + 1 \in 0..MaxWords
    BY <1>9
  <2>1. new \in AskRecords
    BY <2>0, <1>4, <1>5, <1>10 DEF AskRecords
  <2>2. asking' \in [Asks -> AskRecords]
    BY <2>1, <1>5, <1>6
  <2> QED  BY <2>2, <1>1 DEF AnswersTypeOK, AskRecords, Words
<1>12. \A q \in Asks \ {r} : Voiced(q)' = Voiced(q) /\ Streamed(q)' = Streamed(q)
  BY <1>1, <1>7 DEF Voiced, Streamed
<1>13. \A w \in Words : Len(w) \in Nat /\ DOMAIN w = 1..Len(w)
  BY LenProperties DEF Words
<1>14. \A w \in Words : /\ Len(Append(w, word)) = Len(w) + 1
                        /\ \A n \in 1..Len(w) : Append(w, word)[n] = w[n]
                        /\ Append(w, word)[Len(w) + 1] = word
  BY <1>9, AppendProperties DEF Words
<1>15. asking[r].kept \in Words /\ asking[r].written \in Words
  BY <1>5 DEF AskRecords
<1>16. KeptInv'
  <2> SUFFICES ASSUME NEW q \in Asks, asking'[q].stage # "idle"
      PROVE  /\ Voiced(q)' <= Len(asking'[q].kept)
             /\ \A i \in 1..Len(asking'[q].kept) :
                  /\ i <= Len(asking'[q].kept) - Voiced(q)' => asking'[q].kept[i][1] # q
                  /\ i > Len(asking'[q].kept) - Voiced(q)' =>
                       asking'[q].kept[i] = <<q, i - (Len(asking'[q].kept) - Voiced(q)')>>
             /\ asking'[q].way = "job" => Len(asking'[q].kept) = Voiced(q)'
    BY DEF KeptInv
  <2>1. CASE q # r
    BY <2>1, <1>7, <1>12 DEF KeptInv
  <2>2. CASE q = r /\ adapter.raw
    <3>1. Voiced(q)' = 0 /\ Voiced(q) = 0
      BY <2>2, <1>1 DEF Voiced
    <3>2. asking'[q].kept = asking[q].kept /\ asking'[q].way = asking[q].way
      BY <2>2, <1>2, <1>7, <1>8
    <3> QED  BY <3>1, <3>2, <2>2, <1>1 DEF KeptInv
  <2>3. CASE q = r /\ ~adapter.raw
    <3> DEFINE old == asking[r].kept
    <3>1. Voiced(q)' = asking[r].words + 1 /\ Voiced(q) = asking[r].words
      BY <2>3, <1>1, <1>7, <1>8 DEF Voiced
    <3>2. asking'[q].kept = Append(old, word) /\ asking'[q].way = asking[q].way
      BY <2>3, <1>2, <1>7, <1>8
    <3>3. /\ asking[r].words <= Len(old)
          /\ \A i \in 1..Len(old) :
               /\ i <= Len(old) - asking[r].words => old[i][1] # r
               /\ i > Len(old) - asking[r].words => old[i] = <<r, i - (Len(old) - asking[r].words)>>
          /\ asking[r].way = "job" => Len(old) = asking[r].words
      BY <2>3, <3>1, <1>1 DEF KeptInv
    <3>4. /\ old \in Words /\ Len(old) \in Nat /\ asking[r].words \in Nat
          /\ Len(Append(old, word)) = Len(old) + 1
          /\ \A n \in 1..Len(old) : Append(old, word)[n] = old[n]
          /\ Append(old, word)[Len(old) + 1] = word
      <4>1. asking[r].words \in Nat
        BY <1>5 DEF AskRecords
      <4> QED  BY <4>1, <1>13, <1>14, <1>15
    <3> DEFINE now == Append(old, word)
               k == Len(old)
               w == asking[r].words
    <3>5. ASSUME NEW i \in 1..(k + 1)
          PROVE  /\ i <= k - w => now[i][1] # r
                 /\ i > k - w => now[i] = <<r, i - (k - w)>>
      <4>1. CASE i = k + 1
        <5>1. /\ w <= k /\ w \in Nat /\ k \in Nat
              /\ now[i] = word /\ i = k + 1
          BY <4>1, <3>3, <3>4
        <5>2. word = <<r, w + 1>>
          BY DEF word
        <5>3. ~(i <= k - w) /\ i - (k - w) = w + 1
          BY <5>1
        <5> QED  BY <5>1, <5>2, <5>3
      <4>2. CASE i # k + 1
        <5>1. i \in 1..k
          BY <4>2, <3>4
        <5>2. now[i] = old[i]
          BY <5>1, <3>4
        <5> QED  BY <5>1, <5>2, <3>3
      <4> QED  BY <4>1, <4>2
    <3>6. (k + 1) - (w + 1) = k - w
      <4>1. k \in Nat /\ w \in Nat
        BY <3>4
      <4> HIDE DEF k, w
      <4> QED  BY <4>1
    <3> HIDE DEF now, old
    <3>7. /\ Len(now) = k + 1 /\ w + 1 <= Len(now)
          /\ asking[r].way = "job" => Len(now) = w + 1
      BY <3>3, <3>4 DEF now, old
    <3>8. \A i \in 1..Len(now) :
            /\ i <= Len(now) - (w + 1) => now[i][1] # r
            /\ i > Len(now) - (w + 1) => now[i] = <<r, i - (Len(now) - (w + 1))>>
      BY <3>5, <3>6, <3>7
    <3>9. asking'[q].kept = now
      BY <3>2 DEF now, old
    <3> QED  BY <2>3, <3>1, <3>2, <3>7, <3>8, <3>9
  <2> QED  BY <2>1, <2>2, <2>3
<1>17. WrittenInv'
  <2> SUFFICES ASSUME NEW q \in Asks, asking'[q].stage # "idle"
      PROVE  /\ Len(asking'[q].written) = Streamed(q)'
             /\ \A k \in 1..Len(asking'[q].written) : asking'[q].written[k] = <<q, k>>
    BY DEF WrittenInv
  <2>1. CASE q # r
    BY <2>1, <1>7, <1>12 DEF WrittenInv
  <2>2. CASE q = r
    <3> DEFINE streams == \/ asking[r].way = "invoke stream"
                          \/ asking[r].way = "stream" /\ ~adapter.raw
    <3>1. /\ Len(asking[r].written) = IF streams THEN asking[r].words ELSE 0
          /\ \A k \in 1..Len(asking[r].written) : asking[r].written[k] = <<r, k>>
      BY <1>1 DEF WrittenInv, Streamed
    <3>2. Streamed(q)' = IF streams THEN asking[r].words + 1 ELSE 0
      BY <2>2, <1>1, <1>7, <1>8 DEF Streamed
    <3>3. asking'[q].written = IF streams THEN Append(asking[r].written, word) ELSE asking[r].written
      BY <2>2, <1>3, <1>7, <1>8
    <3>4. CASE ~streams
      BY <2>2, <3>1, <3>2, <3>3, <3>4
    <3>5. CASE streams
      <4>1. asking[r].words \in Nat /\ Len(asking[r].written) = asking[r].words
        <5>1. asking[r].words \in Nat
          BY <1>5 DEF AskRecords
        <5> QED  BY <5>1, <3>1, <3>5
      <4>2. /\ asking'[q].written = Append(asking[r].written, word)
            /\ Streamed(q)' = asking[r].words + 1
        BY <3>2, <3>3, <3>5
      <4>3. /\ Len(Append(asking[r].written, word)) = asking[r].words + 1
            /\ \A n \in 1..asking[r].words : Append(asking[r].written, word)[n] = asking[r].written[n]
            /\ Append(asking[r].written, word)[asking[r].words + 1] = <<r, asking[r].words + 1>>
        BY <1>14, <1>15, <4>1 DEF word
      <4>4. ASSUME NEW k \in 1..(asking[r].words + 1)
            PROVE  Append(asking[r].written, word)[k] = <<r, k>>
        <5>1. CASE k = asking[r].words + 1
          BY <5>1, <4>3
        <5>2. CASE k # asking[r].words + 1
          <6>1. k \in 1..asking[r].words
            BY <5>2, <4>1
          <6> QED  BY <6>1, <4>1, <4>3, <3>1
        <5> QED  BY <5>1, <5>2
      <4> QED  BY <2>2, <4>2, <4>3, <4>4
    <3> QED  BY <3>4, <3>5
  <2> QED  BY <2>1, <2>2
<1>18. UnheardInv'
  <2> SUFFICES ASSUME NEW q \in Asks, asking'[q].stage \in {"idle", "running"}
      PROVE  /\ \A i \in AnswerIds : \A n \in DOMAIN said[i] : said[i][n][1] # q
             /\ \A p \in Asks \ {q} : \A n \in DOMAIN asking'[p].kept :
                                          asking'[p].kept[n][1] # q
             /\ asking'[q].stage = "idle" => said[q] = <<>>
    BY <1>1 DEF UnheardInv
  <2>1. asking[q].stage = asking'[q].stage
    BY <1>1, <1>7, <1>8
  <2>2. ASSUME NEW p \in Asks \ {q}, NEW n \in DOMAIN asking'[p].kept
        PROVE  asking'[p].kept[n][1] # q
    <3>1. CASE p # r
      BY <3>1, <2>1, <1>7 DEF UnheardInv
    <3>2. CASE p = r
      <4>1. \A m \in DOMAIN asking[r].kept : asking[r].kept[m][1] # q
        BY <3>2, <2>1 DEF UnheardInv
      <4>2. asking'[p].kept = kept
        BY <3>2, <1>7, <1>8
      <4>3. CASE adapter.raw
        BY <4>1, <4>2, <4>3, <1>2
      <4>4. CASE ~adapter.raw
        <5>1. kept = Append(asking[r].kept, word) /\ n \in 1..(Len(asking[r].kept) + 1)
          BY <4>2, <4>4, <1>2, <1>10, <1>13, <1>14, <1>15
        <5>2. CASE n = Len(asking[r].kept) + 1
          BY <5>1, <5>2, <4>2, <3>2, <1>14, <1>15 DEF word
        <5>3. CASE n # Len(asking[r].kept) + 1
          <6>1. n \in 1..Len(asking[r].kept)
            BY <5>1, <5>3, <1>13, <1>15
          <6> QED  BY <6>1, <5>1, <4>1, <4>2, <1>13, <1>14, <1>15
        <5> QED  BY <5>2, <5>3
      <4> QED  BY <4>3, <4>4
    <3> QED  BY <3>1, <3>2
  <2> QED  BY <2>1, <2>2 DEF UnheardInv
<1>19. OverlapInv'
  <2>1. \A q \in Asks : asking'[q].id = asking[q].id /\ Running(q)' = Running(q)
    BY <1>1, <1>7, <1>8 DEF Running
  <2> QED  BY <2>1, <1>1 DEF OverlapInv
<1>20. StoredInv'
  <2> SUFFICES ASSUME NEW q \in Asks
      PROVE  /\ asking'[q].stage # "idle" => asking'[q].id \in RunIds \cup {q}
             /\ asking'[q].stage = "ended" /\ q \notin overlaps' /\ asking'[q].way # "invoke stream" =>
                  said'[asking'[q].id] = asking'[q].kept
             /\ asking'[q].stage = "done" /\ q \notin overlaps' =>
                  /\ asking'[q].way \in {"invoke", "job"} =>
                       asking'[q].answer = ExtractAgentText(asking'[q].kept)
                  /\ asking'[q].way \in {"send", "stream"} => asking'[q].answer = asking'[q].kept
                  /\ asking'[q].way = "invoke stream" => asking'[q].answer = asking'[q].written
    BY DEF StoredInv, Stored, ExtractAgentText
  <2>1. CASE q # r
    <3>1. asking'[q] = asking[q]
      BY <2>1, <1>7
    <3>2. Stored(q)
      BY DEF StoredInv
    <3> QED  BY <3>1, <3>2, <1>1 DEF Stored, ExtractAgentText
  <2>2. CASE q = r
    BY <2>2, <1>1, <1>7, <1>8 DEF StoredInv, Stored
  <2> QED  BY <2>1, <2>2
<1> QED  BY <1>11, <1>16, <1>17, <1>18, <1>19, <1>20

\* The handler is done, with an error or without: the copy becomes the history.
LEMMA EndStep ==
  ASSUME AnswersInv, NEW r \in Asks, HandlerFails(r) \/ HandlerEnds(r)
  PROVE  AnswersInv'
<1> USE AnswersAssumption DEF AnswersInv
<1>1. /\ asking[r].stage = "running"
      /\ asking' = [asking EXCEPT ![r].stage = "ended"]
      /\ said' = IF asking[r].way = "invoke stream" THEN said
                 ELSE [said EXCEPT ![asking[r].id] = asking[r].kept]
      /\ UNCHANGED <<adapter, overlaps>>
  BY DEF HandlerFails, HandlerEnds
<1>2. failed' \in [AnswerIds -> BOOLEAN]
  BY DEF HandlerFails, HandlerEnds, AnswersTypeOK
<1>3. asking \in [Asks -> AskRecords] /\ asking[r] \in AskRecords /\ said \in [AnswerIds -> Words]
  BY DEF AnswersTypeOK, AskRecords, Words
<1>4. PICK new : new = [asking[r] EXCEPT !.stage = "ended"]
  OBVIOUS
<1>5. asking' = [asking EXCEPT ![r] = new]
  BY <1>1, <1>3, <1>4
<1>6. asking'[r] = new /\ \A q \in Asks \ {r} : asking'[q] = asking[q]
  BY <1>3, <1>5
<1>7. /\ new.stage = "ended" /\ new.way = asking[r].way /\ new.id = asking[r].id
      /\ new.words = asking[r].words /\ new.kept = asking[r].kept
      /\ new.written = asking[r].written
  BY <1>3, <1>4 DEF AskRecords
<1>8. asking[r].id \in RunIds \cup {r} /\ asking[r].id \in AnswerIds /\ asking[r].kept \in Words
  <2>1. asking[r].id \in RunIds \cup {r}
    BY <1>1 DEF StoredInv, Stored
  <2>2. asking[r].kept \in Words
    BY <1>3 DEF AskRecords
  <2> QED  BY <2>1, <2>2 DEF AnswerIds
<1>9. AnswersTypeOK'
  <2>1. new \in AskRecords
    BY <1>3, <1>4 DEF AskRecords
  <2>2. asking' \in [Asks -> AskRecords]
    BY <2>1, <1>3, <1>5
  <2>3. said' \in [AnswerIds -> Words]
    BY <1>1, <1>3, <1>8
  <2> QED  BY <2>2, <2>3, <1>1, <1>2 DEF AnswersTypeOK, AskRecords, Words
<1>10. \A q \in Asks : Voiced(q)' = Voiced(q) /\ Streamed(q)' = Streamed(q)
  <2>1. \A q \in Asks : asking'[q].words = asking[q].words /\ asking'[q].way = asking[q].way
    BY <1>6, <1>7
  <2> QED  BY <2>1, <1>1 DEF Voiced, Streamed
<1>11. \A q \in Asks : /\ asking'[q].kept = asking[q].kept
                       /\ asking'[q].written = asking[q].written
                       /\ asking'[q].way = asking[q].way /\ asking'[q].id = asking[q].id
                       /\ asking'[q].stage # "idle" => asking[q].stage # "idle"
                       /\ Running(q)' = Running(q)
  <2> SUFFICES ASSUME NEW q \in Asks
      PROVE  /\ asking'[q].kept = asking[q].kept
             /\ asking'[q].written = asking[q].written
             /\ asking'[q].way = asking[q].way /\ asking'[q].id = asking[q].id
             /\ asking'[q].stage # "idle" => asking[q].stage # "idle"
             /\ Running(q)' = Running(q)
    OBVIOUS
  <2>1. CASE q = r
    <3>1. asking[r].stage = "running" /\ asking'[r].stage = "ended"
      BY <1>1, <1>6, <1>7
    <3>2. Running(q) /\ Running(q)'
      BY <3>1, <2>1 DEF Running
    <3>3. /\ asking'[q].kept = asking[q].kept /\ asking'[q].written = asking[q].written
          /\ asking'[q].way = asking[q].way /\ asking'[q].id = asking[q].id
      BY <2>1, <1>6, <1>7
    <3> QED  BY <3>1, <3>2, <3>3, <2>1
  <2>2. CASE q # r
    BY <2>2, <1>6 DEF Running
  <2> QED  BY <2>1, <2>2
<1>12. KeptInv'
  BY <1>10, <1>11 DEF KeptInv
<1>13. WrittenInv'
  BY <1>10, <1>11 DEF WrittenInv
<1>14. \A i \in AnswerIds : said'[i] \in {said[i], asking[r].kept}
  BY <1>1, <1>3
<1>15. \A i \in AnswerIds : i # asking[r].id => said'[i] = said[i]
  BY <1>1, <1>3
<1>16. UnheardInv'
  <2> SUFFICES ASSUME NEW q \in Asks, asking'[q].stage \in {"idle", "running"}
      PROVE  /\ \A i \in AnswerIds : \A n \in DOMAIN said'[i] : said'[i][n][1] # q
             /\ \A p \in Asks \ {q} : \A n \in DOMAIN asking'[p].kept :
                                          asking'[p].kept[n][1] # q
             /\ asking'[q].stage = "idle" => said'[q] = <<>>
    BY DEF UnheardInv
  <2>1. q # r /\ asking'[q] = asking[q]
    BY <1>6, <1>7
  <2>2. \A n \in DOMAIN asking[r].kept : asking[r].kept[n][1] # q
    BY <2>1 DEF UnheardInv
  <2>3. \A i \in AnswerIds : \A n \in DOMAIN said'[i] : said'[i][n][1] # q
    BY <2>1, <2>2, <1>14 DEF UnheardInv
  <2>4. \A p \in Asks \ {q} : \A n \in DOMAIN asking'[p].kept : asking'[p].kept[n][1] # q
    BY <2>1, <1>11 DEF UnheardInv
  <2>5. q # asking[r].id /\ q \in AnswerIds
    BY <2>1, <1>8 DEF AnswerIds
  <2>6. asking'[q].stage = "idle" => said'[q] = <<>>
    BY <2>1, <2>5, <1>15 DEF UnheardInv
  <2> QED  BY <2>3, <2>4, <2>6
<1>17. OverlapInv'
  BY <1>1, <1>11 DEF OverlapInv
<1>18. StoredInv'
  <2> SUFFICES ASSUME NEW q \in Asks
      PROVE  /\ asking'[q].stage # "idle" => asking'[q].id \in RunIds \cup {q}
             /\ asking'[q].stage = "ended" /\ q \notin overlaps' /\ asking'[q].way # "invoke stream" =>
                  said'[asking'[q].id] = asking'[q].kept
             /\ asking'[q].stage = "done" /\ q \notin overlaps' =>
                  /\ asking'[q].way \in {"invoke", "job"} =>
                       asking'[q].answer = ExtractAgentText(asking'[q].kept)
                  /\ asking'[q].way \in {"send", "stream"} => asking'[q].answer = asking'[q].kept
                  /\ asking'[q].way = "invoke stream" => asking'[q].answer = asking'[q].written
    BY DEF StoredInv, Stored, ExtractAgentText
  <2>1. CASE q = r
    BY <2>1, <1>1, <1>3, <1>6, <1>7, <1>8
  <2>2. CASE q # r
    <3>1. asking'[q] = asking[q]
      BY <2>2, <1>6
    <3>2. ASSUME asking[q].stage = "ended", q \notin overlaps, asking[q].way # "invoke stream"
          PROVE  said'[asking[q].id] = asking[q].kept
      <4>1. asking[q].id \in AnswerIds
        BY <3>2 DEF StoredInv, Stored, AnswerIds
      <4>2. asking[q].id # asking[r].id
        BY <3>2, <2>2, <1>1 DEF OverlapInv, Running
      <4> QED  BY <4>1, <4>2, <3>2, <1>15 DEF StoredInv, Stored
    <3> QED  BY <3>1, <3>2, <1>1 DEF StoredInv, Stored
  <2> QED  BY <2>1, <2>2
<1> QED  BY <1>9, <1>12, <1>13, <1>16, <1>17, <1>18

LEMMA ReplyStep ==
  ASSUME AnswersInv, NEW r \in Asks, Reply(r)
  PROVE  AnswersInv'
<1> USE AnswersAssumption DEF AnswersInv
<1>1. asking[r].stage = "ended" /\ UNCHANGED <<adapter, said, failed, overlaps>>
  BY DEF Reply
<1>2. PICK answer : answer =
        CASE asking[r].way \in {"invoke", "job"} -> ExtractAgentText(said[asking[r].id])
          [] asking[r].way \in {"send", "stream"} -> said[asking[r].id]
          [] OTHER -> asking[r].written
  OBVIOUS
<1>3. asking \in [Asks -> AskRecords] /\ asking[r] \in AskRecords /\ said \in [AnswerIds -> Words]
  BY DEF AnswersTypeOK, AskRecords, Words
<1>4. PICK new : new = [asking[r] EXCEPT !.stage = "done", !.answer = answer, !.success = Succeeds(r)]
  OBVIOUS
<1>5. asking' = [asking EXCEPT ![r] = new]
  BY <1>2, <1>3, <1>4 DEF Reply, AskRecords
<1>6. asking'[r] = new /\ \A q \in Asks \ {r} : asking'[q] = asking[q]
  BY <1>3, <1>5
<1>7. /\ new.stage = "done" /\ new.way = asking[r].way /\ new.id = asking[r].id
      /\ new.words = asking[r].words /\ new.kept = asking[r].kept
      /\ new.written = asking[r].written /\ new.answer = answer
  BY <1>3, <1>4 DEF AskRecords
<1>8. asking[r].id \in AnswerIds /\ said[asking[r].id] \in Words /\ asking[r].written \in Words
  <2>1. asking[r].id \in AnswerIds
    BY <1>1 DEF StoredInv, Stored, AnswerIds
  <2> QED  BY <2>1, <1>3 DEF AskRecords
<1>9. \A w \in Words : ExtractAgentText(w) \in Words
  <2> SUFFICES ASSUME NEW w \in Words PROVE ExtractAgentText(w) \in Words
    OBVIOUS
  <2>1. w # <<>> => Len(w) \in 1..Len(w)
    BY EmptySeq, LenProperties DEF Words
  <2>2. w # <<>> => w[Len(w)] \in Asks \X (1..MaxWords)
    BY <2>1, ElementOfSeq DEF Words
  <2>3. w # <<>> => <<w[Len(w)]>> \in Words
    BY <2>2 DEF Words
  <2>4. <<>> \in Words
    BY DEF Words
  <2> QED  BY <2>3, <2>4 DEF ExtractAgentText, Last
<1>10. AnswersTypeOK'
  <2>1. answer \in Words
    BY <1>2, <1>8, <1>9
  <2>2. Succeeds(r) \in BOOLEAN
    BY <1>8 DEF Succeeds, AnswersTypeOK
  <2>3. new \in AskRecords
    BY <2>1, <2>2, <1>3, <1>4 DEF AskRecords
  <2>4. asking' \in [Asks -> AskRecords]
    BY <2>3, <1>3, <1>5
  <2> QED  BY <2>4, <1>1 DEF AnswersTypeOK, AskRecords, Words
<1>11. \A q \in Asks : Voiced(q)' = Voiced(q) /\ Streamed(q)' = Streamed(q)
  <2>1. \A q \in Asks : asking'[q].words = asking[q].words /\ asking'[q].way = asking[q].way
    BY <1>6, <1>7
  <2> QED  BY <2>1, <1>1 DEF Voiced, Streamed
<1>12. \A q \in Asks : /\ asking'[q].kept = asking[q].kept
                       /\ asking'[q].written = asking[q].written
                       /\ asking'[q].way = asking[q].way /\ asking'[q].id = asking[q].id
                       /\ asking'[q].stage # "idle" => asking[q].stage # "idle"
                       /\ asking'[q].stage \in {"idle", "running"} => asking'[q] = asking[q]
                       /\ Running(q)' => Running(q)
  <2> SUFFICES ASSUME NEW q \in Asks
      PROVE  /\ asking'[q].kept = asking[q].kept
             /\ asking'[q].written = asking[q].written
             /\ asking'[q].way = asking[q].way /\ asking'[q].id = asking[q].id
             /\ asking'[q].stage # "idle" => asking[q].stage # "idle"
             /\ asking'[q].stage \in {"idle", "running"} => asking'[q] = asking[q]
             /\ Running(q)' => Running(q)
    OBVIOUS
  <2>1. CASE q = r
    BY <2>1, <1>1, <1>6, <1>7 DEF Running
  <2>2. CASE q # r
    BY <2>2, <1>6 DEF Running
  <2> QED  BY <2>1, <2>2
<1>13. KeptInv'
  BY <1>11, <1>12 DEF KeptInv
<1>14. WrittenInv'
  BY <1>11, <1>12 DEF WrittenInv
<1>15. UnheardInv'
  BY <1>1, <1>12 DEF UnheardInv
<1>16. OverlapInv'
  BY <1>1, <1>12 DEF OverlapInv
<1>17. StoredInv'
  <2> SUFFICES ASSUME NEW q \in Asks
      PROVE  /\ asking'[q].stage # "idle" => asking'[q].id \in RunIds \cup {q}
             /\ asking'[q].stage = "ended" /\ q \notin overlaps' /\ asking'[q].way # "invoke stream" =>
                  said'[asking'[q].id] = asking'[q].kept
             /\ asking'[q].stage = "done" /\ q \notin overlaps' =>
                  /\ asking'[q].way \in {"invoke", "job"} =>
                       asking'[q].answer = ExtractAgentText(asking'[q].kept)
                  /\ asking'[q].way \in {"send", "stream"} => asking'[q].answer = asking'[q].kept
                  /\ asking'[q].way = "invoke stream" => asking'[q].answer = asking'[q].written
    BY DEF StoredInv, Stored, ExtractAgentText
  <2>1. CASE q # r
    <3>1. asking'[q] = asking[q]
      BY <2>1, <1>6
    <3>2. Stored(q)
      BY DEF StoredInv
    <3> QED  BY <3>1, <3>2, <1>1 DEF Stored, ExtractAgentText
  <2>2. CASE q = r
    <3>1. r \notin overlaps /\ asking[r].way # "invoke stream" => said[asking[r].id] = asking[r].kept
      BY <1>1 DEF StoredInv, Stored
    <3>2. asking[r].id \in RunIds \cup {r}
      BY <1>1 DEF StoredInv, Stored
    <3>3. /\ asking[r].way \in {"invoke", "job"} => answer = ExtractAgentText(said[asking[r].id])
          /\ asking[r].way \in {"send", "stream"} => answer = said[asking[r].id]
          /\ asking[r].way = "invoke stream" => answer = asking[r].written
      BY <1>2
    <3> QED  BY <2>2, <3>1, <3>2, <3>3, <1>1, <1>6, <1>7
  <2> QED  BY <2>1, <2>2
<1> QED  BY <1>10, <1>13, <1>14, <1>15, <1>16, <1>17

LEMMA AnswersInvStep == AnswersInv /\ [AnswersNext]_answerVars => AnswersInv'
<1> SUFFICES ASSUME AnswersInv, [AnswersNext]_answerVars PROVE AnswersInv'
  OBVIOUS
<1>1. ASSUME NEW r \in Asks, Ask(r) PROVE AnswersInv'
  BY <1>1, AskStep
<1>2. ASSUME NEW r \in Asks, Say(r) PROVE AnswersInv'
  BY <1>2, SayStep
<1>3. ASSUME NEW r \in Asks, HandlerFails(r) \/ HandlerEnds(r) PROVE AnswersInv'
  BY <1>3, EndStep
<1>4. ASSUME NEW r \in Asks, Reply(r) PROVE AnswersInv'
  BY <1>4, ReplyStep
<1>5. CASE UNCHANGED answerVars
  <2> USE <1>5 DEF answerVars
  <2>1. AnswersTypeOK'
    BY DEF AnswersInv, AnswersTypeOK
  <2>2. KeptInv' /\ WrittenInv'
    BY DEF AnswersInv, KeptInv, WrittenInv, Voiced, Streamed
  <2>3. UnheardInv' /\ OverlapInv'
    BY DEF AnswersInv, UnheardInv, OverlapInv, Running
  <2>4. StoredInv'
    BY DEF AnswersInv, StoredInv, Stored, ExtractAgentText
  <2> QED  BY <2>1, <2>2, <2>3, <2>4 DEF AnswersInv
<1> QED  BY <1>1, <1>2, <1>3, <1>4, <1>5 DEF AnswersNext

\* A sequence that ends in v words of one run and has no other of them.
EndsInOwn(s, r, v) ==
    \A i \in 1..Len(s) : /\ i <= Len(s) - v => s[i][1] # r
                         /\ i > Len(s) - v => s[i] = <<r, i - (Len(s) - v)>>

LEMMA OwnSuffix ==
  ASSUME NEW s \in Words, NEW v \in 0..Len(s), NEW r, EndsInOwn(s, r, v)
  PROVE  /\ {i \in DOMAIN s : s[i][1] = r} = (Len(s) - v + 1)..Len(s)
         /\ Cardinality({i \in DOMAIN s : s[i][1] = r}) = v
         /\ v > 0 => Last(s) = <<r, v>>
<1>1. Len(s) \in Nat /\ DOMAIN s = 1..Len(s) /\ v \in Nat /\ v <= Len(s)
  BY LenProperties DEF Words
<1>2. PICK l : l = Len(s)
  OBVIOUS
<1>3. \A i \in 1..l : s[i][1] = r <=> i > l - v
  <2> SUFFICES ASSUME NEW i \in 1..l PROVE s[i][1] = r <=> i > l - v
    OBVIOUS
  <2>1. CASE i > l - v
    BY <2>1, <1>2 DEF EndsInOwn
  <2>2. CASE i <= l - v
    BY <2>2, <1>1, <1>2 DEF EndsInOwn
  <2> QED  BY <2>1, <2>2, <1>1, <1>2
<1>4. {i \in DOMAIN s : s[i][1] = r} = (l - v + 1)..l
  <2>1. {i \in DOMAIN s : s[i][1] = r} = {i \in 1..l : i > l - v}
    BY <1>1, <1>2, <1>3
  <2>2. {i \in 1..l : i > l - v} = (l - v + 1)..l
    BY <1>1, <1>2
  <2> QED  BY <2>1, <2>2
<1>5. Cardinality((l - v + 1)..l) = v
  <2>1. l - v + 1 \in Int /\ l \in Int
    BY <1>1, <1>2
  <2>2. Cardinality((l - v + 1)..l) = IF l - v + 1 > l THEN 0 ELSE l - (l - v + 1) + 1
    BY <2>1, FS_Interval
  <2> QED  BY <2>2, <1>1, <1>2
<1>6. v > 0 => Last(s) = <<r, v>>
  <2>1. v > 0 => l \in 1..l /\ l > l - v /\ l - (l - v) = v
    BY <1>1, <1>2
  <2> QED  BY <2>1, <1>2 DEF Last, EndsInOwn
<1> QED  BY <1>2, <1>4, <1>5, <1>6

LEMMA AnswersInvReach == AnswersInv => AnswersReach
<1> SUFFICES ASSUME AnswersInv, NEW r \in Asks, asking[r].stage = "done", r \notin overlaps
    PROVE  LET a == asking[r]
               own == {i \in DOMAIN a.answer : a.answer[i][1] = r}
               heard == Cardinality(own)
               foreign == DOMAIN a.answer # own
           IN  /\ adapter.raw /\ a.way # "invoke stream" => heard = 0
               /\ a.words > 0 /\ (~adapter.raw \/ a.way = "invoke stream") =>
                    /\ heard = IF a.way \in {"invoke", "job"} THEN 1 ELSE a.words
                    /\ Last(a.answer) = <<r, a.words>>
               /\ a.way = "stream" => a.written = SubSeq(a.answer, Len(a.answer) - heard + 1, Len(a.answer))
               /\ a.way \in {"job", "invoke stream"} => ~foreign
               /\ a.way = "invoke" /\ foreign => a.words = 0 \/ adapter.raw
  BY DEF AnswersReach
<1> USE AnswersAssumption DEF AnswersInv
<1>1. PICK a : a = asking[r]
  OBVIOUS
<1>2. /\ a.way \in Ways /\ a.words \in 0..MaxWords /\ a.words \in Nat
      /\ a.kept \in Words /\ a.written \in Words /\ a.answer \in Words
      /\ Len(a.kept) \in Nat /\ DOMAIN a.kept = 1..Len(a.kept)
      /\ Len(a.written) \in Nat /\ DOMAIN a.written = 1..Len(a.written)
  BY <1>1, AskFacts, LenProperties DEF Words
<1> DEFINE own == {i \in DOMAIN a.answer : a.answer[i][1] = r}
<1>3. PICK v : v = Voiced(r)
  OBVIOUS
<1>4. v = IF adapter.raw THEN 0 ELSE a.words
  BY <1>1, <1>3 DEF Voiced
<1>5. /\ v \in 0..Len(a.kept)
      /\ \A i \in 1..Len(a.kept) :
           /\ i <= Len(a.kept) - v => a.kept[i][1] # r
           /\ i > Len(a.kept) - v => a.kept[i] = <<r, i - (Len(a.kept) - v)>>
      /\ a.way = "job" => Len(a.kept) = v
  <2>1. v \in 0..MaxWords
    BY <1>3, AskFacts
  <2>2. v <= Len(a.kept)
    BY <1>1, <1>3 DEF KeptInv
  <2>3. v \in 0..Len(a.kept)
    BY <2>1, <2>2, <1>2
  <2> QED  BY <2>3, <1>1, <1>3 DEF KeptInv
<1>6. /\ {i \in DOMAIN a.kept : a.kept[i][1] = r} = (Len(a.kept) - v + 1)..Len(a.kept)
      /\ Cardinality({i \in DOMAIN a.kept : a.kept[i][1] = r}) = v
      /\ v > 0 => Last(a.kept) = <<r, v>>
  <2>1. PICK s \in Words : s = a.kept
    BY <1>2
  <2>2. v \in 0..Len(s) /\ EndsInOwn(s, r, v)
    BY <2>1, <1>5 DEF EndsInOwn
  <2>3. /\ {i \in DOMAIN s : s[i][1] = r} = (Len(s) - v + 1)..Len(s)
        /\ Cardinality({i \in DOMAIN s : s[i][1] = r}) = v
        /\ v > 0 => Last(s) = <<r, v>>
    BY <2>2, OwnSuffix
  <2> QED  BY <2>1, <2>3
<1>7. /\ Len(a.written) = IF \/ a.way = "invoke stream"
                             \/ a.way = "stream" /\ ~adapter.raw
                          THEN a.words ELSE 0
      /\ \A k \in 1..Len(a.written) : a.written[k] = <<r, k>>
  BY <1>1 DEF WrittenInv, Streamed
<1>8. /\ a.way \in {"invoke", "job"} => a.answer = ExtractAgentText(a.kept)
      /\ a.way \in {"send", "stream"} => a.answer = a.kept
      /\ a.way = "invoke stream" => a.answer = a.written
  BY <1>1 DEF StoredInv, Stored
<1> SUFFICES
      /\ adapter.raw /\ a.way # "invoke stream" => Cardinality(own) = 0
      /\ a.words > 0 /\ (~adapter.raw \/ a.way = "invoke stream") =>
           /\ Cardinality(own) = IF a.way \in {"invoke", "job"} THEN 1 ELSE a.words
           /\ Last(a.answer) = <<r, a.words>>
      /\ a.way = "stream" =>
           a.written = SubSeq(a.answer, Len(a.answer) - Cardinality(own) + 1, Len(a.answer))
      /\ a.way \in {"job", "invoke stream"} => DOMAIN a.answer = own
      /\ a.way = "invoke" /\ DOMAIN a.answer # own => a.words = 0 \/ adapter.raw
  BY <1>1
<1>9. CASE a.way \in {"send", "stream"}
  <2>1. a.answer = a.kept /\ Cardinality(own) = v
    BY <1>6, <1>8, <1>9
  <2>2. adapter.raw => Cardinality(own) = 0
    BY <2>1, <1>4
  <2>3. a.words > 0 /\ ~adapter.raw => Cardinality(own) = a.words /\ Last(a.answer) = <<r, a.words>>
    BY <2>1, <1>4, <1>6
  <2>4. ASSUME a.way = "stream"
        PROVE  a.written = SubSeq(a.kept, Len(a.kept) - v + 1, Len(a.kept))
    <3>1. Len(a.written) = v
      BY <2>4, <1>4, <1>7
    <3>2. PICK l : l = Len(a.kept)
      OBVIOUS
    <3>3. l \in Nat /\ v \in Nat /\ v <= l /\ l - v + 1 \in 1..(l + 1) /\ l \in (l - v)..l
      BY <3>2, <1>2, <1>5
    <3>4. PICK tail : tail = SubSeq(a.kept, l - v + 1, l)
      OBVIOUS
    <3>5. /\ tail \in Words /\ Len(tail) = v
          /\ \A k \in 1..v : tail[k] = a.kept[l - v + k]
      <4>1. /\ tail \in Seq(Asks \X (1..MaxWords))
            /\ Len(tail) = IF l - v + 1 <= l THEN l - (l - v + 1) + 1 ELSE 0
            /\ \A k \in 1..(l - (l - v + 1) + 1) : tail[k] = a.kept[l - v + 1 + k - 1]
        BY <3>2, <3>3, <3>4, <1>2, SubSeqProperties DEF Words
      <4>2. l - (l - v + 1) + 1 = v /\ \A k \in 1..v : l - v + 1 + k - 1 = l - v + k
        BY <3>3
      <4>3. Len(tail) = v
        BY <4>1, <4>2, <3>3
      <4>4. \A k \in 1..v : tail[k] = a.kept[l - v + k]
        BY <4>1, <4>2
      <4> QED  BY <4>1, <4>3, <4>4 DEF Words
    <3>6. ASSUME NEW k \in 1..v PROVE tail[k] = a.written[k]
      <4>1. /\ l - v + k \in 1..Len(a.kept) /\ l - v + k > Len(a.kept) - v
            /\ (l - v + k) - (Len(a.kept) - v) = k
        BY <3>2, <3>3
      <4>2. a.kept[l - v + k] = <<r, k>>
        BY <4>1, <1>5
      <4> QED  BY <4>2, <3>1, <3>5, <1>7
    <3>7. tail = a.written
      BY <3>1, <3>5, <3>6, <1>2, SeqEqual DEF Words
    <3> QED  BY <3>2, <3>4, <3>7
  <2> QED  BY <2>1, <2>2, <2>3, <2>4, <1>9
<1>10. CASE a.way = "invoke stream"
  <2>1. a.answer = a.written /\ Len(a.written) = a.words
    BY <1>7, <1>8, <1>10
  <2>2. ASSUME NEW k \in 1..Len(a.written) PROVE a.written[k][1] = r
    <3>1. a.written[k] = <<r, k>>
      BY <1>7
    <3> QED  BY <3>1
  <2>3. own = 1..a.words /\ DOMAIN a.answer = 1..a.words
    BY <2>1, <2>2, <1>2
  <2>4. Cardinality(1..a.words) = a.words
    <3>1. PICK w \in Nat : w = a.words
      BY <1>2
    <3>2. Cardinality(1..w) = IF 1 > w THEN 0 ELSE w - 1 + 1
      BY FS_Interval
    <3> QED  BY <3>1, <3>2
  <2>5. a.words > 0 => Last(a.answer) = <<r, a.words>>
    <3>1. a.words > 0 => a.words \in 1..Len(a.written)
      BY <2>1, <1>2
    <3> QED  BY <3>1, <2>1, <1>7 DEF Last
  <2> QED  BY <2>3, <2>4, <2>5, <1>10
<1>11. CASE a.way \in {"invoke", "job"}
  <2>1. a.answer = IF a.kept = <<>> THEN <<>> ELSE <<a.kept[Len(a.kept)]>>
    BY <1>8, <1>11 DEF ExtractAgentText, Last
  <2>2. v = 0 => Cardinality(own) = 0
    <3> SUFFICES ASSUME v = 0 PROVE own = {}
      BY FS_EmptySet
    <3>1. CASE a.kept = <<>>
      BY <3>1, <2>1
    <3>2. CASE a.kept # <<>>
      <4>1. Len(a.kept) \in 1..Len(a.kept)
        BY <3>2, <1>2, EmptySeq DEF Words
      <4>2. a.kept[Len(a.kept)][1] # r
        BY <4>1, <1>2, <1>5
      <4>3. a.answer = <<a.kept[Len(a.kept)]>>
        BY <2>1, <3>2
      <4> QED  BY <4>2, <4>3
    <3> QED  BY <3>1, <3>2
  <2>3. v > 0 => own = {1} /\ DOMAIN a.answer = {1} /\ a.answer[1] = <<r, v>> /\ Last(a.answer) = <<r, v>>
    <3> SUFFICES ASSUME v > 0
        PROVE  own = {1} /\ DOMAIN a.answer = {1} /\ a.answer[1] = <<r, v>> /\ Last(a.answer) = <<r, v>>
      OBVIOUS
    <3>1. Len(a.kept) # 0
      BY <1>5, <1>2
    <3>2. a.kept # <<>>
      BY <3>1
    <3>3. a.answer = << <<r, v>> >>
      BY <3>2, <2>1, <1>6 DEF Last
    <3> QED  BY <3>3 DEF Last
  <2>4. Cardinality({1}) = 1
    BY FS_Singleton
  <2>5. a.way = "job" /\ v = 0 => DOMAIN a.answer = own
    <3> SUFFICES ASSUME a.way = "job", v = 0 PROVE DOMAIN a.answer = own
      OBVIOUS
    <3>1. Len(a.kept) = 0
      BY <1>5
    <3>2. a.kept = <<>>
      BY <3>1, <1>2, EmptySeq DEF Words
    <3> QED  BY <3>2, <2>1
  <2>6. v \in Nat
    BY <1>5, <1>2
  <2>7. v = 0 \/ v > 0
    BY <2>6
  <2>8. adapter.raw => v = 0
    BY <1>4
  <2>9. a.words > 0 /\ ~adapter.raw => v = a.words /\ v > 0
    BY <1>4
  <2>10. v = 0 => a.words = 0 \/ adapter.raw
    BY <1>4
  <2> QED  BY <2>2, <2>3, <2>4, <2>5, <2>7, <2>8, <2>9, <2>10, <1>11
<1> QED  BY <1>2, <1>9, <1>10, <1>11 DEF Ways

\* Unless runs on one id overlap, an asker gets the words of its own run.
THEOREM AnswersAreOwn == AnswersSpec => []AnswersReach
<1>1. AnswersSpec => []AnswersInv
  BY AnswersInvInit, AnswersInvStep, PTL DEF AnswersSpec
<1> QED  BY <1>1, AnswersInvReach, PTL

-----------------------------------------------------------------------------
\* Who reads a list, and what is known of the reading.

TaskIds == TaskNames \cup Generated

WalkShape ==
    /\ walk = [list |-> walk.list, stage |-> walk.stage, limit |-> walk.limit,
               offset |-> walk.offset, echo |-> walk.echo, pages |-> walk.pages,
               seen |-> walk.seen]
    /\ walk.list \in {"none", "conversations", "platform"}
    /\ walk.echo \in {"applied", "asked", "none"}
    /\ walk.list = "none" => walk.stage = "idle"

\* A conversation's place in the list when no two have the same last_updated.
NewerThan(id) == {j \in Conversations : tasks[j].stamp > tasks[id].stamp}

\* What was read are the conversations up to the offset, each in its place.
ReadUpTo(n) ==
    /\ walk.seen \in Seq(Conversations)
    /\ Len(walk.seen) = n /\ n <= Cardinality(Conversations)
    /\ \A i \in 1..n : Cardinality(NewerThan(walk.seen[i])) = i - 1

ConversationWalk == walk.list = "conversations" =>
    /\ walk.stage \in {"ask", "done", "panicked"}
    /\ walk.stage = "panicked" => walk.limit < 0 \/ walk.offset < 0
    /\ walk.stage = "ask" /\ walk.offset >= 0 /\ ~moved /\ ~Ties => ReadUpTo(walk.offset)
    /\ walk.stage = "done" /\ ~moved /\ ~Ties => ReadUpTo(Cardinality(Conversations))

\* What was read are the entries of the platform's list up to the offset; with
\* another limit in the answer some are left out, and without one the first
\* page is read again and again.
PlatformWalk == walk.list = "platform" =>
    /\ walk.stage \in {"ask", "done"} /\ walk.limit \in Nat \ {0}
    /\ walk.seen \in Seq(Nat)
    /\ walk.stage = "ask" => walk.offset \in 0..PlatformItems
    /\ walk.echo # "none" =>
         /\ \A i, j \in 1..Len(walk.seen) : i < j => walk.seen[i] < walk.seen[j]
         /\ walk.stage = "ask" => \A i \in 1..Len(walk.seen) : walk.seen[i] <= walk.offset
    /\ walk.echo = "applied" =>
         /\ Len(walk.seen) = IF walk.stage = "ask" THEN walk.offset ELSE PlatformItems
         /\ \A i \in 1..Len(walk.seen) : walk.seen[i] = i
    /\ walk.echo = "none" /\ walk.stage = "ask" => walk.offset = 0
    /\ walk.echo = "none" /\ (walk.stage = "done" \/ PlatformItems = 0) => walk.seen = <<>>

QueryInv == QueryTypeOK /\ TasksFound /\ WalkShape /\ ConversationWalk /\ PlatformWalk

LEMMA QueryInvInit == QueryInit => QueryInv
<1> SUFFICES ASSUME QueryInit PROVE QueryInv
  OBVIOUS
<1> USE QueryAssumption DEF QueryInit
<1>1. DOMAIN tasks = {}
  OBVIOUS
<1>2. QueryTypeOK
  <2>1. message \in [task : TaskNames \cup {Unnamed}, context : Contexts \cup {Unnamed}]
    BY DEF Blank
  <2>2. clock \in 1..MaxClock /\ sends \in 0..MaxSends
    OBVIOUS
  <2>3. /\ walk.stage \in {"idle", "ask", "done", "panicked"}
        /\ walk.offset \in Int /\ walk.limit \in Int /\ walk.pages \in 0..MaxPages
    OBVIOUS
  <2>4. /\ moved \in BOOLEAN
        /\ told \subseteq [task : TaskIds, context : Contexts \cup TaskIds]
    OBVIOUS
  <2> HIDE QueryAssumption DEF QueryInit
  <2> QED  BY <1>1, <2>1, <2>2, <2>3, <2>4 DEF QueryTypeOK, TaskIds
<1>3. TasksFound
  BY DEF TasksFound
<1>4. WalkShape
  BY DEF WalkShape
<1>5. ConversationWalk /\ PlatformWalk
  BY DEF ConversationWalk, PlatformWalk
<1> QED  BY <1>2, <1>3, <1>4, <1>5 DEF QueryInv

\* The smaller of two numbers.
LEMMA MinOfTwo ==
  ASSUME NEW a \in Int, NEW b \in Int
  PROVE  Min({a, b}) = IF a <= b THEN a ELSE b
<1>1. PICK m : m = IF a <= b THEN a ELSE b
  OBVIOUS
<1>2. m \in {a, b} /\ \A y \in {a, b} : m =< y
  BY <1>1
<1>3. Min({a, b}) \in {a, b} /\ \A y \in {a, b} : Min({a, b}) =< y
  BY <1>2 DEF Min
<1> QED  BY <1>1, <1>2, <1>3

LEMMA ConversationsFinite ==
  ASSUME QueryTypeOK
  PROVE  /\ IsFiniteSet(Conversations)
         /\ Cardinality(Conversations) \in Nat
         /\ Conversations \subseteq TaskIds
         /\ \A id \in Conversations : tasks[id].stamp \in Nat
<1>1. IsFiniteSet(TaskIds)
  BY QueryAssumption, FS_Union DEF TaskIds
<1>2. Conversations \subseteq TaskIds
  BY DEF Conversations, TaskIds, QueryTypeOK
<1>3. IsFiniteSet(Conversations) /\ Cardinality(Conversations) \in Nat
  BY <1>1, <1>2, FS_Subset, FS_CardinalityType
<1>4. ASSUME NEW id \in Conversations PROVE tasks[id].stamp \in Nat
  <2>1. id \in DOMAIN tasks
    BY DEF Conversations
  <2>2. tasks[id].stamp \in 0..MaxClock
    BY <2>1 DEF QueryTypeOK
  <2> QED  BY <2>2
<1> QED  BY <1>2, <1>3, <1>4

\* What has been read stays in its place while no conversation changes.
LEMMA ReadingStays ==
  ASSUME ConversationWalk, walk' = walk, moved' \in BOOLEAN,
         ~moved' => /\ ~moved /\ Conversations' = Conversations
                    /\ \A id \in Conversations : tasks'[id].stamp = tasks[id].stamp
  PROVE  ConversationWalk'
<1> SUFFICES ASSUME walk.list = "conversations"
    PROVE  /\ walk.stage \in {"ask", "done", "panicked"}
           /\ walk.stage = "panicked" => walk.limit < 0 \/ walk.offset < 0
           /\ walk.stage = "ask" /\ walk.offset >= 0 /\ ~moved' /\ ~Ties' => ReadUpTo(walk.offset)'
           /\ walk.stage = "done" /\ ~moved' /\ ~Ties' => ReadUpTo(Cardinality(Conversations))'
  BY DEF ConversationWalk
<1>1. ASSUME ~moved'
      PROVE  Ties' = Ties /\ \A id \in Conversations : NewerThan(id)' = NewerThan(id)
  <2>1. /\ Conversations' = Conversations
        /\ \A id \in Conversations : tasks'[id].stamp = tasks[id].stamp
    BY <1>1
  <2> QED  BY <2>1 DEF Ties, NewerThan
<1>2. ASSUME ~moved', NEW n, ReadUpTo(n) PROVE ReadUpTo(n)'
  <2>1. Conversations' = Conversations /\ \A id \in Conversations : NewerThan(id)' = NewerThan(id)
    BY <1>1, <1>2
  <2>2. /\ walk.seen \in Seq(Conversations) /\ Len(walk.seen) = n
        /\ n <= Cardinality(Conversations)
        /\ \A i \in 1..n : Cardinality(NewerThan(walk.seen[i])) = i - 1
    BY <1>2 DEF ReadUpTo
  <2>3. \A i \in 1..n : walk.seen[i] \in Conversations
    BY <2>2, ElementOfSeq
  <2>4. \A i \in 1..n : NewerThan(walk.seen[i])' = NewerThan(walk.seen[i])
    BY <2>1, <2>3
  <2> QED  BY <2>1, <2>2, <2>4 DEF ReadUpTo
<1> QED  BY <1>1, <1>2 DEF ConversationWalk

LEMMA TickStep == QueryInv /\ Tick => QueryInv'
<1> SUFFICES ASSUME QueryInv, Tick PROVE QueryInv'
  OBVIOUS
<1> USE QueryAssumption DEF QueryInv
<1>1. /\ clock' = clock + 1 /\ clock < MaxClock /\ tasks' = tasks /\ sends' = sends
      /\ message' = message /\ told' = told /\ walk' = walk /\ moved' = moved
  BY DEF Tick
<1>2. clock' \in 1..MaxClock
  BY <1>1 DEF QueryTypeOK
<1>3. QueryTypeOK'
  BY <1>1, <1>2 DEF QueryTypeOK
<1>4. TasksFound' /\ WalkShape' /\ PlatformWalk'
  BY <1>1 DEF TasksFound, TasksGet, TasksList, WalkShape, PlatformWalk
<1>5. Conversations' = Conversations
  BY <1>1 DEF Conversations
<1>6. ConversationWalk'
  BY <1>1, <1>5, ReadingStays DEF QueryTypeOK
<1> QED  BY <1>3, <1>4, <1>6

LEMMA SendTaskStep == QueryInv /\ SendTask => QueryInv'
<1> SUFFICES ASSUME QueryInv, SendTask PROVE QueryInv'
  OBVIOUS
<1> USE QueryAssumption DEF QueryInv
<1>1. PICK m \in {Blank, message}, task \in TaskNames \cup {Unnamed},
           about \in Contexts \cup {Unnamed}, streamed \in BOOLEAN :
        LET ids == ApplyIDs(m, task, about)
        IN  /\ sends < MaxSends /\ walk.list # "platform"
            /\ sends' = sends + 1
            /\ \E id \in IF ids.task = Unnamed THEN Generated \ DOMAIN tasks ELSE {ids.task} :
              LET kept == GetOrCreateContext(id, ids.context)
                  stamp == IF ~streamed THEN clock
                           ELSE IF id \in DOMAIN tasks THEN tasks[id].stamp ELSE 0
              IN  /\ tasks' = [i \in DOMAIN tasks \cup {id} |->
                        IF i = id THEN [context |-> kept, stamp |-> stamp] ELSE tasks[i]]
                  /\ message' = ids
                  /\ told' = told \cup {[task |-> id, context |-> kept]}
                  /\ moved' = (moved \/ ~streamed)
                  /\ UNCHANGED <<clock, walk>>
  BY DEF SendTask
<1>2. PICK ids : ids = ApplyIDs(m, task, about)
  OBVIOUS
<1>3. PICK id \in IF ids.task = Unnamed THEN Generated \ DOMAIN tasks ELSE {ids.task} :
        /\ tasks' = [i \in DOMAIN tasks \cup {id} |->
               IF i = id THEN [context |-> GetOrCreateContext(id, ids.context),
                               stamp |-> IF ~streamed THEN clock
                                         ELSE IF id \in DOMAIN tasks THEN tasks[id].stamp ELSE 0]
               ELSE tasks[i]]
        /\ message' = ids
        /\ told' = told \cup {[task |-> id, context |-> GetOrCreateContext(id, ids.context)]}
        /\ moved' = (moved \/ ~streamed)
        /\ UNCHANGED <<clock, walk>>
  BY <1>1, <1>2
<1>4. PICK kept : kept = GetOrCreateContext(id, ids.context)
  OBVIOUS
<1>5. PICK stamp : stamp = IF ~streamed THEN clock
                           ELSE IF id \in DOMAIN tasks THEN tasks[id].stamp ELSE 0
  OBVIOUS
<1>6. /\ tasks' = [i \in DOMAIN tasks \cup {id} |->
             IF i = id THEN [context |-> kept, stamp |-> stamp] ELSE tasks[i]]
      /\ told' = told \cup {[task |-> id, context |-> kept]}
  BY <1>3, <1>4, <1>5
<1>7. /\ DOMAIN tasks' = DOMAIN tasks \cup {id}
      /\ tasks'[id] = [context |-> kept, stamp |-> stamp]
      /\ tasks'[id].context = kept /\ tasks'[id].stamp = stamp
      /\ \A i \in DOMAIN tasks \ {id} : tasks'[i] = tasks[i]
  BY <1>6
<1>8. /\ message' = ids /\ sends' = sends + 1 /\ sends < MaxSends
      /\ clock' = clock /\ walk' = walk /\ walk.list # "platform"
      /\ moved' = (moved \/ ~streamed)
  BY <1>1, <1>3
<1>9. ids \in [task : TaskNames \cup {Unnamed}, context : Contexts \cup {Unnamed}]
  <2>1. m \in [task : TaskNames \cup {Unnamed}, context : Contexts \cup {Unnamed}]
    BY <1>1 DEF QueryTypeOK, Blank
  <2> QED  BY <2>1, <1>2 DEF ApplyIDs
<1>10. id \in TaskIds
  BY <1>3, <1>9 DEF TaskIds
<1>11. kept \in Contexts \cup TaskIds
  <2>1. CASE id \in DOMAIN tasks
    BY <2>1, <1>4 DEF GetOrCreateContext, QueryTypeOK, TaskIds
  <2>2. CASE id \notin DOMAIN tasks
    <3>1. kept \in {id, ids.context} /\ (ids.context = Unnamed => kept = id)
      BY <2>2, <1>4 DEF GetOrCreateContext, ContextOf
    <3> QED  BY <3>1, <1>9, <1>10
  <2> QED  BY <2>1, <2>2
<1>12. stamp \in 0..MaxClock
  <2>1. clock \in 0..MaxClock /\ 0 \in 0..MaxClock
    BY DEF QueryTypeOK
  <2>2. id \in DOMAIN tasks => tasks[id].stamp \in 0..MaxClock
    BY DEF QueryTypeOK
  <2> QED  BY <2>1, <2>2, <1>5
<1>13. QueryTypeOK'
  <2>1. DOMAIN tasks' \subseteq TaskIds
    BY <1>7, <1>10 DEF QueryTypeOK, TaskIds
  <2>2. \A i \in DOMAIN tasks' : tasks'[i] \in [context : Contexts \cup TaskIds, stamp : 0..MaxClock]
    BY <1>7, <1>11, <1>12 DEF QueryTypeOK, TaskIds
  <2>3. sends' \in 0..MaxSends
    BY <1>8 DEF QueryTypeOK
  <2>4. told' \subseteq [task : TaskIds, context : Contexts \cup TaskIds]
    BY <1>6, <1>10, <1>11 DEF QueryTypeOK, TaskIds
  <2>5. moved' \in BOOLEAN
    BY <1>8 DEF QueryTypeOK
  <2> QED  BY <2>1, <2>2, <2>3, <2>4, <2>5, <1>8, <1>9 DEF QueryTypeOK, TaskIds
<1>14. TasksFound'
  <2> SUFFICES ASSUME NEW g \in told'
      PROVE  g.task \in DOMAIN tasks' /\ tasks'[g.task].context = g.context
    BY DEF TasksFound, TasksGet, TasksList
  <2>1. CASE g = [task |-> id, context |-> kept]
    <3>1. g.task = id /\ g.context = kept
      BY <2>1
    <3> QED  BY <3>1, <1>7
  <2>2. CASE g \in told
    <3>1. g.task \in DOMAIN tasks /\ tasks[g.task].context = g.context
      BY <2>2 DEF TasksFound, TasksGet
    <3>2. CASE g.task = id
      BY <3>1, <3>2, <1>4, <1>7 DEF GetOrCreateContext
    <3>3. CASE g.task # id
      BY <3>1, <3>3, <1>7
    <3> QED  BY <3>2, <3>3
  <2> QED  BY <2>1, <2>2, <1>6
<1>15. WalkShape' /\ PlatformWalk'
  BY <1>8 DEF WalkShape, PlatformWalk
<1>16. ASSUME ~moved'
       PROVE  /\ ~moved /\ Conversations' = Conversations
              /\ \A i \in Conversations : tasks'[i].stamp = tasks[i].stamp
  <2>1. streamed /\ ~moved
    BY <1>8, <1>16 DEF QueryTypeOK
  <2>2. stamp = IF id \in DOMAIN tasks THEN tasks[id].stamp ELSE 0
    BY <2>1, <1>5
  <2>3. \A i \in DOMAIN tasks : i \in DOMAIN tasks' /\ tasks'[i].stamp = tasks[i].stamp
    BY <2>2, <1>7
  <2>4. id \notin DOMAIN tasks => tasks'[id].stamp = 0
    BY <2>2, <1>7
  <2>5. Conversations' = Conversations
    BY <2>3, <2>4, <1>7 DEF Conversations
  <2> QED  BY <2>1, <2>3, <2>5 DEF Conversations
<1>17. ConversationWalk'
  BY <1>8, <1>13, <1>16, ReadingStays DEF QueryTypeOK
<1> QED  BY <1>13, <1>14, <1>15, <1>17

\* The parameters leave a slice unless one is negative.
LEMMA SlicesWhen ==
  ASSUME QueryTypeOK, NEW limit \in Int, NEW offset \in Int
  PROVE  Slices(limit, offset) <=> limit >= 0 /\ offset >= 0
<1>1. PICK total \in Nat : total = Cardinality(Conversations)
  BY ConversationsFinite
<1>2. PICK start \in Int : start = IF offset <= total THEN offset ELSE total
  BY <1>1
<1>3. PICK end \in Int : end = IF start + limit <= total THEN start + limit ELSE total
  BY <1>1, <1>2
<1>4. Min({offset, total}) = start
  BY <1>1, <1>2, MinOfTwo
<1>5. Min({start + limit, total}) = end
  <2>1. start + limit \in Int /\ total \in Int
    BY <1>1, <1>2
  <2> QED  BY <2>1, <1>3, MinOfTwo
<1>6. Slices(limit, offset) <=> start >= 0 /\ end >= start
  BY <1>1, <1>4, <1>5 DEF Slices
<1> QED  BY <1>1, <1>2, <1>3, <1>6

\* Without ties a sorting puts each conversation in its place.
LEMMA SortingPlaces ==
  ASSUME QueryTypeOK, ~Ties, NEW s \in Sortings
  PROVE  /\ s \in Seq(Conversations)
         /\ Len(s) = Cardinality(Conversations)
         /\ \A i \in 1..Len(s) : Cardinality(NewerThan(s[i])) = i - 1
<1>1. PICK S \in SUBSET Conversations : s \in SetToSeqs(S)
  BY DEF Sortings, SetToAllKPermutations
<1>2. PICK n : n = Cardinality(Conversations)
  OBVIOUS
<1>3. /\ Len(s) = n
      /\ \A i, j \in DOMAIN s : i < j => tasks[s[i]].stamp >= tasks[s[j]].stamp
  BY <1>2 DEF Sortings
<1>4. /\ IsFiniteSet(Conversations) /\ n \in Nat
      /\ \A id \in Conversations : tasks[id].stamp \in Nat
  BY <1>2, ConversationsFinite
<1>5. IsFiniteSet(S) /\ Cardinality(S) \in Nat
  BY <1>1, <1>4, FS_Subset, FS_CardinalityType
<1>6. /\ s \in [1..Cardinality(S) -> S]
      /\ \A i, j \in 1..Cardinality(S) : i # j => s[i] # s[j]
  BY <1>1 DEF SetToSeqs
<1>7. s \in Seq(S) /\ Len(s) = Cardinality(S)
  <2>1. s \in Seq(S)
    BY <1>5, <1>6, SeqDef
  <2>2. DOMAIN s = 1..Len(s) /\ Len(s) \in Nat /\ DOMAIN s = 1..Cardinality(S)
    BY <2>1, <1>6, LenProperties
  <2> QED  BY <2>1, <2>2, <1>5
<1>8. S = Conversations
  BY <1>1, <1>2, <1>3, <1>4, <1>7, FS_Subset
<1>9. /\ s \in [1..n -> Conversations] /\ DOMAIN s = 1..n
      /\ \A i, j \in 1..n : i # j => s[i] # s[j]
  BY <1>2, <1>6, <1>8
<1>10. \A id \in Conversations : \E k \in 1..n : s[k] = id
  <2>1. s \in Injection(1..n, Conversations)
    BY <1>9 DEF Injection, IsInjective
  <2>2. Cardinality(1..n) = n
    <3>1. Cardinality(1..n) = IF 1 > n THEN 0 ELSE n - 1 + 1
      BY <1>4, FS_Interval
    <3> QED  BY <3>1, <1>4
  <2>3. s \in Surjection(1..n, Conversations)
    BY <2>1, <2>2, <1>2, <1>4, FS_Injection
  <2> QED  BY <2>3 DEF Surjection
<1>11. ASSUME NEW i \in 1..n
       PROVE  Cardinality(NewerThan(s[i])) = i - 1
  <2>1. s[i] \in Conversations /\ tasks[s[i]].stamp \in Nat
    BY <1>4, <1>9
  <2>2. ASSUME NEW j \in NewerThan(s[i]) PROVE \E k \in 1..(i - 1) : s[k] = j
    <3>1. j \in Conversations /\ tasks[j].stamp > tasks[s[i]].stamp
      BY DEF NewerThan
    <3>2. PICK k \in 1..n : s[k] = j
      BY <3>1, <1>10
    <3>3. k # i
      BY <3>1, <3>2, <2>1
    <3>4. ~(i < k)
      <4>1. ASSUME i < k PROVE FALSE
        <5>1. tasks[s[i]].stamp >= tasks[s[k]].stamp
          BY <4>1, <1>3, <1>9
        <5> QED  BY <5>1, <3>1, <3>2, <2>1, <1>4
      <4> QED  BY <4>1
    <3>5. k \in 1..(i - 1)
      BY <3>3, <3>4, <1>4
    <3> QED  BY <3>2, <3>5
  <2>3. ASSUME NEW k \in 1..(i - 1) PROVE s[k] \in NewerThan(s[i])
    <3>1. k \in 1..n /\ k < i /\ k # i
      BY <1>4
    <3>2. s[k] \in Conversations /\ tasks[s[k]].stamp \in Nat /\ s[k] # s[i]
      BY <3>1, <1>4, <1>9
    <3>3. tasks[s[k]].stamp >= tasks[s[i]].stamp
      BY <3>1, <1>3, <1>9
    <3>4. tasks[s[k]].stamp # tasks[s[i]].stamp
      BY <3>2, <2>1 DEF Ties
    <3>5. tasks[s[k]].stamp > tasks[s[i]].stamp
      BY <3>2, <3>3, <3>4, <2>1
    <3> QED  BY <3>2, <3>5 DEF NewerThan
  <2>4. PICK f : f = [k \in 1..(i - 1) |-> s[k]]
    OBVIOUS
  <2>5. f \in [1..(i - 1) -> NewerThan(s[i])] /\ \A k \in 1..(i - 1) : f[k] = s[k]
    BY <2>3, <2>4
  <2>6. \A j \in NewerThan(s[i]) : \E k \in 1..(i - 1) : f[k] = j
    BY <2>2, <2>5
  <2>7. f \in Surjection(1..(i - 1), NewerThan(s[i]))
    BY <2>5, <2>6 DEF Surjection
  <2>8. \A k, l \in 1..(i - 1) : f[k] = f[l] => k = l
    <3>1. \A k \in 1..(i - 1) : k \in 1..n
      BY <1>4
    <3> QED  BY <3>1, <2>5, <1>9
  <2>9. f \in Injection(1..(i - 1), NewerThan(s[i]))
    BY <2>5, <2>8 DEF Injection, IsInjective
  <2>10. IsFiniteSet(1..(i - 1)) /\ Cardinality(1..(i - 1)) = i - 1
    <3>1. 1 \in Int /\ i - 1 \in Int /\ i \in Nat
      BY <1>4
    <3>2. /\ IsFiniteSet(1..(i - 1))
          /\ Cardinality(1..(i - 1)) = IF 1 > i - 1 THEN 0 ELSE i - 1 - 1 + 1
      BY <3>1, FS_Interval
    <3> QED  BY <3>1, <3>2
  <2> QED  BY <2>7, <2>9, <2>10, FS_Surjection
<1> QED  BY <1>2, <1>3, <1>7, <1>8, <1>11

LEMMA BeginWalkStep == QueryInv /\ BeginWalk => QueryInv'
<1> SUFFICES ASSUME QueryInv, BeginWalk PROVE QueryInv'
  OBVIOUS
<1> USE QueryAssumption DEF QueryInv
<1>1. PICK list \in {"conversations", "platform"}, limit \in {-1, 1, 2}, offset \in {-1, 0},
           echo \in {"applied", "asked", "none"} :
        /\ list = "platform" => limit > 0 /\ offset = 0
        /\ walk' = [list |-> list, stage |-> "ask", limit |-> limit, offset |-> offset,
                    echo |-> echo, pages |-> 0, seen |-> <<>>]
        /\ moved' = FALSE
        /\ UNCHANGED <<tasks, clock, sends, message, told>>
  BY DEF BeginWalk
<1>2. /\ walk'.list = list /\ walk'.stage = "ask" /\ walk'.limit = limit
      /\ walk'.offset = offset /\ walk'.echo = echo /\ walk'.pages = 0 /\ walk'.seen = <<>>
  BY <1>1
<1>3. QueryTypeOK'
  <2>1. /\ walk'.stage \in {"idle", "ask", "done", "panicked"}
        /\ walk'.offset \in Int /\ walk'.limit \in Int /\ walk'.pages \in 0..MaxPages
    BY <1>2
  <2>2. moved' \in BOOLEAN
    BY <1>1
  <2>3. /\ tasks' = tasks /\ clock' = clock /\ sends' = sends /\ message' = message
        /\ told' = told
    BY <1>1
  <2> QED  BY <2>1, <2>2, <2>3 DEF QueryTypeOK
<1>4. TasksFound'
  BY <1>1 DEF TasksFound, TasksGet, TasksList
<1>5. WalkShape'
  BY <1>1, <1>2 DEF WalkShape
<1>6. Conversations' = Conversations
  BY <1>1 DEF Conversations
<1>7. ConversationWalk'
  <2> SUFFICES ASSUME offset >= 0 PROVE ReadUpTo(offset)'
    BY <1>2 DEF ConversationWalk
  <2>1. offset = 0
    BY <1>1
  <2>2. walk'.seen \in Seq(Conversations) /\ Len(walk'.seen) = 0
    BY <1>2, EmptySeq
  <2>3. 0 <= Cardinality(Conversations)
    BY ConversationsFinite
  <2> QED  BY <2>1, <2>2, <2>3, <1>6 DEF ReadUpTo
<1>8. PlatformWalk'
  <2> SUFFICES ASSUME list = "platform"
      PROVE  /\ limit \in Nat \ {0} /\ <<>> \in Seq(Nat) /\ Len(<<>>) = 0
             /\ offset = 0 /\ 0 \in 0..PlatformItems
    BY <1>2 DEF PlatformWalk
  <2> QED  BY <1>1, EmptySeq
<1> QED  BY <1>3, <1>4, <1>5, <1>7, <1>8

LEMMA ReadConversationsStep == QueryInv /\ ReadConversations => QueryInv'
<1> SUFFICES ASSUME QueryInv, ReadConversations PROVE QueryInv'
  OBVIOUS
<1> USE QueryAssumption DEF QueryInv
<1>1. /\ walk.stage = "ask" /\ walk.list = "conversations" /\ walk.pages < MaxPages
      /\ tasks' = tasks /\ clock' = clock /\ sends' = sends /\ message' = message
      /\ told' = told /\ moved' = moved
  BY DEF ReadConversations
<1>2. walk.offset \in Int /\ walk.limit \in Int /\ walk.pages + 1 \in 0..MaxPages
  BY <1>1 DEF QueryTypeOK
<1>3. TasksFound'
  BY <1>1 DEF TasksFound, TasksGet, TasksList
<1>4. Conversations' = Conversations /\ Ties' = Ties
  BY <1>1 DEF Conversations, Ties
<1>5. ASSUME NEW id PROVE NewerThan(id)' = NewerThan(id)
  BY <1>1, <1>4 DEF NewerThan
<1>6. PICK n \in Nat : n = Cardinality(Conversations)
  BY ConversationsFinite
<1>7. CASE ~Slices(walk.limit, walk.offset)
  <2>1. walk' = [walk EXCEPT !.stage = "panicked"]
    BY <1>7 DEF ReadConversations
  <2>2. /\ walk'.list = "conversations" /\ walk'.stage = "panicked"
        /\ walk'.limit = walk.limit /\ walk'.offset = walk.offset /\ walk'.echo = walk.echo
        /\ walk'.pages = walk.pages /\ walk'.seen = walk.seen
    BY <2>1, <1>1 DEF WalkShape
  <2>3. WalkShape'
    BY <2>1, <2>2 DEF WalkShape
  <2>4. QueryTypeOK'
    BY <2>2, <1>1 DEF QueryTypeOK
  <2>5. walk.limit < 0 \/ walk.offset < 0
    BY <1>2, <1>7, SlicesWhen
  <2>6. ConversationWalk' /\ PlatformWalk'
    BY <2>2, <2>5 DEF ConversationWalk, PlatformWalk
  <2> QED  BY <2>3, <2>4, <2>6, <1>3
<1>8. CASE Slices(walk.limit, walk.offset)
  <2>1. PICK s \in Sortings :
          walk' = [walk EXCEPT
              !.seen = @ \o SubSeq(s, walk.offset + 1, Min({walk.offset + walk.limit, Len(s)})),
              !.pages = @ + 1, !.offset = @ + walk.limit,
              !.stage = IF walk.offset + walk.limit < Cardinality(Conversations)
                        THEN "ask" ELSE "done"]
    BY <1>8 DEF ReadConversations, ConversationPages
  <2>2. PICK page : page = SubSeq(s, walk.offset + 1, Min({walk.offset + walk.limit, Len(s)}))
    OBVIOUS
  <2>3. /\ walk'.list = "conversations" /\ walk'.limit = walk.limit /\ walk'.echo = walk.echo
        /\ walk'.stage = IF walk.offset + walk.limit < n THEN "ask" ELSE "done"
        /\ walk'.offset = walk.offset + walk.limit /\ walk'.pages = walk.pages + 1
        /\ walk'.seen = walk.seen \o page
    BY <2>1, <2>2, <1>1, <1>6 DEF WalkShape
  <2>4. WalkShape'
    BY <2>1, <2>3 DEF WalkShape
  <2>5. walk'.offset \in Int /\ walk.limit >= 0 /\ walk.offset >= 0
    BY <2>3, <1>2, <1>8, SlicesWhen
  <2>6. QueryTypeOK'
    BY <2>3, <2>5, <1>1, <1>2 DEF QueryTypeOK
  <2>7. PICK e \in Int : e = IF walk.offset + walk.limit <= n THEN walk.offset + walk.limit ELSE n
    BY <1>2, <1>6
  <2>8. ASSUME ~moved, ~Ties PROVE ReadUpTo(e)'
    <3>1. /\ s \in Seq(Conversations) /\ Len(s) = n
          /\ \A i \in 1..n : Cardinality(NewerThan(s[i])) = i - 1
      BY <2>1, <2>8, <1>6, SortingPlaces
    <3>2. /\ walk.seen \in Seq(Conversations) /\ Len(walk.seen) = walk.offset
          /\ walk.offset <= n
          /\ \A i \in 1..walk.offset : Cardinality(NewerThan(walk.seen[i])) = i - 1
      BY <2>5, <2>8, <1>1, <1>6 DEF ConversationWalk, ReadUpTo
    <3>3. PICK o \in Nat : o = walk.offset
      BY <2>5, <1>2
    <3>4. o <= e /\ e <= n /\ e \in Nat
      BY <3>2, <3>3, <2>5, <2>7, <1>2, <1>6
    <3>5. Min({walk.offset + walk.limit, Len(s)}) = e
      <4>1. walk.offset + walk.limit \in Int /\ Len(s) \in Int
        BY <3>1, <1>2, <1>6
      <4> QED  BY <4>1, <3>1, <2>7, MinOfTwo
    <3>6. page = SubSeq(s, o + 1, e)
      BY <2>2, <3>3, <3>5
    <3>7. /\ page \in Seq(Conversations) /\ Len(page) = e - o
          /\ \A k \in 1..(e - o) : page[k] = s[o + k]
      <4>1. o + 1 \in Int /\ e \in Int /\ \A i \in (o + 1)..e : i \in 1..Len(s)
        BY <3>1, <3>4
      <4>2. \A i \in (o + 1)..e : s[i] \in Conversations
        BY <4>1, <3>1, ElementOfSeq
      <4>3. /\ page \in Seq(Conversations)
            /\ Len(page) = IF o + 1 <= e THEN e - (o + 1) + 1 ELSE 0
            /\ \A k \in 1..(e - (o + 1) + 1) : page[k] = s[o + 1 + k - 1]
        BY <4>1, <4>2, <3>6, SubSeqProperties
      <4>4. e - (o + 1) + 1 = e - o /\ \A k \in 1..(e - o) : o + 1 + k - 1 = o + k
        BY <3>4
      <4>5. Len(page) = e - o
        BY <4>3, <3>4
      <4>6. \A k \in 1..(e - o) : page[k] = s[o + k]
        BY <4>3, <4>4
      <4> QED  BY <4>3, <4>5, <4>6
    <3>8. /\ walk.seen \o page \in Seq(Conversations)
          /\ Len(walk.seen \o page) = e
          /\ \A i \in 1..e : (walk.seen \o page)[i] =
                 IF i <= o THEN walk.seen[i] ELSE page[i - o]
      <4>1. /\ walk.seen \o page \in Seq(Conversations)
            /\ Len(walk.seen \o page) = Len(walk.seen) + Len(page)
            /\ \A i \in 1..(Len(walk.seen) + Len(page)) : (walk.seen \o page)[i] =
                   IF i <= Len(walk.seen) THEN walk.seen[i] ELSE page[i - Len(walk.seen)]
        <5>1. PICK a \in Seq(Conversations), b \in Seq(Conversations) :
                a = walk.seen /\ b = page
          BY <3>2, <3>7
        <5>2. /\ a \o b \in Seq(Conversations)
              /\ Len(a \o b) = Len(a) + Len(b)
              /\ \A i \in 1..(Len(a) + Len(b)) : (a \o b)[i] =
                     IF i <= Len(a) THEN a[i] ELSE b[i - Len(a)]
          BY ConcatProperties
        <5> QED  BY <5>1, <5>2
      <4>2. Len(walk.seen) = o /\ Len(walk.seen) + Len(page) = e
        BY <3>2, <3>3, <3>4, <3>7
      <4> QED  BY <4>1, <4>2
    <3>9. ASSUME NEW i \in 1..e
          PROVE  Cardinality(NewerThan((walk.seen \o page)[i])) = i - 1
      <4>1. CASE i <= o
        <5>1. i \in 1..walk.offset /\ (walk.seen \o page)[i] = walk.seen[i]
          BY <4>1, <3>3, <3>4, <3>8
        <5> QED  BY <5>1, <3>2
      <4>2. CASE ~(i <= o)
        <5>1. i - o \in 1..(e - o) /\ o + (i - o) = i /\ i \in 1..n
          BY <4>2, <3>3, <3>4, <1>6
        <5>2. (walk.seen \o page)[i] = s[i]
          BY <5>1, <4>2, <3>7, <3>8
        <5> QED  BY <5>1, <5>2, <3>1
      <4> QED  BY <4>1, <4>2
    <3> DEFINE read == walk.seen \o page
    <3> HIDE DEF read
    <3>10. /\ read \in Seq(Conversations) /\ Len(read) = e /\ e <= Cardinality(Conversations)
           /\ \A i \in 1..e : Cardinality(NewerThan(read[i])) = i - 1
           /\ walk'.seen = read
      BY <3>4, <3>8, <3>9, <2>3, <1>6 DEF read
    <3> QED  BY <3>10, <1>4, <1>5 DEF ReadUpTo
  <2>9. ConversationWalk'
    <3>1. walk'.stage = "ask" => e = walk'.offset
      BY <2>3, <2>7, <1>2, <1>6
    <3>2. walk'.stage = "done" => e = Cardinality(Conversations)'
      BY <2>3, <2>7, <1>2, <1>4, <1>6
    <3>3. walk'.stage \in {"ask", "done"}
      BY <2>3
    <3>4. ~moved' /\ ~Ties' => ReadUpTo(e)'
      BY <2>8, <1>1, <1>4
    <3> QED  BY <3>1, <3>2, <3>3, <3>4 DEF ConversationWalk
  <2>10. PlatformWalk'
    BY <2>3 DEF PlatformWalk
  <2> QED  BY <2>4, <2>6, <2>9, <2>10, <1>3
<1> QED  BY <1>7, <1>8

\* A page is the entries that follow the offset; Reported and NextOffset are
\* numbers, of the entries up to the end of the page when the platform reports
\* the limit it applied.
LEMMA ReadPlatformStep == QueryInv /\ ReadPlatform => QueryInv'
<1> SUFFICES ASSUME QueryInv, ReadPlatform PROVE QueryInv'
  OBVIOUS
<1> USE QueryAssumption DEF QueryInv
<1> DEFINE end == Min({walk.offset + Min({walk.limit, PageCap}), PlatformItems})
           following == NextOffset(walk.offset, Reported(walk.limit))
<1>1. /\ walk.stage = "ask" /\ walk.list = "platform" /\ walk.pages < MaxPages
      /\ walk' = [walk EXCEPT
           !.seen = @ \o [n \in 1..end - walk.offset |-> walk.offset + n],
           !.pages = @ + 1, !.offset = following,
           !.stage = IF following = -1 THEN "done" ELSE "ask"]
      /\ tasks' = tasks /\ clock' = clock /\ sends' = sends /\ message' = message
      /\ told' = told /\ moved' = moved
  BY DEF ReadPlatform
<1>2. PICK o \in 0..PlatformItems, l \in Nat \ {0}, total \in Nat :
        o = walk.offset /\ l = walk.limit /\ total = PlatformItems
  BY <1>1 DEF PlatformWalk
<1>3. PICK u \in Nat \ {0} : u = IF l <= PageCap THEN l ELSE PageCap
  BY <1>2
<1>4. PICK e \in Nat : e = IF o + u <= total THEN o + u ELSE total
  BY <1>2, <1>3
<1>5. /\ Min({l, PageCap}) = u /\ Min({o + u, total}) = e
  <2>1. l \in Int /\ PageCap \in Int /\ o + u \in Int /\ total \in Int
    BY <1>2, <1>3
  <2> QED  BY <2>1, <1>3, <1>4, MinOfTwo
<1>6. end = e
  BY <1>2, <1>5
<1>7. PICK r \in Nat :
        /\ r = Reported(walk.limit)
        /\ walk.echo = "applied" => r = u
        /\ walk.echo = "asked" => r = l
        /\ walk.echo = "none" => r = 0
  <2>1. /\ walk.echo = "applied" => Reported(walk.limit) = u
        /\ walk.echo = "asked" => Reported(walk.limit) = l
        /\ walk.echo = "none" => Reported(walk.limit) = 0
    BY <1>2, <1>5 DEF Reported
  <2>2. Reported(walk.limit) \in Nat
    <3>1. walk.echo \in {"applied", "asked", "none"}
      BY DEF WalkShape
    <3> QED  BY <2>1, <3>1
  <2> QED  BY <2>1, <2>2
<1>8. PICK x \in Int : x = IF o + r < total THEN o + r ELSE -1
  BY <1>2, <1>7
<1>9. following = x
  BY <1>2, <1>7, <1>8 DEF NextOffset, HasMore
<1>10. o <= e /\ e <= total /\ o \in Nat
  BY <1>2, <1>3, <1>4
<1>11. PICK page : page = [n \in 1..e - o |-> o + n]
  OBVIOUS
<1>12. page \in Seq(Nat) /\ Len(page) = e - o /\ \A n \in 1..(e - o) : page[n] = o + n
  <2>1. e - o \in Nat /\ \A n \in 1..(e - o) : o + n \in Nat
    BY <1>10
  <2>2. page \in [1..(e - o) -> Nat]
    BY <2>1, <1>11
  <2>3. page \in Seq(Nat)
    BY <2>1, <2>2, SeqDef
  <2>4. DOMAIN page = 1..Len(page) /\ Len(page) \in Nat /\ DOMAIN page = 1..(e - o)
    BY <2>2, <2>3, LenProperties
  <2>5. Len(page) = e - o
    BY <2>1, <2>4
  <2> QED  BY <2>3, <2>5, <1>11
<1> HIDE DEF end, following
<1>13. /\ walk'.list = "platform" /\ walk'.limit = walk.limit /\ walk'.echo = walk.echo
       /\ walk'.stage = IF x = -1 THEN "done" ELSE "ask"
       /\ walk'.offset = x /\ walk'.pages = walk.pages + 1
       /\ walk'.seen = walk.seen \o page
  <2>1. walk' = [walk EXCEPT !.seen = @ \o page, !.pages = @ + 1, !.offset = x,
                             !.stage = IF x = -1 THEN "done" ELSE "ask"]
    BY <1>1, <1>2, <1>6, <1>9, <1>11
  <2> QED  BY <2>1, <1>1 DEF WalkShape
<1>14. WalkShape'
  <2>1. walk' = [walk EXCEPT !.seen = @ \o page, !.pages = @ + 1, !.offset = x,
                             !.stage = IF x = -1 THEN "done" ELSE "ask"]
    BY <1>1, <1>2, <1>6, <1>9, <1>11
  <2> QED  BY <2>1, <1>13 DEF WalkShape
<1>15. QueryTypeOK'
  <2>1. /\ walk'.stage \in {"idle", "ask", "done", "panicked"}
        /\ walk'.offset \in Int /\ walk'.limit \in Int
    BY <1>13, <1>8 DEF QueryTypeOK
  <2>2. walk'.pages \in 0..MaxPages
    <3>1. walk.pages \in 0..MaxPages
      BY DEF QueryTypeOK
    <3>2. walk.pages + 1 \in 0..MaxPages
      BY <3>1, <1>1
    <3> QED  BY <3>2, <1>13
  <2> QED  BY <2>1, <2>2, <1>1 DEF QueryTypeOK
<1>16. TasksFound' /\ ConversationWalk'
  BY <1>1, <1>13 DEF TasksFound, TasksGet, TasksList, ConversationWalk
<1>17. PICK old \in Seq(Nat) : old = walk.seen
  BY <1>1 DEF PlatformWalk
<1>18. PICK k \in Nat : k = Len(old)
  BY LenProperties
<1>19. PICK now \in Seq(Nat) :
         /\ now = old \o page /\ Len(now) = k + (e - o)
         /\ \A i \in 1..(k + (e - o)) : now[i] = IF i <= k THEN old[i] ELSE o + (i - k)
  <2>1. /\ old \o page \in Seq(Nat) /\ Len(old \o page) = k + (e - o)
        /\ \A i \in 1..(k + (e - o)) :
             (old \o page)[i] = IF i <= k THEN old[i] ELSE page[i - k]
    <3>1. PICK new \in Seq(Nat) : new = page
      BY <1>12
    <3>2. /\ old \o new \in Seq(Nat) /\ Len(old \o new) = Len(old) + Len(new)
          /\ \A i \in 1..(Len(old) + Len(new)) :
               (old \o new)[i] = IF i <= Len(old) THEN old[i] ELSE new[i - Len(old)]
      BY ConcatProperties
    <3> QED  BY <3>1, <3>2, <1>12, <1>18
  <2>2. ASSUME NEW i \in 1..(k + (e - o))
        PROVE  (old \o page)[i] = IF i <= k THEN old[i] ELSE o + (i - k)
    <3>1. CASE i <= k
      BY <3>1, <2>1
    <3>2. CASE ~(i <= k)
      <4>1. i - k \in 1..(e - o)
        BY <3>2, <1>10, <1>18
      <4> QED  BY <4>1, <3>2, <2>1, <1>12
    <3> QED  BY <3>1, <3>2
  <2> QED  BY <2>1, <2>2
<1>20. \A i \in 1..k : old[i] \in Nat
  BY <1>18, ElementOfSeq
<1>21. x = -1 \/ x \in 0..total
  <2>1. o \in Nat /\ r \in Nat /\ total \in Nat
    BY <1>2, <1>7
  <2> QED  BY <2>1, <1>8
<1>22. ASSUME walk.echo # "none"
       PROVE  /\ \A i, j \in 1..Len(now) : i < j => now[i] < now[j]
              /\ x # -1 => \A i \in 1..Len(now) : now[i] <= x
  <2>1. /\ \A i, j \in 1..k : i < j => old[i] < old[j]
        /\ \A i \in 1..k : old[i] <= o
    BY <1>1, <1>2, <1>17, <1>18, <1>22 DEF PlatformWalk
  <2>2. ASSUME NEW i \in 1..(k + (e - o)), NEW j \in 1..(k + (e - o)), i < j
        PROVE  now[i] < now[j]
    <3>1. CASE j <= k
      <4>1. i \in 1..k /\ j \in 1..k /\ now[i] = old[i] /\ now[j] = old[j]
        BY <3>1, <2>2, <1>18, <1>19
      <4> QED  BY <4>1, <2>1, <2>2
    <3>2. CASE i <= k /\ ~(j <= k)
      <4>1. i \in 1..k /\ now[i] = old[i] /\ now[j] = o + (j - k)
        BY <3>2, <1>18, <1>19
      <4>2. old[i] <= o /\ old[i] \in Nat
        BY <4>1, <2>1, <1>20
      <4> QED  BY <4>1, <4>2, <3>2, <1>10, <1>18
    <3>3. CASE ~(i <= k)
      <4>1. ~(j <= k)
        BY <3>3, <2>2, <1>18, <1>10
      <4>2. now[i] = o + (i - k) /\ now[j] = o + (j - k)
        BY <3>3, <4>1, <1>19
      <4> QED  BY <4>2, <2>2, <1>10, <1>18
    <3> QED  BY <3>1, <3>2, <3>3
  <2>3. ASSUME x # -1, NEW i \in 1..(k + (e - o))
        PROVE  now[i] <= x
    <3>1. r >= u
      <4>1. walk.echo \in {"applied", "asked"}
        BY <1>22 DEF WalkShape
      <4> QED  BY <4>1, <1>2, <1>3, <1>7
    <3>2. x = o + r /\ e <= x
      <4>1. o \in Nat /\ r \in Nat /\ u \in Nat /\ total \in Nat
        BY <1>2, <1>3, <1>7
      <4>2. x = o + r
        BY <2>3, <1>8
      <4>3. e <= o + u
        BY <4>1, <1>4
      <4> QED  BY <4>1, <4>2, <4>3, <3>1, <1>4
    <3>3. CASE i <= k
      <4>1. i \in 1..k /\ now[i] = old[i]
        BY <3>3, <1>18, <1>19
      <4>2. old[i] <= o /\ old[i] \in Nat
        BY <4>1, <2>1, <1>20
      <4>3. PICK y \in Nat : y = now[i] /\ y <= o
        BY <4>1, <4>2
      <4> QED  BY <4>3, <3>2, <1>4, <1>8, <1>10
    <3>4. CASE ~(i <= k)
      <4>1. now[i] = o + (i - k) /\ i - k <= e - o
        BY <3>4, <1>10, <1>18, <1>19
      <4>2. i \in Int /\ k \in Int /\ o \in Int /\ e \in Int /\ x \in Int
        BY <1>4, <1>8, <1>10, <1>18
      <4>3. o + (i - k) <= e
        BY <4>1, <4>2
      <4> QED  BY <4>1, <4>2, <4>3, <3>2
    <3> QED  BY <3>3, <3>4
  <2> QED  BY <2>2, <2>3, <1>19
<1>23. ASSUME walk.echo = "applied"
       PROVE  /\ Len(now) = IF x = -1 THEN total ELSE x
              /\ \A i \in 1..Len(now) : now[i] = i
  <2>1. k = o /\ \A i \in 1..k : old[i] = i
    BY <1>1, <1>2, <1>17, <1>18, <1>23 DEF PlatformWalk
  <2>2. Len(now) = e
    BY <2>1, <1>10, <1>19
  <2>3. r = u
    BY <1>7, <1>23
  <2>4. e = IF x = -1 THEN total ELSE x
    BY <2>3, <1>2, <1>3, <1>4, <1>8
  <2>5. ASSUME NEW i \in 1..(k + (e - o)) PROVE now[i] = i
    <3>1. CASE i <= k
      <4>1. i \in 1..k /\ now[i] = old[i]
        BY <3>1, <1>18, <1>19
      <4> QED  BY <4>1, <2>1
    <3>2. CASE ~(i <= k)
      <4>1. now[i] = o + (i - k)
        BY <3>2, <1>19
      <4> QED  BY <4>1, <2>1, <1>10, <1>18
    <3> QED  BY <3>1, <3>2
  <2> QED  BY <2>2, <2>4, <2>5, <1>19
<1>24. ASSUME walk.echo = "none"
       PROVE  /\ x # -1 => x = 0
              /\ x = -1 \/ total = 0 => now = <<>>
  <2>1. o = 0 /\ r = 0
    BY <1>1, <1>2, <1>7, <1>24 DEF PlatformWalk
  <2>2. x # -1 => x = 0
    BY <2>1, <1>8
  <2>3. ASSUME x = -1 \/ total = 0 PROVE now = <<>>
    <3>1. total = 0
      BY <2>1, <2>3, <1>2, <1>8
    <3>2. old = <<>>
      BY <3>1, <1>1, <1>2, <1>17, <1>24 DEF PlatformWalk
    <3>3. k = 0 /\ e - o = 0
      BY <3>1, <3>2, <1>10, <1>18
    <3>4. Len(now) = 0
      BY <3>3, <1>19
    <3> QED  BY <3>4, EmptySeq
  <2> QED  BY <2>2, <2>3
<1>25. PlatformWalk'
  <2>1. walk'.seen = now /\ walk'.limit \in Nat \ {0}
    BY <1>2, <1>13, <1>17, <1>19
  <2>2. walk'.stage \in {"ask", "done"} /\ (walk'.stage = "ask" <=> x # -1)
    BY <1>13
  <2>3. walk'.offset = x /\ walk'.echo = walk.echo
    BY <1>13
  <2> QED  BY <2>1, <2>2, <2>3, <1>2, <1>21, <1>22, <1>23, <1>24 DEF PlatformWalk
<1> QED  BY <1>14, <1>15, <1>16, <1>25

LEMMA QueryInvStep == QueryInv /\ [QueryNext]_queryVars => QueryInv'
<1> SUFFICES ASSUME QueryInv, [QueryNext]_queryVars PROVE QueryInv'
  OBVIOUS
<1>1. CASE QueryNext
  BY <1>1, TickStep, SendTaskStep, BeginWalkStep, ReadConversationsStep, ReadPlatformStep
     DEF QueryNext
<1>2. CASE UNCHANGED queryVars
  <2> USE <1>2 DEF queryVars, QueryInv
  <2>1. QueryTypeOK' /\ WalkShape' /\ PlatformWalk'
    BY DEF QueryTypeOK, WalkShape, PlatformWalk
  <2>2. TasksFound'
    BY DEF TasksFound, TasksGet, TasksList
  <2>3. Conversations' = Conversations
    BY DEF Conversations
  <2>4. ConversationWalk'
    BY <2>3, ReadingStays DEF QueryTypeOK
  <2> QED  BY <2>1, <2>2, <2>4
<1> QED  BY <1>1, <1>2

\* The elements of a sequence without repetitions are as many as it is long.
LEMMA DistinctElements ==
  ASSUME NEW S, NEW s \in Seq(S), \A i, j \in 1..Len(s) : s[i] = s[j] => i = j
  PROVE  IsFiniteSet(ToSet(s)) /\ Cardinality(ToSet(s)) = Len(s)
<1>1. Len(s) \in Nat /\ DOMAIN s = 1..Len(s) /\ s \in [1..Len(s) -> S]
  BY LenProperties
<1>2. ToSet(s) = {s[i] : i \in 1..Len(s)}
  BY <1>1 DEF ToSet
<1>3. s \in Surjection(1..Len(s), ToSet(s)) /\ s \in Injection(1..Len(s), ToSet(s))
  <2>1. s \in [1..Len(s) -> ToSet(s)]
    BY <1>1, <1>2
  <2>2. \A t \in ToSet(s) : \E i \in 1..Len(s) : s[i] = t
    BY <1>2
  <2> QED  BY <2>1, <2>2, <1>1 DEF Surjection, Injection, IsInjective
<1>4. IsFiniteSet(1..Len(s)) /\ Cardinality(1..Len(s)) = Len(s)
  <2>1. IsFiniteSet(1..Len(s)) /\ Cardinality(1..Len(s)) = IF 1 > Len(s) THEN 0 ELSE Len(s) - 1 + 1
    BY <1>1, FS_Interval
  <2> QED  BY <2>1, <1>1
<1> QED  BY <1>3, <1>4, FS_Surjection

LEMMA QueryInvAgrees == QueryInv => QueriesAgree
<1> SUFFICES ASSUME QueryInv PROVE QueriesAgree
  OBVIOUS
<1> USE QueryAssumption DEF QueryInv
<1>1. ConversationsComplete
  <2> SUFFICES ASSUME walk.list = "conversations", walk.stage = "done", ~moved, ~Ties
      PROVE  ToSet(walk.seen) = Conversations /\ Len(walk.seen) = Cardinality(Conversations)
    BY DEF ConversationsComplete, ConversationWalk
  <2>1. PICK n \in Nat : n = Cardinality(Conversations)
    BY ConversationsFinite
  <2>2. PICK seen \in Seq(Conversations) :
          /\ seen = walk.seen /\ Len(seen) = n
          /\ \A i \in 1..n : Cardinality(NewerThan(seen[i])) = i - 1
    BY <2>1 DEF ConversationWalk, ReadUpTo
  <2>3. ASSUME NEW i \in 1..Len(seen), NEW j \in 1..Len(seen), seen[i] = seen[j]
        PROVE  i = j
    <3>1. i - 1 = j - 1
      BY <2>2, <2>3
    <3> QED  BY <3>1, <2>1, <2>2
  <2>4. Cardinality(ToSet(seen)) = n
    BY <2>2, <2>3, DistinctElements
  <2>5. ToSet(seen) \in SUBSET Conversations
    BY <2>2, LenProperties, ElementOfSeq DEF ToSet
  <2>6. ToSet(seen) = Conversations
    BY <2>1, <2>4, <2>5, ConversationsFinite, FS_Subset
  <2> QED  BY <2>1, <2>2, <2>6
<1>2. PagesComplete
  <2> SUFFICES ASSUME walk.list = "platform"
      PROVE  /\ walk.stage = "done" /\ walk.echo = "applied" =>
                  walk.seen = [n \in 1..PlatformItems |-> n]
             /\ Cardinality(ToSet(walk.seen)) < Len(walk.seen) =>
                  walk.echo = "none" /\ walk.stage = "ask"
    BY DEF PagesComplete
  <2>1. PICK seen \in Seq(Nat) : seen = walk.seen
    BY DEF PlatformWalk
  <2>2. /\ Len(seen) \in Nat /\ DOMAIN seen = 1..Len(seen) /\ seen \in [1..Len(seen) -> Nat]
        /\ \A i \in 1..Len(seen) : seen[i] \in Nat
    BY LenProperties
  <2>3. ASSUME walk.stage = "done", walk.echo = "applied"
        PROVE  walk.seen = [n \in 1..PlatformItems |-> n]
    <3>1. Len(seen) = PlatformItems /\ \A i \in 1..Len(seen) : seen[i] = i
      BY <2>1, <2>3 DEF PlatformWalk
    <3>2. seen = [n \in 1..PlatformItems |-> seen[n]]
      BY <3>1, <2>2
    <3>3. [n \in 1..PlatformItems |-> seen[n]] = [n \in 1..PlatformItems |-> n]
      BY <3>1
    <3> QED  BY <3>2, <3>3, <2>1
  <2>4. ASSUME walk.echo # "none"
        PROVE  ~(Cardinality(ToSet(walk.seen)) < Len(walk.seen))
    <3>1. ASSUME NEW i \in 1..Len(seen), NEW j \in 1..Len(seen), seen[i] = seen[j]
          PROVE  i = j
      <4>1. /\ i < j => seen[i] < seen[j]
            /\ j < i => seen[j] < seen[i]
        BY <2>1, <2>4 DEF PlatformWalk
      <4>2. seen[i] \in Nat /\ seen[j] \in Nat
        BY <2>2
      <4> QED  BY <4>1, <4>2, <3>1, <2>2
    <3>2. Cardinality(ToSet(seen)) = Len(seen)
      BY <3>1, DistinctElements
    <3> QED  BY <3>2, <2>1, <2>2
  <2>5. ASSUME walk.echo = "none", walk.stage = "done"
        PROVE  ~(Cardinality(ToSet(walk.seen)) < Len(walk.seen))
    <3>1. seen = <<>>
      BY <2>1, <2>5 DEF PlatformWalk
    <3>2. Len(seen) = 0
      BY <3>1
    <3>3. ToSet(seen) = {}
      BY <3>2, <2>2 DEF ToSet
    <3>4. Cardinality(ToSet(seen)) = 0
      BY <3>3, FS_EmptySet
    <3> QED  BY <3>2, <3>4, <2>1
  <2>6. walk.stage \in {"ask", "done"}
    BY DEF PlatformWalk
  <2> QED  BY <2>3, <2>4, <2>5, <2>6
<1> QED  BY <1>1, <1>2 DEF QueriesAgree

\* What a server and the platform answer about tasks, conversations and entries
\* of a list agrees with what they hold.
THEOREM QueriesAreTrue == QuerySpec => []QueriesAgree
<1>1. QuerySpec => []QueryInv
  BY QueryInvInit, QueryInvStep, PTL DEF QuerySpec
<1> QED  BY <1>1, QueryInvAgrees, PTL
-----------------------------------------------------------------------------
\* The parts together.

\* The host and the registry client share the directory; each is at rest unless
\* it is the part that runs.
PartsInv ==
    /\ DirectoryInv
    /\ IF part = "host" THEN HostInv ELSE HostInit
    /\ IF part = "registry" THEN RegistryInv ELSE RegistryInit /\ mode = "direct"
    /\ CardInv /\ ChainInv /\ FileInv /\ RelayInv /\ ProfileInv /\ WaitInv
    /\ QueryInv /\ AnswersInv

LEMMA PartsInvInit == Init => PartsInv
<1> SUFFICES ASSUME Init PROVE PartsInv
  OBVIOUS
<1>1. /\ DirectoryInit /\ HostInit /\ RegistryInit /\ CardInit /\ ChainInit /\ FileInit
      /\ RelayInit /\ ProfileInit /\ WaitInit /\ QueryInit /\ AnswersInit
      /\ part # "registry" => mode = "direct"
  BY DEF Init
<1> QED
  BY <1>1, DirectoryInvInit, HostInvInit, RegistryInvInit, CardInvInit, ChainInvInit,
     FileInvInit, RelayInvInit, ProfileInvInit, WaitInvInit, QueryInvInit, AnswersInvInit
     DEF PartsInv

\* A step of the instance is a step of one part and leaves the others alone.
LEMMA PartsStep ==
  ASSUME [Next]_partVars
  PROVE  /\ [CardNext]_cardVars /\ [ChainNext]_chainVars /\ [FileNext]_fileVars
         /\ [RelayNext]_relayVars /\ [ProfileNext]_profileVars /\ [WaitNext]_waitVars
         /\ [QueryNext]_queryVars /\ [AnswersNext]_answerVars
         /\ part' = part
         /\ IF part = "host" THEN [HostNext]_<<directoryVars, hostVars>>
                             ELSE UNCHANGED hostVars
         /\ IF part = "registry" THEN [RegistryNext]_<<directoryVars, registryVars>>
                                 ELSE UNCHANGED registryVars
         /\ part \notin {"host", "registry"} => UNCHANGED directoryVars
<1>1. CASE part = "host" /\ HostNext
           /\ UNCHANGED <<registryVars, cardVars, chainVars, fileVars, relayVars, profileVars,
                          waitVars, queryVars, answerVars, part>>
  BY <1>1
<1>2. CASE part = "registry" /\ RegistryNext
           /\ UNCHANGED <<hostVars, cardVars, chainVars, fileVars, relayVars, profileVars,
                          waitVars, queryVars, answerVars, part>>
  BY <1>2
<1>3. CASE /\ part \notin {"host", "registry"}
           /\ UNCHANGED <<directoryVars, hostVars, registryVars, part>>
           /\ [CardNext]_cardVars /\ [ChainNext]_chainVars /\ [FileNext]_fileVars
           /\ [RelayNext]_relayVars /\ [ProfileNext]_profileVars /\ [WaitNext]_waitVars
           /\ [QueryNext]_queryVars /\ [AnswersNext]_answerVars
  BY <1>3
<1>4. CASE UNCHANGED partVars
  BY <1>4 DEF partVars
<1> QED  BY <1>1, <1>2, <1>3, <1>4 DEF Next

LEMMA PartsInvStep == PartsInv /\ [Next]_partVars => PartsInv'
<1> SUFFICES ASSUME PartsInv, [Next]_partVars PROVE PartsInv'
  OBVIOUS
<1>1. /\ [CardNext]_cardVars /\ [ChainNext]_chainVars /\ [FileNext]_fileVars
      /\ [RelayNext]_relayVars /\ [ProfileNext]_profileVars /\ [WaitNext]_waitVars
      /\ [QueryNext]_queryVars /\ [AnswersNext]_answerVars
      /\ part' = part
      /\ part = "host" => [HostNext]_<<directoryVars, hostVars>>
      /\ part # "host" => UNCHANGED hostVars
      /\ part = "registry" => [RegistryNext]_<<directoryVars, registryVars>>
      /\ part # "registry" => UNCHANGED registryVars
      /\ part \notin {"host", "registry"} => UNCHANGED directoryVars
  BY PartsStep
<1>2. /\ DirectoryInv /\ CardInv /\ ChainInv /\ FileInv /\ RelayInv /\ ProfileInv /\ WaitInv
      /\ QueryInv /\ AnswersInv
      /\ part = "host" => HostInv
      /\ part # "host" => HostInit
      /\ part = "registry" => RegistryInv
      /\ part # "registry" => RegistryInit /\ mode = "direct"
  BY DEF PartsInv
<1>3. CardInv' /\ ChainInv' /\ FileInv' /\ RelayInv'
  BY <1>1, <1>2, CardInvStep, ChainInvStep, FileInvStep, RelayInvStep
<1>4. ProfileInv' /\ WaitInv' /\ QueryInv' /\ AnswersInv'
  BY <1>1, <1>2, ProfileInvStep, WaitInvStep, QueryInvStep, AnswersInvStep
<1>5. DirectoryInv' /\ (part = "host" => HostInv') /\ (part = "registry" => RegistryInv')
  <2>1. CASE part = "host"
    BY <2>1, <1>1, <1>2, HostInvStep
  <2>2. CASE part = "registry"
    BY <2>2, <1>1, <1>2, RegistryInvStep
  <2>3. CASE part \notin {"host", "registry"}
    BY <2>3, <1>1, <1>2, DirectoryStays
  <2> QED  BY <2>1, <2>2, <2>3
<1>6. part # "host" => HostInit'
  BY <1>1, <1>2 DEF HostInit, hostVars
<1>7. part # "registry" => RegistryInit' /\ mode' = "direct"
  BY <1>1, <1>2 DEF RegistryInit, registryVars
<1> QED  BY <1>1, <1>3, <1>4, <1>5, <1>6, <1>7 DEF PartsInv

LEMMA PartsInvInvariant == Spec => []PartsInv
BY PartsInvInit, PartsInvStep, PTL DEF Spec

\* At rest the registry client tracks nobody and has answered nobody.
LEMMA RegistryAtRest ==
  ASSUME DirectoryInv, RegistryInit, mode = "direct"
  PROVE  RegistryTypeOK /\ RegistrationAccounted /\ LookupHonest /\ UpdatesKept
<1>1. DOMAIN identities = {} /\ \A l \in Lookers : lookup[l].stage = "idle"
  BY DEF RegistryInit, NoLookup
<1>2. RegistryTypeOK
  BY <1>1 DEF RegistryInit, RegistryTypeOK, NoLookup
<1>3. \A r \in Registrars : Cardinality(AgentsOf(r) \ {request[r].id}) <= request[r].unanswered
  BY DEF DirectoryInv, KnownInv
<1>4. RegistrationAccounted
  BY <1>1, <1>3 DEF RegistrationAccounted
<1>5. LookupHonest /\ UpdatesKept
  BY <1>1 DEF LookupHonest, UpdatesKept
<1> QED  BY <1>2, <1>4, <1>5

\* Every variable of the agent service and its clients has its type.
THEOREM TypeCorrect == Spec => []TypeOK
<1>1. PartsInv => TypeOK
  <2> SUFFICES ASSUME PartsInv PROVE TypeOK
    OBVIOUS
  <2>1. DirectoryTypeOK /\ CardTypeOK /\ ChainTypeOK /\ FileTypeOK
    BY DEF PartsInv, DirectoryInv, CardInv, ChainInv, FileInv
  <2>2. RelayTypeOK /\ ProfileTypeOK /\ WaitTypeOK
    BY DEF PartsInv, RelayInv, ProfileInv, WaitInv
  <2>3. QueryTypeOK /\ AnswersTypeOK
    BY DEF PartsInv, QueryInv, AnswersInv
  <2>4. HostTypeOK
    <3>1. CASE part = "host"
      BY <3>1 DEF PartsInv, HostInv
    <3>2. CASE part # "host"
      BY <3>2 DEF PartsInv, HostInit, HostTypeOK
    <3> QED  BY <3>1, <3>2
  <2>5. RegistryTypeOK
    <3>1. CASE part = "registry"
      BY <3>1 DEF PartsInv, RegistryInv
    <3>2. CASE part # "registry"
      BY <3>2, RegistryAtRest DEF PartsInv
    <3> QED  BY <3>1, <3>2
  <2> QED  BY <2>1, <2>2, <2>3, <2>4, <2>5 DEF TypeOK
<1> QED  BY <1>1, PartsInvInvariant, PTL

\* What the registry client tells its callers holds (RegisterAgent, GetIdentity,
\* UpdateAgentMetadata and WaitForServices of registry/registry.go), whatever a
\* platform that loses answers, adds an agent twice or refuses one does.
THEOREM RegistryTellsTruth == Spec => []RegistryHonest
<1>1. PartsInv => RegistryHonest
  <2> SUFFICES ASSUME PartsInv PROVE RegistryHonest
    OBVIOUS
  <2>1. WaitHonest
    BY DEF PartsInv, WaitInv
  <2>2. CASE part = "registry"
    BY <2>1, <2>2, RegistryInvImplies DEF PartsInv, RegistryHonest
  <2>3. CASE part # "registry"
    BY <2>1, <2>3, RegistryAtRest DEF PartsInv, RegistryHonest
  <2> QED  BY <2>2, <2>3
<1> QED  BY <1>1, PartsInvInvariant, PTL

\* What a server tells those who ask it holds (the endpoints of server/server.go,
\* the adapters of server/handlers.go, the lists of platform/client.go).
THEOREM ServerIsTruthful == Spec => []ServerTellsTruth
<1>1. PartsInv => ServerTellsTruth
  BY QueryInvAgrees, AnswersInvReach DEF PartsInv, ServerTellsTruth
<1> QED  BY <1>1, PartsInvInvariant, PTL

\* The parts keep together what each keeps alone.
THEOREM PartsAreKept ==
  Spec => [](CardsCurrent /\ ChainKept /\ SettingsKept /\ RelayFaithful /\ ProfileKept)
<1>1. PartsInv => CardsCurrent /\ ChainKept /\ SettingsKept /\ RelayFaithful /\ ProfileKept
  <2> SUFFICES ASSUME PartsInv
      PROVE  CardsCurrent /\ ChainKept /\ SettingsKept /\ RelayFaithful /\ ProfileKept
    OBVIOUS
  <2>1. CardsCurrent
    BY DEF PartsInv, CardInv, FreshInv, AloneInv, CardsCurrent
  <2>2. ChainKept
    BY DEF PartsInv, ChainInv
  <2>3. SettingsKept
    BY DEF PartsInv, FileInv, WriteInv, FoundInv, SettingsKept, Filling
  <2>4. RelayFaithful
    BY RelayInvFaithful DEF PartsInv
  <2>5. ProfileKept
    BY DEF PartsInv, ProfileInv, ProfileKept
  <2> QED  BY <2>1, <2>2, <2>3, <2>4, <2>5
<1> QED  BY <1>1, PartsInvInvariant, PTL

=============================================================================
