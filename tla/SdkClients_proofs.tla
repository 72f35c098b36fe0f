--------------------------- MODULE SdkClients_proofs ---------------------------
(***************************************************************************)
(* Proofs about what the clients keep on their side: the caches of agent    *)
(* cards (CardCache), the config file (CredentialFile), a relayed stream     *)
(* (StreamRelay) and a call that waits for the services (Readiness), for any *)
(* number of callers, programs, lines and attempts.                          *)
(***************************************************************************)
EXTENDS CardCache, CredentialFile, StreamRelay, Readiness, TLAPS

-----------------------------------------------------------------------------
\* The caches of agent cards.

\* No version is newer than the one served, and a caller has a card only of a
\* time in its call.
FreshInv ==
    /\ \A e \in Caches : cards[e] <= served /\ given[e] <= served
    /\ \A c \in CardCallers : ask[c].card <= served /\ ask[c].since <= served
    /\ \A c \in CardCallers :
         ask[c].stage \in {"store", "track", "give"} /\ ask[c].q # "gateway" =>
             ask[c].card >= ask[c].since
    /\ \A c \in CardCallers : ask[c].stage = "track" => Tracked(ask[c].q)

\* As long as no two calls met on an entry, each entry has one caller at most,
\* which knows what is in it, and no cache is behind what it has given; the
\* registry's list is not ahead of the cache it is filled from.
AloneInv == ~crossed =>
    /\ \A c, d \in CardCallers :
         /\ ask[c].stage # "idle" /\ ask[d].stage # "idle"
         /\ Entry(ask[c].q) = Entry(ask[d].q)
         => c = d
    /\ \A e \in Caches : cards[e] >= given[e]
    /\ cards["url"] >= given["seen"]
    /\ \A c \in CardCallers :
         /\ ask[c].stage = "fetch" /\ ask[c].q = "gateway" => cards["id"] = Missing
         /\ ask[c].stage = "store" => ask[c].card >= cards[Entry(ask[c].q)]
         /\ ask[c].stage \in {"track", "give"} => ask[c].card = cards[Entry(ask[c].q)]

CardInv == CardTypeOK /\ FreshInv /\ AloneInv

\* Questions are answered from one of three caches, the tracked ones from "url".
LEMMA EntryIsCache ==
    ASSUME NEW q
    PROVE  /\ Entry(q) \in Caches \ {"seen"}
           /\ Tracked(q) => Entry(q) = "url" /\ q # "gateway"
           /\ Entry("gateway") = "id"
BY DEF Entry, Caches, Tracked

LEMMA VersionsAre ==
    \A v : v \in Versions <=> v \in Int /\ Missing <= v /\ v <= MaxVersion
BY CardAssumption DEF Versions, Missing

\* The versions in the state are numbers that can be compared.
LEMMA Comparable ==
    ASSUME CardTypeOK
    PROVE  /\ served \in Int /\ 0 <= served /\ served <= MaxVersion /\ MaxVersion \in Int
           /\ \A e \in Caches : /\ cards[e] \in Int /\ cards[e] >= Missing
                                /\ given[e] \in Int /\ given[e] >= Missing
           /\ \A c \in CardCallers :
                /\ ask[c].card \in Int /\ ask[c].card >= Missing
                /\ ask[c].since \in Int /\ ask[c].since >= Missing
<1>1. served \in Int /\ 0 <= served /\ served <= MaxVersion /\ MaxVersion \in Int
  BY CardAssumption DEF CardTypeOK
<1>2. \A e \in Caches : cards[e] \in Versions /\ given[e] \in Versions
  BY DEF CardTypeOK
<1>3. \A c \in CardCallers : ask[c].card \in Versions /\ ask[c].since \in Versions
  BY DEF CardTypeOK
<1>4. \A v \in Versions : v \in Int /\ v >= Missing
  BY VersionsAre DEF Missing
<1> QED BY <1>1, <1>2, <1>3, <1>4

LEMMA CardInvInit == CardInit => CardInv
<1> SUFFICES ASSUME CardInit PROVE CardInv
  OBVIOUS
<1>1. CardTypeOK
  <2>1. Missing \in Versions
    BY CardAssumption, VersionsAre DEF Missing
  <2>2. served \in 0..MaxVersion
    BY CardAssumption DEF CardInit
  <2>3. NoQuestion \in [q : Questions \cup {"none"},
                       stage : {"idle", "fetch", "store", "track", "give"},
                       since : Versions, card : Versions]
    BY <2>1 DEF NoQuestion
  <2> QED BY <2>1, <2>2, <2>3 DEF CardInit, CardTypeOK
<1>2. FreshInv
  BY DEF CardInit, FreshInv, Missing, NoQuestion
<1>3. AloneInv
  BY DEF CardInit, AloneInv, Caches, Missing, NoQuestion
<1> QED BY <1>1, <1>2, <1>3 DEF CardInv

\* What a step keeps that changes the call of c alone, and leaves the caches.
LEMMA CallChanges ==
    ASSUME CardInv, NEW c \in CardCallers, NEW mine,
           mine \in [q : Questions \cup {"none"},
                     stage : {"idle", "fetch", "store", "track", "give"},
                     since : Versions, card : Versions],
           ask' = [ask EXCEPT ![c] = mine],
           UNCHANGED <<served, client>>
    PROVE  /\ ask' \in [CardCallers -> [q : Questions' \cup {"none"},
                     stage : {"idle", "fetch", "store", "track", "give"},
                     since : Versions, card : Versions]]
           /\ ask'[c] = mine
           /\ \A d \in CardCallers : d # c => ask'[d] = ask[d]
           /\ \A q : Entry(q)' = Entry(q)
BY DEF CardInv, CardTypeOK, Questions, Entry

LEMMA CardInvStep == CardInv /\ [CardNext]_cardVars => CardInv'
<1> SUFFICES ASSUME CardInv, [CardNext]_cardVars PROVE CardInv'
  OBVIOUS
<1>0. CardTypeOK /\ FreshInv /\ AloneInv
  BY DEF CardInv
<1>1. CASE ChangeCard
  <2>1. CardTypeOK'
    <3>1. served' \in 0..MaxVersion
      BY <1>1, <1>0, CardAssumption DEF ChangeCard, CardTypeOK
    <3>2. UNCHANGED <<client, cards, ask, given, crossed, Questions>>
      BY <1>1 DEF ChangeCard, Questions
    <3> QED BY <3>1, <3>2, <1>0 DEF CardTypeOK
  <2>2. FreshInv'
    <3>1. served' = served + 1 /\ UNCHANGED <<cards, ask, given>>
      BY <1>1 DEF ChangeCard
    <3>2. /\ \A e \in Caches : cards[e] <= served' /\ given[e] <= served'
          /\ \A c \in CardCallers : ask[c].card <= served' /\ ask[c].since <= served'
      BY <3>1, <1>0, Comparable DEF FreshInv
    <3> QED BY <3>1, <3>2, <1>0 DEF FreshInv, Tracked
  <2>3. AloneInv'
    BY <1>1 DEF ChangeCard, CardInv, AloneInv, Entry, Missing
  <2> QED BY <2>1, <2>2, <2>3 DEF CardInv
<1>2. ASSUME NEW c \in CardCallers, Lookup(c) PROVE CardInv'
  <2>1. PICK q \in Questions :
          /\ ask[c].stage = "idle"
          /\ ask' = [ask EXCEPT ![c] =
               IF UsesCache(q) /\ cards[Entry(q)] # Missing
               THEN [q |-> q, stage |-> IF Tracked(q) THEN "track" ELSE "give",
                     since |-> Missing, card |-> cards[Entry(q)]]
               ELSE [q |-> q, stage |-> "fetch", since |-> served, card |-> Missing]]
          /\ crossed' = (crossed \/ Busy(Entry(q)))
          /\ UNCHANGED <<served, client, cards, given>>
    BY <1>2 DEF Lookup
  <2> DEFINE mine == IF UsesCache(q) /\ cards[Entry(q)] # Missing
               THEN [q |-> q, stage |-> IF Tracked(q) THEN "track" ELSE "give",
                     since |-> Missing, card |-> cards[Entry(q)]]
               ELSE [q |-> q, stage |-> "fetch", since |-> served, card |-> Missing]
  <2>2. mine \in [q : Questions \cup {"none"},
                  stage : {"idle", "fetch", "store", "track", "give"},
                  since : Versions, card : Versions]
    <3>1. Entry(q) \in Caches
      BY EntryIsCache
    <3>2. Missing \in Versions /\ served \in Versions /\ cards[Entry(q)] \in Versions
      BY <3>1, <1>0, Comparable, VersionsAre DEF CardTypeOK, Missing
    <3> QED BY <3>2
  <2>3. ask' = [ask EXCEPT ![c] = mine]
    BY <2>1
  <2> HIDE DEF mine
  <2>4. /\ ask' \in [CardCallers -> [q : Questions' \cup {"none"},
                  stage : {"idle", "fetch", "store", "track", "give"},
                  since : Versions, card : Versions]]
        /\ ask'[c] = mine
        /\ \A d \in CardCallers : d # c => ask'[d] = ask[d]
        /\ \A p : Entry(p)' = Entry(p)
    BY <2>1, <2>2, <2>3, CallChanges
  <2>5. CardTypeOK'
    BY <2>1, <2>4 DEF CardInv, CardTypeOK, Busy
  <2>6. /\ Entry(q) \in Caches
        /\ mine.q = q /\ mine.since <= served /\ mine.card <= served
        /\ mine.stage = "track" => Tracked(q)
        /\ mine.stage \in {"store", "track", "give"} => mine.card >= mine.since
        /\ mine.stage \in {"fetch", "track", "give"}
        /\ mine.stage = "fetch" /\ q = "gateway" => cards[Entry(q)] = Missing
        /\ mine.stage \in {"track", "give"} => mine.card = cards[Entry(q)]
    <3>1. Entry(q) \in Caches
      BY EntryIsCache
    <3>2. Missing <= served /\ cards[Entry(q)] <= served /\ cards[Entry(q)] >= Missing
          /\ served >= Missing
      BY <3>1, <1>0, Comparable DEF FreshInv, Missing
    <3> QED BY <3>1, <3>2, <1>0, Comparable DEF mine, UsesCache, Missing
  <2>7. FreshInv'
    BY <2>1, <2>4, <2>6 DEF CardInv, FreshInv, Tracked
  <2>8. AloneInv'
    <3> SUFFICES ASSUME ~crossed' PROVE AloneInv'
      BY DEF AloneInv
    <3>1. ~crossed /\ \A d \in CardCallers : ask[d].stage # "idle" => Entry(ask[d].q) # Entry(q)
      BY <2>1 DEF Busy
    <3>2. \A d, e \in CardCallers :
            /\ ask'[d].stage # "idle" /\ ask'[e].stage # "idle"
            /\ Entry(ask'[d].q) = Entry(ask'[e].q)
            => d = e
      BY <3>1, <2>4, <2>6 DEF CardInv, AloneInv
    <3>3. \A d \in CardCallers :
         /\ ask'[d].stage = "fetch" /\ ask'[d].q = "gateway" => cards["id"] = Missing
         /\ ask'[d].stage = "store" => ask'[d].card >= cards[Entry(ask'[d].q)]
         /\ ask'[d].stage \in {"track", "give"} => ask'[d].card = cards[Entry(ask'[d].q)]
      BY <3>1, <2>4, <2>6, EntryIsCache DEF CardInv, AloneInv
    <3> QED BY <3>1, <3>2, <3>3, <2>1, <2>4 DEF CardInv, AloneInv, Missing
  <2> QED BY <2>5, <2>7, <2>8 DEF CardInv
<1>3. ASSUME NEW c \in CardCallers, Respond(c) PROVE CardInv'
  <2>1. PICK v \in 0..served :
          /\ ask[c].stage = "fetch"
          /\ ask[c].q = "gateway" \/ v = served
          /\ ask' = [ask EXCEPT ![c] = [ask[c] EXCEPT !.stage = "store", !.card = v]]
          /\ UNCHANGED <<served, client, cards, given, crossed>>
    BY <1>3 DEF Respond, CardInv, CardTypeOK
  <2> DEFINE mine == [ask[c] EXCEPT !.stage = "store", !.card = v]
  <2>2. /\ mine \in [q : Questions \cup {"none"},
                  stage : {"idle", "fetch", "store", "track", "give"},
                  since : Versions, card : Versions]
        /\ mine.q = ask[c].q /\ mine.since = ask[c].since
        /\ mine.stage = "store" /\ mine.card = v
    <3>1. v \in Versions
      BY <2>1, <1>0, Comparable, VersionsAre DEF Missing
    <3> QED BY <3>1, <1>0 DEF CardTypeOK
  <2>3. ask' = [ask EXCEPT ![c] = mine]
    BY <2>1
  <2> HIDE DEF mine
  <2>4. /\ ask' \in [CardCallers -> [q : Questions' \cup {"none"},
                  stage : {"idle", "fetch", "store", "track", "give"},
                  since : Versions, card : Versions]]
        /\ ask'[c] = mine
        /\ \A d \in CardCallers : d # c => ask'[d] = ask[d]
        /\ \A p : Entry(p)' = Entry(p)
    BY <2>1, <2>2, <2>3, CallChanges
  <2>5. CardTypeOK'
    BY <2>1, <2>4 DEF CardInv, CardTypeOK
  <2>6. FreshInv'
    <3>1. v \in Int /\ v <= served /\ (ask[c].q # "gateway" => v >= ask[c].since)
      BY <2>1, <1>0, Comparable DEF FreshInv
    <3> QED BY <3>1, <2>1, <2>2, <2>4, <1>0 DEF FreshInv, Tracked
  <2>7. AloneInv'
    <3> SUFFICES ASSUME ~crossed PROVE AloneInv'
      BY <2>1 DEF AloneInv
    <3>1. Entry(ask[c].q) \in Caches /\ (ask[c].q = "gateway" => Entry(ask[c].q) = "id")
      BY EntryIsCache
    <3>2. v >= cards[Entry(ask[c].q)]
      BY <2>1, <3>1, <1>0, Comparable DEF FreshInv, AloneInv, Missing
    <3>3. \A d, e \in CardCallers :
            /\ ask'[d].stage # "idle" /\ ask'[e].stage # "idle"
            /\ Entry(ask'[d].q) = Entry(ask'[e].q)
            => d = e
      BY <2>1, <2>2, <2>4 DEF CardInv, AloneInv
    <3>4. \A d \in CardCallers :
         /\ ask'[d].stage = "fetch" /\ ask'[d].q = "gateway" => cards["id"] = Missing
         /\ ask'[d].stage = "store" => ask'[d].card >= cards[Entry(ask'[d].q)]
         /\ ask'[d].stage \in {"track", "give"} => ask'[d].card = cards[Entry(ask'[d].q)]
      BY <3>2, <2>2, <2>4 DEF CardInv, AloneInv
    <3> QED BY <3>3, <3>4, <2>1, <2>4 DEF CardInv, AloneInv, Missing
  <2> QED BY <2>5, <2>6, <2>7 DEF CardInv
<1>4. ASSUME NEW c \in CardCallers, FetchFailed(c) PROVE CardInv'
  <2>1. /\ NoQuestion \in [q : Questions \cup {"none"},
                  stage : {"idle", "fetch", "store", "track", "give"},
                  since : Versions, card : Versions]
        /\ NoQuestion.stage = "idle"
        /\ NoQuestion.since <= served /\ NoQuestion.card <= served
    <3>1. Missing \in Versions /\ Missing <= served
      BY <1>0, Comparable, VersionsAre DEF Missing
    <3> QED BY <3>1 DEF NoQuestion
  <2>2. UNCHANGED <<served, client, cards, given, crossed>>
    BY <1>4 DEF FetchFailed
  <2>3. /\ ask' \in [CardCallers -> [q : Questions' \cup {"none"},
                  stage : {"idle", "fetch", "store", "track", "give"},
                  since : Versions, card : Versions]]
        /\ ask'[c] = NoQuestion
        /\ \A d \in CardCallers : d # c => ask'[d] = ask[d]
        /\ \A p : Entry(p)' = Entry(p)
    BY <1>4, <2>1, CallChanges DEF FetchFailed
  <2>4. CardTypeOK'
    BY <2>2, <2>3 DEF CardInv, CardTypeOK
  <2>5. FreshInv'
    BY <2>1, <2>2, <2>3 DEF CardInv, FreshInv, Tracked
  <2>6. AloneInv'
    BY <2>1, <2>2, <2>3 DEF CardInv, AloneInv, Missing
  <2> QED BY <2>4, <2>5, <2>6 DEF CardInv
<1>5. ASSUME NEW c \in CardCallers, Store(c) PROVE CardInv'
  <2> DEFINE mine == [ask[c] EXCEPT !.stage = IF Tracked(ask[c].q) THEN "track" ELSE "give"]
             e == Entry(ask[c].q)
  <2>1. /\ ask[c].stage = "store"
        /\ cards' = [cards EXCEPT ![e] = ask[c].card]
        /\ ask' = [ask EXCEPT ![c] = mine]
        /\ UNCHANGED <<served, client, given, crossed>>
    BY <1>5 DEF Store, CardInv, CardTypeOK
  <2>2. /\ mine \in [q : Questions \cup {"none"},
                  stage : {"idle", "fetch", "store", "track", "give"},
                  since : Versions, card : Versions]
        /\ mine.q = ask[c].q /\ mine.since = ask[c].since /\ mine.card = ask[c].card
        /\ mine.stage \in {"track", "give"}
        /\ mine.stage = "track" => Tracked(ask[c].q)
    BY DEF CardInv, CardTypeOK
  <2> HIDE DEF mine
  <2>3. /\ ask' \in [CardCallers -> [q : Questions' \cup {"none"},
                  stage : {"idle", "fetch", "store", "track", "give"},
                  since : Versions, card : Versions]]
        /\ ask'[c] = mine
        /\ \A d \in CardCallers : d # c => ask'[d] = ask[d]
        /\ \A p : Entry(p)' = Entry(p)
    BY <2>1, <2>2, CallChanges
  <2>4. e \in Caches \ {"seen"}
    BY EntryIsCache
  <2> HIDE DEF e
  <2>5. /\ cards' \in [Caches -> Versions]
        /\ cards'[e] = ask[c].card
        /\ \A f \in Caches : f # e => cards'[f] = cards[f]
    BY <2>1, <2>4 DEF CardInv, CardTypeOK
  <2>6. CardTypeOK'
    BY <2>1, <2>3, <2>5 DEF CardInv, CardTypeOK
  <2>7. FreshInv'
    BY <2>1, <2>2, <2>3, <2>5 DEF CardInv, FreshInv, Tracked
  <2>8. AloneInv'
    <3> SUFFICES ASSUME ~crossed PROVE AloneInv'
      BY <2>1 DEF AloneInv
    <3>1. /\ \A d \in CardCallers : d # c /\ ask[d].stage # "idle" => Entry(ask[d].q) # e
          /\ cards'[e] >= cards[e]
      BY <2>1, <2>5 DEF CardInv, AloneInv, e
    <3>2. \A f \in Caches : cards'[f] >= cards[f]
      BY <3>1, <2>4, <2>5, <1>0, Comparable
    <3>3. (\A f \in Caches : cards'[f] >= given[f]) /\ cards'["url"] >= given["seen"]
      <4>1. "url" \in Caches /\ "seen" \in Caches
        BY DEF Caches
      <4>2. \A f \in Caches : cards'[f] \in Int
        BY <2>5, VersionsAre
      <4> QED BY <3>2, <4>1, <4>2, <1>0, Comparable DEF AloneInv
    <3>4. \A d, f \in CardCallers :
            /\ ask'[d].stage # "idle" /\ ask'[f].stage # "idle"
            /\ Entry(ask'[d].q) = Entry(ask'[f].q)
            => d = f
      BY <2>1, <2>2, <2>3 DEF CardInv, AloneInv
    <3>5. ASSUME NEW d \in CardCallers, d # c, ask[d].stage # "idle"
          PROVE  /\ ask[d].stage = "fetch" /\ ask[d].q = "gateway" => cards'["id"] = Missing
                 /\ ask[d].stage = "store" => ask[d].card >= cards'[Entry(ask[d].q)]
                 /\ ask[d].stage \in {"track", "give"} => ask[d].card = cards'[Entry(ask[d].q)]
      <4>1. Entry(ask[d].q) \in Caches /\ (ask[d].q = "gateway" => Entry(ask[d].q) = "id")
        BY EntryIsCache
      <4>2. cards'[Entry(ask[d].q)] = cards[Entry(ask[d].q)]
        BY <4>1, <3>1, <3>5, <2>5
      <4> QED BY <4>1, <4>2 DEF CardInv, AloneInv
    <3>6. \A d \in CardCallers :
         /\ ask'[d].stage = "fetch" /\ ask'[d].q = "gateway" => cards'["id"] = Missing
         /\ ask'[d].stage = "store" => ask'[d].card >= cards'[Entry(ask'[d].q)]
         /\ ask'[d].stage \in {"track", "give"} => ask'[d].card = cards'[Entry(ask'[d].q)]
      BY <3>5, <2>2, <2>3, <2>5 DEF e
    <3> QED BY <3>3, <3>4, <3>6, <2>1, <2>3 DEF AloneInv, Missing
  <2> QED BY <2>6, <2>7, <2>8 DEF CardInv
<1>6. ASSUME NEW c \in CardCallers, Track(c) PROVE CardInv'
  <2> DEFINE mine == [ask[c] EXCEPT !.stage = "give"]
  <2>1. /\ ask[c].stage = "track"
        /\ cards' = [cards EXCEPT !["seen"] = ask[c].card]
        /\ given' = [given EXCEPT !["seen"] = Newer(@, ask[c].card)]
        /\ ask' = [ask EXCEPT ![c] = mine]
        /\ UNCHANGED <<served, client, crossed>>
    BY <1>6 DEF Track, CardInv, CardTypeOK
  <2>2. /\ mine \in [q : Questions \cup {"none"},
                  stage : {"idle", "fetch", "store", "track", "give"},
                  since : Versions, card : Versions]
        /\ mine.q = ask[c].q /\ mine.since = ask[c].since /\ mine.card = ask[c].card
        /\ mine.stage = "give"
    BY DEF CardInv, CardTypeOK
  <2> HIDE DEF mine
  <2>3. /\ ask' \in [CardCallers -> [q : Questions' \cup {"none"},
                  stage : {"idle", "fetch", "store", "track", "give"},
                  since : Versions, card : Versions]]
        /\ ask'[c] = mine
        /\ \A d \in CardCallers : d # c => ask'[d] = ask[d]
        /\ \A p : Entry(p)' = Entry(p)
    BY <2>1, <2>2, CallChanges
  <2>4. /\ cards' \in [Caches -> Versions] /\ given' \in [Caches -> Versions]
        /\ cards'["seen"] = ask[c].card
        /\ given'["seen"] = Newer(given["seen"], ask[c].card)
        /\ \A f \in Caches : f # "seen" => cards'[f] = cards[f] /\ given'[f] = given[f]
    BY <2>1 DEF CardInv, CardTypeOK, Caches, Newer
  <2>5. CardTypeOK'
    BY <2>1, <2>3, <2>4 DEF CardInv, CardTypeOK
  <2>6. FreshInv'
    BY <2>1, <2>2, <2>3, <2>4 DEF CardInv, FreshInv, Tracked, Newer
  <2>7. AloneInv'
    <3> SUFFICES ASSUME ~crossed PROVE AloneInv'
      BY <2>1 DEF AloneInv
    <3>1. Entry(ask[c].q) = "url" /\ ask[c].card = cards["url"]
      BY <2>1, EntryIsCache DEF CardInv, FreshInv, AloneInv
    <3>2. given["seen"] <= ask[c].card /\ given'["seen"] = ask[c].card
      BY <3>1, <2>4, <1>0, Comparable DEF AloneInv, Newer, Caches
    <3>3. (\A f \in Caches : cards'[f] >= given'[f]) /\ cards'["url"] >= given'["seen"]
      <4>1. "url" \in Caches /\ "seen" \in Caches /\ "url" # "seen"
        BY DEF Caches
      <4>2. cards'["seen"] >= given'["seen"] /\ cards'["url"] >= given'["seen"]
        <5>1. cards'["url"] = ask[c].card /\ cards'["seen"] = ask[c].card
          BY <3>1, <2>4, <4>1
        <5>2. ask[c].card \in Int
          BY <1>0, Comparable
        <5> QED BY <5>1, <5>2, <3>2
      <4>3. \A f \in Caches : f # "seen" => cards'[f] >= given'[f]
        BY <2>4, <1>0 DEF AloneInv
      <4> QED BY <4>2, <4>3
    <3>4. \A d, f \in CardCallers :
            /\ ask'[d].stage # "idle" /\ ask'[f].stage # "idle"
            /\ Entry(ask'[d].q) = Entry(ask'[f].q)
            => d = f
      BY <2>1, <2>2, <2>3 DEF CardInv, AloneInv
    <3>5. \A d \in CardCallers :
            cards'[Entry(ask[d].q)] = cards[Entry(ask[d].q)] /\ cards'["id"] = cards["id"]
      BY <2>4, EntryIsCache DEF Caches
    <3>6. \A d \in CardCallers :
         /\ ask'[d].stage = "fetch" /\ ask'[d].q = "gateway" => cards'["id"] = Missing
         /\ ask'[d].stage = "store" => ask'[d].card >= cards'[Entry(ask'[d].q)]
         /\ ask'[d].stage \in {"track", "give"} => ask'[d].card = cards'[Entry(ask'[d].q)]
      BY <3>5, <2>1, <2>2, <2>3 DEF CardInv, AloneInv
    <3> QED BY <3>3, <3>4, <3>6, <2>1, <2>3 DEF AloneInv, Missing
  <2> QED BY <2>5, <2>6, <2>7 DEF CardInv
<1>7. ASSUME NEW c \in CardCallers, Give(c) PROVE CardInv'
  <2> DEFINE e == Entry(ask[c].q)
  <2>1. /\ NoQuestion \in [q : Questions \cup {"none"},
                  stage : {"idle", "fetch", "store", "track", "give"},
                  since : Versions, card : Versions]
        /\ NoQuestion.stage = "idle"
        /\ NoQuestion.since <= served /\ NoQuestion.card <= served
    <3>1. Missing \in Versions /\ Missing <= served
      BY <1>0, Comparable, VersionsAre DEF Missing
    <3> QED BY <3>1 DEF NoQuestion
  <2>2. /\ ask[c].stage = "give"
        /\ given' = [given EXCEPT ![e] = Newer(@, ask[c].card)]
        /\ UNCHANGED <<served, client, cards, crossed>>
    BY <1>7 DEF Give
  <2>3. /\ ask' \in [CardCallers -> [q : Questions' \cup {"none"},
                  stage : {"idle", "fetch", "store", "track", "give"},
                  since : Versions, card : Versions]]
        /\ ask'[c] = NoQuestion
        /\ \A d \in CardCallers : d # c => ask'[d] = ask[d]
        /\ \A p : Entry(p)' = Entry(p)
    BY <1>7, <2>1, CallChanges DEF Give
  <2>4. e \in Caches \ {"seen"}
    BY EntryIsCache
  <2> HIDE DEF e
  <2>5. /\ given' \in [Caches -> Versions]
        /\ given'[e] = Newer(given[e], ask[c].card)
        /\ \A f \in Caches : f # e => given'[f] = given[f]
    BY <2>2, <2>4 DEF CardInv, CardTypeOK, Newer
  <2>6. CardTypeOK'
    BY <2>2, <2>3, <2>5 DEF CardInv, CardTypeOK
  <2>7. FreshInv'
    BY <2>1, <2>2, <2>3, <2>4, <2>5 DEF CardInv, FreshInv, Tracked, Newer
  <2>8. AloneInv'
    <3> SUFFICES ASSUME ~crossed PROVE AloneInv'
      BY <2>2 DEF AloneInv
    <3>1. ask[c].card = cards[e]
      BY <2>2 DEF CardInv, AloneInv, e
    <3>2. (\A f \in Caches : cards[f] >= given'[f]) /\ cards["url"] >= given'["seen"]
      BY <3>1, <2>4, <2>5, <1>0, Comparable DEF AloneInv, Newer, Caches
    <3> QED BY <3>2, <2>1, <2>2, <2>3 DEF CardInv, AloneInv, Missing
  <2> QED BY <2>6, <2>7, <2>8 DEF CardInv
<1>8. CASE UNCHANGED cardVars
  BY <1>8 DEF cardVars, CardInv, CardTypeOK, Questions, FreshInv, AloneInv, Tracked, Entry, Missing
<1> QED BY <1>1, <1>2, <1>3, <1>4, <1>5, <1>6, <1>7, <1>8 DEF CardNext

\* Every variable of the card caches keeps its type.
THEOREM CardTypeCorrect == CardSpec => []CardTypeOK
<1>1. CardInv => CardTypeOK
  BY DEF CardInv
<1> QED BY <1>1, CardInvInit, CardInvStep, PTL DEF CardSpec

\* A fetched card is one the agent served during the call, and unless calls for
\* one entry overlap no cache goes back behind what it has handed out
\* (a2a.Client.DiscoverAgent, registry.DiscoverA2AAgent, A2AClient.GetAgentCard).
THEOREM CardsStayCurrent == CardSpec => []CardsCurrent
<1>1. CardInv => CardsCurrent
  BY DEF CardInv, FreshInv, AloneInv, CardsCurrent
<1> QED BY <1>1, CardInvInit, CardInvStep, PTL DEF CardSpec

-----------------------------------------------------------------------------
\* The config file.

\* As long as nothing disturbed them, one program at most is saving; it writes
\* what was saved before with its own setting, and apart from that the file
\* holds what was saved.
WriteInv ==
    /\ \A p \in Programs : call[p].stage \in {"merge", "open", "fill"} =>
         call[p].setting \in Settings
    /\ ~disturbed =>
         /\ \A p, q \in Programs : Saving(p) /\ Saving(q) => p = q
         /\ \A p \in Programs : Saving(p) => loaded[p] = Merged(call[p].setting, p, saved)
         /\ IF Filling THEN file = NoSettings ELSE file = saved

\* A program on its way through EnsureAuth finds out in turn that neither
\* setting was there when it began.
FoundInv == ~disturbed => \A p \in Programs :
    /\ found[p] \subseteq DOMAIN saved
    /\ call[p] = [stage |-> "load", setting |-> "key"] => "token" \notin found[p]
    /\ call[p].stage = "ask" => found[p] = {}

FileInv == FileTypeOK /\ WriteInv /\ FoundInv

\* A setting merged into others.
LEMMA MergedIsSettings ==
    ASSUME NEW f \in PartialSettings, NEW s \in Settings, NEW p \in Programs
    PROVE  /\ Merged(s, p, f) \in PartialSettings
           /\ DOMAIN f \subseteq DOMAIN Merged(s, p, f)
<1>1. PICK D \in SUBSET Settings : f \in [D -> Programs]
  BY DEF PartialSettings
<1>2. Merged(s, p, f) = [x \in {s} \cup D |-> IF x = s THEN p ELSE f[x]]
  BY <1>1 DEF Merged
<1>3. Merged(s, p, f) \in [{s} \cup D -> Programs] /\ {s} \cup D \in SUBSET Settings
  BY <1>1, <1>2
<1> QED BY <1>1, <1>3 DEF PartialSettings

LEMMA NothingIsSettings == NoSettings \in PartialSettings /\ DOMAIN NoSettings = {}
<1>1. DOMAIN NoSettings = {}
  BY DEF NoSettings
<1>2. NoSettings \in [{} -> Programs]
  BY <1>1 DEF NoSettings
<1> QED BY <1>1, <1>2 DEF PartialSettings

LEMMA FileInvInit == FileInit => FileInv
<1> SUFFICES ASSUME FileInit PROVE FileInv
  OBVIOUS
<1>1. FileTypeOK
  BY NothingIsSettings DEF FileInit, FileTypeOK, Stages
<1>2. WriteInv
  BY DEF FileInit, WriteInv, Saving, Filling
<1>3. FoundInv
  BY DEF FileInit, FoundInv
<1> QED BY <1>1, <1>2, <1>3 DEF FileInv

LEMMA FileInvStep == FileInv /\ [FileNext]_fileVars => FileInv'
<1> SUFFICES ASSUME FileInv, [FileNext]_fileVars PROVE FileInv'
  OBVIOUS
<1> USE DEF FileInv
<1>1. ASSUME NEW p \in Programs, EnsureAuth(p) PROVE FileInv'
  <2>1. /\ call[p].stage = "idle"
        /\ call' = [call EXCEPT ![p] = [stage |-> "load", setting |-> "token"]]
        /\ found' = [found EXCEPT ![p] = DOMAIN file]
        /\ UNCHANGED <<file, loaded, saved, disturbed>>
    BY <1>1 DEF EnsureAuth, Begin
  <2>2. DOMAIN file \subseteq Settings /\ (~disturbed => DOMAIN file \subseteq DOMAIN saved)
    BY NothingIsSettings DEF FileTypeOK, PartialSettings, WriteInv
  <2>3. FileTypeOK'
    BY <2>1, <2>2 DEF FileTypeOK, Stages, Settings
  <2>4. WriteInv'
    BY <2>1 DEF FileTypeOK, WriteInv, Saving, Filling
  <2>5. FoundInv'
    BY <2>1, <2>2 DEF FileTypeOK, FoundInv
  <2> QED BY <2>3, <2>4, <2>5
<1>2. ASSUME NEW p \in Programs, NEW setting \in Settings, Load(p, setting) PROVE FileInv'
  <2>1. PICK c \in {[stage |-> "done", setting |-> setting], [stage |-> "ask", setting |-> setting],
                    [stage |-> "load", setting |-> "key"]} :
        /\ call[p] = [stage |-> "load", setting |-> setting]
        /\ call' = [call EXCEPT ![p] = c]
        /\ UNCHANGED <<file, loaded, saved, found>>
        /\ disturbed => disturbed'
        /\ c.stage # "done" => /\ disturbed' = (disturbed \/ Filling)
                               /\ setting \notin DOMAIN file
        /\ c.stage = "load" => setting = "token"
        /\ c.stage = "ask" => setting = "key"
        /\ disturbed' \in BOOLEAN
    <3>1. /\ call[p] = [stage |-> "load", setting |-> setting]
          /\ [call[p] EXCEPT !.stage = "done"] = [stage |-> "done", setting |-> setting]
          /\ [call[p] EXCEPT !.stage = "ask"] = [stage |-> "ask", setting |-> setting]
          /\ UNCHANGED <<file, loaded, saved, found>>
      BY <1>2 DEF Load
    <3>2. CASE Goto(p, "done") /\ UNCHANGED disturbed
      BY <3>1, <3>2 DEF Goto, FileTypeOK
    <3>3. CASE /\ disturbed' = (disturbed \/ Filling)
               /\ IF setting \in DOMAIN file THEN Goto(p, "done")
                  ELSE IF setting = "token" THEN Begin(p, "load", "key")
                  ELSE Goto(p, "ask")
      <4>1. disturbed' \in BOOLEAN
        BY <3>3 DEF FileTypeOK, Filling
      <4>2. setting = "token" \/ setting = "key"
        BY DEF Settings
      <4> QED BY <3>1, <3>3, <4>1, <4>2 DEF Goto, Begin
    <3> QED BY <1>2, <3>2, <3>3 DEF Load
  <2>2. FileTypeOK'
    BY <2>1 DEF FileTypeOK, Stages, Settings
  <2>3. WriteInv'
    BY <2>1 DEF FileTypeOK, WriteInv, Saving, Filling
  <2>4. FoundInv'
    <3> SUFFICES ASSUME ~disturbed', NEW q \in Programs
                 PROVE  /\ found[q] \subseteq DOMAIN saved
                        /\ call'[q] = [stage |-> "load", setting |-> "key"] => "token" \notin found[q]
                        /\ call'[q].stage = "ask" => found[q] = {}
      BY <2>1 DEF FoundInv
    <3>1. CASE q # p
      BY <3>1, <2>1 DEF FileTypeOK, FoundInv
    <3>2. CASE q = p /\ c.stage = "done"
      BY <3>2, <2>1 DEF FileTypeOK, FoundInv
    <3>3. CASE q = p /\ c.stage # "done"
      <4>1. setting \notin found[p] /\ found[p] \subseteq DOMAIN saved
        BY <3>3, <2>1 DEF FoundInv, WriteInv
      <4>2. found[p] \subseteq Settings
        BY DEF FileTypeOK
      <4>3. setting = "key" => found[p] = {}
        BY <4>1, <4>2, <2>1, <3>3 DEF FoundInv, Settings
      <4> QED BY <3>3, <4>1, <4>3, <2>1 DEF FileTypeOK
    <3> QED BY <3>1, <3>2, <3>3
  <2> QED BY <2>2, <2>3, <2>4
<1>3. ASSUME NEW p \in Programs, InteractiveAuth(p) \/ SaveSetting(p) PROVE FileInv'
  <2>1. PICK c \in [stage : {"merge", "done"}, setting : Settings \cup {"none"}] :
        /\ call[p].stage \in {"ask", "idle"}
        /\ call' = [call EXCEPT ![p] = c]
        /\ c.stage = "merge" => c.setting \in Settings
        /\ UNCHANGED <<file, loaded, saved, found, disturbed>>
    <3>1. CASE \E setting \in Settings : Begin(p, "merge", setting)
      BY <1>3, <3>1 DEF InteractiveAuth, SaveSetting, Begin
    <3>2. CASE Goto(p, "done")
      <4>1. [call[p] EXCEPT !.stage = "done"] \in [stage : {"merge", "done"}, setting : Settings \cup {"none"}]
            /\ [call[p] EXCEPT !.stage = "done"].stage = "done"
        BY DEF FileTypeOK
      <4> QED BY <1>3, <3>2, <4>1 DEF InteractiveAuth, SaveSetting, Goto
    <3> QED BY <1>3, <3>1, <3>2 DEF InteractiveAuth, SaveSetting
  <2>2. FileTypeOK'
    BY <2>1 DEF FileTypeOK, Stages
  <2>3. WriteInv'
    BY <2>1 DEF FileTypeOK, WriteInv, Saving, Filling
  <2>4. FoundInv'
    BY <2>1 DEF FileTypeOK, FoundInv
  <2> QED BY <2>2, <2>3, <2>4
<1>4. ASSUME NEW p \in Programs, MergeSettings(p) PROVE FileInv'
  <2> DEFINE c == [call[p] EXCEPT !.stage = "open"]
  <2>1. /\ call[p].stage = "merge" /\ call[p].setting \in Settings
        /\ call' = [call EXCEPT ![p] = c]
        /\ loaded' = [loaded EXCEPT ![p] = Merged(call[p].setting, p, file)]
        /\ disturbed' = (disturbed \/ \E q \in Programs \ {p} : Saving(q))
        /\ UNCHANGED <<file, saved, found>>
    BY <1>4 DEF MergeSettings, Goto, WriteInv
  <2>2. c \in [stage : Stages, setting : Settings \cup {"none"}]
        /\ c.stage = "open" /\ c.setting = call[p].setting
    BY DEF FileTypeOK, Stages
  <2> HIDE DEF c
  <2>3. Merged(call[p].setting, p, file) \in PartialSettings
    BY <2>1, MergedIsSettings DEF FileTypeOK
  <2>4. FileTypeOK'
    BY <2>1, <2>2, <2>3 DEF FileTypeOK
  <2>5. WriteInv'
    <3>1. \A q \in Programs : call'[q].stage \in {"merge", "open", "fill"} => call'[q].setting \in Settings
      BY <2>1, <2>2 DEF FileTypeOK, WriteInv
    <3>2. ASSUME ~disturbed'
          PROVE  /\ \A q \in Programs : Saving(q)' => q = p
                 /\ loaded'[p] = Merged(call'[p].setting, p, saved)
                 /\ ~Filling' /\ file = saved
      <4>1. ~disturbed /\ \A q \in Programs \ {p} : ~Saving(q)
        BY <3>2, <2>1
      <4>2. ~Filling /\ file = saved
        BY <4>1, <2>1 DEF WriteInv, Filling, Saving
      <4>3. \A q \in Programs : q # p => call'[q] = call[q]
        BY <2>1 DEF FileTypeOK
      <4>4. call'[p] = c /\ loaded'[p] = Merged(call[p].setting, p, file)
        BY <2>1 DEF FileTypeOK
      <4>5. ~Filling'
        BY <4>2, <4>3, <4>4, <2>2 DEF Filling
      <4>6. \A q \in Programs : Saving(q)' => q = p
        BY <4>1, <4>3 DEF Saving
      <4> QED BY <4>2, <4>4, <4>5, <4>6, <2>2
    <3> QED BY <3>1, <3>2, <2>1 DEF WriteInv
  <2>6. FoundInv'
    BY <2>1, <2>2 DEF FileTypeOK, FoundInv
  <2> QED BY <2>4, <2>5, <2>6
<1>5. ASSUME NEW p \in Programs, OpenFile(p) PROVE FileInv'
  <2>1. CASE file' = NoSettings /\ Goto(p, "fill") /\ UNCHANGED loaded
    <3> DEFINE c == [call[p] EXCEPT !.stage = "fill"]
    <3>1. /\ call[p].stage = "open" /\ call[p].setting \in Settings
          /\ call' = [call EXCEPT ![p] = c]
          /\ file' = NoSettings
          /\ UNCHANGED <<loaded, saved, found, disturbed>>
      BY <1>5, <2>1 DEF OpenFile, Goto, WriteInv
    <3>2. c \in [stage : Stages, setting : Settings \cup {"none"}]
          /\ c.stage = "fill" /\ c.setting = call[p].setting
      BY DEF FileTypeOK, Stages
    <3> HIDE DEF c
    <3>3. FileTypeOK'
      BY <3>1, <3>2, NothingIsSettings DEF FileTypeOK
    <3>4. WriteInv'
      BY <3>1, <3>2 DEF FileTypeOK, WriteInv, Saving, Filling
    <3>5. FoundInv'
      BY <3>1, <3>2 DEF FileTypeOK, FoundInv
    <3> QED BY <3>3, <3>4, <3>5
  <2>2. CASE Forget(p) /\ Goto(p, "done") /\ UNCHANGED file
    <3> DEFINE c == [call[p] EXCEPT !.stage = "done"]
    <3>1. /\ call[p].stage = "open"
          /\ call' = [call EXCEPT ![p] = c]
          /\ loaded' = [loaded EXCEPT ![p] = NoSettings]
          /\ UNCHANGED <<file, saved, found, disturbed>>
      BY <1>5, <2>2 DEF OpenFile, Goto, Forget
    <3>2. c \in [stage : Stages, setting : Settings \cup {"none"}] /\ c.stage = "done"
      BY DEF FileTypeOK, Stages
    <3> HIDE DEF c
    <3>3. FileTypeOK'
      BY <3>1, <3>2, NothingIsSettings DEF FileTypeOK
    <3>4. WriteInv'
      BY <3>1, <3>2 DEF FileTypeOK, WriteInv, Saving, Filling
    <3>5. FoundInv'
      BY <3>1, <3>2 DEF FileTypeOK, FoundInv
    <3> QED BY <3>3, <3>4, <3>5
  <2> QED BY <1>5, <2>1, <2>2 DEF OpenFile
<1>6. ASSUME NEW p \in Programs, FillFile(p) PROVE FileInv'
  <2> DEFINE c == [call[p] EXCEPT !.stage = "done"]
             merged == Merged(call[p].setting, p, saved)
  <2>1. /\ call[p].stage = "fill" /\ call[p].setting \in Settings
        /\ call' = [call EXCEPT ![p] = c]
        /\ file' = loaded[p]
        /\ saved' = merged
        /\ loaded' = [loaded EXCEPT ![p] = NoSettings]
        /\ UNCHANGED <<found, disturbed>>
    BY <1>6 DEF FillFile, Goto, Forget, WriteInv
  <2>2. c \in [stage : Stages, setting : Settings \cup {"none"}] /\ c.stage = "done"
    BY DEF FileTypeOK, Stages
  <2>3. merged \in PartialSettings /\ DOMAIN saved \subseteq DOMAIN merged
    BY <2>1, MergedIsSettings DEF FileTypeOK
  <2>4. ~disturbed => loaded[p] = merged /\ \A q \in Programs : Saving(q) => q = p
    BY <2>1 DEF WriteInv, Saving
  <2> HIDE DEF c, merged
  <2>5. FileTypeOK'
    BY <2>1, <2>2, <2>3, NothingIsSettings DEF FileTypeOK
  <2>6. WriteInv'
    BY <2>1, <2>2, <2>4 DEF FileTypeOK, WriteInv, Saving, Filling
  <2>7. FoundInv'
    BY <2>1, <2>2, <2>3 DEF FileTypeOK, FoundInv
  <2> QED BY <2>5, <2>6, <2>7
<1>7. ASSUME NEW p \in Programs, Crash(p) PROVE FileInv'
  <2> DEFINE c == [call[p] EXCEPT !.stage = "crashed"]
  <2>1. /\ call' = [call EXCEPT ![p] = c]
        /\ loaded' = [loaded EXCEPT ![p] = NoSettings]
        /\ disturbed' = (disturbed \/ call[p].stage = "fill")
        /\ UNCHANGED <<file, saved, found>>
    BY <1>7 DEF Crash, Goto, Forget
  <2>2. c \in [stage : Stages, setting : Settings \cup {"none"}] /\ c.stage = "crashed"
    BY DEF FileTypeOK, Stages
  <2> HIDE DEF c
  <2>3. FileTypeOK'
    BY <2>1, <2>2, NothingIsSettings DEF FileTypeOK
  <2>4. WriteInv'
    BY <2>1, <2>2 DEF FileTypeOK, WriteInv, Saving, Filling
  <2>5. FoundInv'
    BY <2>1, <2>2 DEF FileTypeOK, FoundInv
  <2> QED BY <2>3, <2>4, <2>5
<1>8. CASE UNCHANGED fileVars
  BY <1>8 DEF fileVars, FileTypeOK, WriteInv, FoundInv, Saving, Filling
<1> QED BY <1>1, <1>2, <1>3, <1>4, <1>5, <1>6, <1>7, <1>8 DEF FileNext

\* Every variable of the config file and its programs keeps its type.
THEOREM FileTypeCorrect == FileSpec => []FileTypeOK
<1>1. FileInv => FileTypeOK
  BY DEF FileInv
<1> QED BY <1>1, FileInvInit, FileInvStep, PTL DEF FileSpec

\* Unless saves overlap, a read meets a write or a crash cuts a write short, no
\* save takes another's setting away, and nobody is asked for a credential that
\* was in the file (writeConfig, readConfig, EnsureAuth).
THEOREM SettingsAreKept == FileSpec => []SettingsKept
<1>1. FileInv => SettingsKept
  BY DEF FileInv, WriteInv, FoundInv, SettingsKept, Filling
<1> QED BY <1>1, FileInvInit, FileInvStep, PTL DEF FileSpec

-----------------------------------------------------------------------------
\* The relayed stream.

Items == ({"response"} \X (1..MaxLines)) \cup {Error}

\* Nothing follows an error, the goroutine has an item exactly when it sends,
\* and a consumer sees the channel closed only when it is.
StageInv ==
    /\ Len(sent) <= MaxLines
    /\ relay = "send" <=> item # Nothing
    /\ \A i \in DOMAIN received : received[i] = Error => relay = "closed"
    /\ consumer = "done" => relay = "closed"

\* The events received are in order, and of those that were read only the one
\* being sent is not among them.
OrderInv ==
    /\ \A i, j \in DOMAIN received : i < j =>
         received[i] # Error /\ (received[j] # Error => received[i][2] < received[j][2])
    /\ \A i \in DOMAIN received : received[i] # Error =>
         received[i][2] \in 1..next /\ Passes(sent[received[i][2]])
    /\ relay = "send" /\ item # Error =>
         /\ item = Result(next) /\ next \in 1..Len(sent) /\ Passes(sent[next])
         /\ \A i \in DOMAIN received : received[i] # Error => received[i][2] < next
    /\ \A n \in 1..next : Passes(sent[n]) =>
         \/ \E i \in DOMAIN received : received[i] # Error /\ received[i][2] = n
         \/ relay = "send" /\ item # Error /\ item[2] = n

\* Why the channel was closed.
ClosedInv ==
    relay = "closed" =>
        \/ received # <<>> /\ received[Len(received)] = Error
        \/ remote = "ended" /\ next = Len(sent)
        \/ stream = "push" /\ (remote = "cut" \/ streamCtx = "canceled")

RelayInv == RelayTypeOK /\ StageInv /\ OrderInv /\ ClosedInv

LEMMA RelayTypeFacts ==
    ASSUME RelayTypeOK
    PROVE  /\ sent \in Seq(Lines) /\ received \in Seq(Items)
           /\ next \in 0..Len(sent) /\ Len(sent) \in Nat /\ next \in Nat
           /\ Len(received) \in Nat
           /\ DOMAIN received = 1..Len(received)
           /\ item \in Items \cup {Nothing}
<1>1. /\ sent \in Seq(Lines) /\ received \in Seq(Items)
      /\ next \in 0..Len(sent) /\ item \in Items \cup {Nothing}
  BY DEF RelayTypeOK, Items
<1>2. Len(sent) \in Nat /\ Len(received) \in Nat /\ DOMAIN received = 1..Len(received)
  BY <1>1
<1> QED BY <1>1, <1>2

\* Errors, responses and no item at all are told apart.
LEMMA ItemsDiffer ==
    /\ Error # Nothing
    /\ \A n : Result(n) # Error /\ Result(n) # Nothing /\ Result(n)[2] = n
    /\ \A n \in 1..MaxLines : Result(n) \in Items
    /\ Error \in Items /\ Nothing \notin Items
BY DEF Error, Nothing, Result, Items

LEMMA RelayInvInit == RelayInit => RelayInv
<1> SUFFICES ASSUME RelayInit PROVE RelayInv
  OBVIOUS
<1>1. sent = <<>> /\ received = <<>> /\ next = 0 /\ Len(sent) = 0 /\ DOMAIN received = {}
  BY DEF RelayInit
<1>2. RelayTypeOK
  BY <1>1 DEF RelayInit, RelayTypeOK
<1>3. StageInv
  BY <1>1, RelayAssumption DEF RelayInit, StageInv
<1>4. OrderInv
  BY <1>1 DEF RelayInit, OrderInv
<1>5. ClosedInv
  BY DEF RelayInit, ClosedInv
<1> QED BY <1>2, <1>3, <1>4, <1>5 DEF RelayInv

LEMMA RelayInvStep == RelayInv /\ [RelayNext]_relayVars => RelayInv'
<1> SUFFICES ASSUME RelayInv, [RelayNext]_relayVars PROVE RelayInv'
  OBVIOUS
<1> USE DEF RelayInv
<1>0. /\ sent \in Seq(Lines) /\ received \in Seq(Items)
      /\ next \in 0..Len(sent) /\ Len(sent) \in Nat /\ next \in Nat
      /\ Len(received) \in Nat
      /\ DOMAIN received = 1..Len(received)
      /\ item \in Items \cup {Nothing}
  BY RelayTypeFacts
<1>1. CASE RemoteSends
  <2>1. PICK line \in Lines :
          /\ remote = "open" /\ relay # "connect" /\ Len(sent) < MaxLines
          /\ sent' = Append(sent, line)
          /\ UNCHANGED <<stream, remote, streamCtx, relay, next, item, received, consumer>>
    BY <1>1 DEF RemoteSends
  <2>2. /\ sent' \in Seq(Lines) /\ Len(sent') = Len(sent) + 1
        /\ \A n \in 1..Len(sent) : sent'[n] = sent[n]
    BY <2>1, <1>0
  <2>3. RelayTypeOK'
    BY <2>1, <2>2, <1>0 DEF RelayTypeOK
  <2>4. StageInv'
    BY <2>1, <2>2, <1>0, RelayAssumption DEF StageInv
  <2>5. OrderInv'
    <3>1. \A n \in 1..Len(sent) : Passes(sent[n])' <=> Passes(sent[n])
      BY <2>1, <2>2 DEF Passes
    <3>2. \A n \in 1..next : n \in 1..Len(sent)
      BY <1>0
    <3>3. \A n \in 1..next : Passes(sent[n])' <=> Passes(sent[n])
      BY <3>1, <3>2
    <3>4. \A n \in 1..Len(sent) : n \in 1..Len(sent')
      BY <2>2, <1>0
    <3> QED BY <2>1, <3>1, <3>3, <3>4 DEF OrderInv
  <2>6. ClosedInv'
    BY <2>1 DEF ClosedInv
  <2> QED BY <2>3, <2>4, <2>5, <2>6
<1>2. CASE RemoteEnds
  <2>1. /\ remote = "open" /\ remote' \in {"ended", "cut"}
        /\ UNCHANGED <<stream, sent, streamCtx, relay, next, item, received, consumer>>
    BY <1>2 DEF RemoteEnds
  <2>2. RelayTypeOK' /\ StageInv'
    BY <2>1 DEF RelayTypeOK, StageInv
  <2>3. OrderInv'
    BY <2>1 DEF OrderInv, Passes
  <2>4. ClosedInv'
    BY <2>1 DEF ClosedInv
  <2> QED BY <2>2, <2>3, <2>4
<1>3. CASE CancelStream
  <2>1. /\ streamCtx' = "canceled"
        /\ UNCHANGED <<stream, sent, remote, relay, next, item, received, consumer>>
    BY <1>3 DEF CancelStream
  <2>2. RelayTypeOK' /\ StageInv'
    BY <2>1 DEF RelayTypeOK, StageInv
  <2>3. OrderInv'
    BY <2>1 DEF OrderInv, Passes
  <2>4. ClosedInv'
    BY <2>1 DEF ClosedInv
  <2> QED BY <2>2, <2>3, <2>4
<1>4. CASE Connect \/ (ReadFails /\ stream = "task")
  <2>1. /\ relay \in {"connect", "read"} /\ item = Nothing
        /\ \/ relay' = "read" /\ UNCHANGED item
           \/ relay' = "send" /\ item' = Error
        /\ UNCHANGED <<stream, sent, remote, streamCtx, next, received, consumer>>
    BY <1>4 DEF Connect, ReadFails, StageInv
  <2>2. RelayTypeOK'
    BY <2>1 DEF RelayTypeOK
  <2>3. StageInv'
    BY <2>1, ItemsDiffer DEF StageInv
  <2>4. OrderInv'
    BY <2>1, ItemsDiffer DEF OrderInv, Passes
  <2>5. ClosedInv'
    BY <2>1 DEF ClosedInv
  <2> QED BY <2>2, <2>3, <2>4, <2>5
<1>5. CASE ReadLine
  <2>1. /\ relay = "read" /\ item = Nothing
        /\ next < Len(sent) /\ next' = next + 1
        /\ UNCHANGED <<stream, sent, remote, streamCtx, received, consumer>>
        /\ \/ Passes(sent[next']) /\ relay' = "send" /\ item' = Result(next')
           \/ ~Passes(sent[next']) /\ relay' = "send" /\ item' = Error
           \/ ~Passes(sent[next']) /\ UNCHANGED <<relay, item>>
    BY <1>5 DEF ReadLine, StageInv, Passes, Fails
  <2>2. next' \in 1..Len(sent) /\ next' \in 1..MaxLines /\ next' \in 0..Len(sent)
    BY <2>1, <1>0, RelayAssumption DEF StageInv
  <2>3. RelayTypeOK'
    <3>1. item' \in Items \cup {Nothing}
      BY <2>1, <2>2, ItemsDiffer
    <3> QED BY <2>1, <2>2, <3>1 DEF RelayTypeOK, Items
  <2>4. StageInv'
    BY <2>1, ItemsDiffer DEF StageInv
  <2>5. OrderInv'
    <3>1. \A n \in 1..next : n \in 1..next' /\ n < next'
      BY <2>1, <1>0
    <3>2. \A n \in 1..next' : n \in 1..next \/ n = next'
      BY <2>1, <1>0
    <3>3. \A n : Passes(sent[n])' <=> Passes(sent[n])
      BY <2>1 DEF Passes
    <3>4. \A i \in DOMAIN received : received[i] # Error =>
            received[i][2] \in 1..next' /\ received[i][2] < next' /\ Passes(sent[received[i][2]])
      BY <3>1 DEF OrderInv
    <3>5. \A n \in 1..next' : Passes(sent[n]) =>
            \/ \E i \in DOMAIN received : received[i] # Error /\ received[i][2] = n
            \/ relay' = "send" /\ item' # Error /\ item'[2] = n
      BY <2>1, <3>2, ItemsDiffer DEF OrderInv
    <3> QED BY <2>1, <2>2, <3>3, <3>4, <3>5, ItemsDiffer DEF OrderInv
  <2>6. ClosedInv'
    BY <2>1 DEF ClosedInv
  <2> QED BY <2>3, <2>4, <2>5, <2>6
<1>6. CASE (ReadFails /\ stream # "task") \/ ReadEnd
  <2>1. /\ relay = "read" /\ relay' = "closed"
        /\ \/ stream = "push" /\ (streamCtx = "canceled" \/ remote = "cut")
           \/ remote = "ended" /\ next = Len(sent)
        /\ UNCHANGED <<stream, sent, remote, streamCtx, next, item, received, consumer>>
    BY <1>6 DEF ReadFails, ReadEnd, RelayTypeOK
  <2>2. RelayTypeOK' /\ StageInv'
    BY <2>1 DEF RelayTypeOK, StageInv
  <2>3. OrderInv'
    BY <2>1 DEF OrderInv, Passes
  <2>4. ClosedInv'
    BY <2>1 DEF ClosedInv
  <2> QED BY <2>2, <2>3, <2>4
<1>7. CASE HandOver
  <2> DEFINE last == Len(received) + 1
  <2>1. /\ relay = "send" /\ consumer = "reading"
        /\ received' = Append(received, item)
        /\ relay' = IF item = Error THEN "closed" ELSE "read"
        /\ item' = Nothing
        /\ UNCHANGED <<stream, sent, remote, streamCtx, next, consumer>>
    BY <1>7 DEF HandOver
  <2>2. item \in Items
    BY <2>1, <1>0 DEF StageInv
  <2>3. /\ received' \in Seq(Items) /\ Len(received') = last
        /\ DOMAIN received' = 1..last
        /\ \A i \in DOMAIN received : received'[i] = received[i]
        /\ received'[last] = item
    BY <2>1, <2>2, <1>0
  <2>4. /\ \A i \in DOMAIN received' : i \in DOMAIN received \/ i = last
        /\ \A i \in DOMAIN received : i \in DOMAIN received' /\ i < last
        /\ last \in DOMAIN received' /\ last \in Nat
    BY <2>3, <1>0
  <2>5. \A i \in DOMAIN received : received[i] # Error
    BY <2>1 DEF StageInv
  <2> HIDE DEF last
  <2>6. RelayTypeOK'
    BY <2>1, <2>3 DEF RelayTypeOK, Items
  <2>7. StageInv'
    BY <2>1, <2>3, <2>4, <2>5 DEF StageInv
  <2>8. OrderInv'
    <3>1. \A n : Passes(sent[n])' <=> Passes(sent[n])
      BY <2>1 DEF Passes
    <3>2. \A i, j \in DOMAIN received' : i < j =>
            received'[i] # Error /\ (received'[j] # Error => received'[i][2] < received'[j][2])
      <4> SUFFICES ASSUME NEW i \in DOMAIN received', NEW j \in DOMAIN received', i < j
                   PROVE  received'[i] # Error /\ (received'[j] # Error => received'[i][2] < received'[j][2])
        OBVIOUS
      <4>1. i \in DOMAIN received
        <5>1. i # last
          BY <2>4, <1>0
        <5> QED BY <5>1, <2>4
      <4>2. CASE j \in DOMAIN received
        BY <4>1, <4>2, <2>3, <2>5 DEF OrderInv
      <4>3. CASE j = last
        BY <4>1, <4>3, <2>1, <2>3, <2>5, ItemsDiffer DEF OrderInv
      <4> QED BY <4>2, <4>3, <2>4
    <3>3. \A i \in DOMAIN received' : received'[i] # Error =>
            received'[i][2] \in 1..next /\ Passes(sent[received'[i][2]])
      <4>1. item # Error => item[2] \in 1..next /\ Passes(sent[item[2]])
        BY <2>1, <1>0, ItemsDiffer DEF OrderInv
      <4> QED BY <4>1, <2>3, <2>4 DEF OrderInv
    <3>4. \A n \in 1..next : Passes(sent[n]) =>
            \E i \in DOMAIN received' : received'[i] # Error /\ received'[i][2] = n
      BY <2>3, <2>4 DEF OrderInv
    <3> QED BY <2>1, <3>1, <3>2, <3>3, <3>4 DEF OrderInv
  <2>9. ClosedInv'
    <3>1. relay' = "closed" => received' # <<>> /\ received'[Len(received')] = Error
      BY <2>1, <2>3, <2>4, <1>0
    <3> QED BY <3>1 DEF ClosedInv
  <2> QED BY <2>6, <2>7, <2>8, <2>9
<1>8. CASE ConsumerDone \/ ConsumerLeaves
  <2>1. /\ consumer' \in {"done", "left"} /\ (consumer' = "done" => relay = "closed")
        /\ UNCHANGED <<stream, sent, remote, streamCtx, relay, next, item, received>>
    BY <1>8 DEF ConsumerDone, ConsumerLeaves
  <2>2. RelayTypeOK' /\ StageInv'
    BY <2>1 DEF RelayTypeOK, StageInv
  <2>3. OrderInv'
    BY <2>1 DEF OrderInv, Passes
  <2>4. ClosedInv'
    BY <2>1 DEF ClosedInv
  <2> QED BY <2>2, <2>3, <2>4
<1>9. CASE UNCHANGED relayVars
  BY <1>9 DEF relayVars, RelayTypeOK, StageInv, OrderInv, ClosedInv, Passes
<1> QED BY <1>1, <1>2, <1>3, <1>4, <1>5, <1>6, <1>7, <1>8, <1>9 DEF RelayNext, Reader

\* Every variable of a relayed stream keeps its type.
THEOREM RelayTypeCorrect == RelaySpec => []RelayTypeOK
<1>1. RelayInv => RelayTypeOK
  BY DEF RelayInv
<1> QED BY <1>1, RelayInvInit, RelayInvStep, PTL DEF RelaySpec

LEMMA RelayInvFaithful == RelayInv => RelayFaithful
<1>1. RelayInv => RelayFaithful
  <2> SUFFICES ASSUME RelayInv PROVE RelayFaithful
    OBVIOUS
  <2> USE DEF RelayInv
  <2> DEFINE responses == {n \in 1..next : Passes(sent[n])}
             taken == {received[i][2] : i \in {j \in DOMAIN received : received[j] # Error}}
             pending == IF relay = "send" /\ item # Error THEN {item[2]} ELSE {}
  <2>1. next \in Nat
    BY RelayTypeFacts
  <2>2. ASSUME NEW n, n \in taken \cup pending PROVE n \in responses
    <3>1. CASE n \in taken
      BY <3>1 DEF OrderInv
    <3>2. CASE n \in pending
      BY <3>2, <2>1, ItemsDiffer DEF OrderInv
    <3> QED BY <2>2, <3>1, <3>2
  <2>3. ASSUME NEW n \in responses PROVE n \in taken \cup pending
    BY DEF OrderInv
  <2>4. taken \cup pending = responses
    BY <2>2, <2>3
  <2>5. consumer = "done" /\ (received = <<>> \/ Last(received) # Error) =>
             \/ remote = "ended" /\ next = Len(sent)
             \/ stream = "push" /\ (remote = "cut" \/ streamCtx = "canceled")
    BY DEF StageInv, ClosedInv, Last
  <2> QED BY <2>4, <2>5 DEF RelayFaithful, OrderInv
<1> QED BY <1>1

\* What the consumer of a stream received are the remote side's events in order,
\* none left out or repeated, an error only as the last word; and a channel that
\* closes without one has passed on all, or is PushStream's and was cut off or
\* canceled (StreamTask, PushStream).
THEOREM RelayIsFaithful == RelaySpec => []RelayFaithful
BY RelayInvFaithful, RelayInvInit, RelayInvStep, PTL DEF RelaySpec

-----------------------------------------------------------------------------
\* The call that waits for the services.

\* What is checked is needed, an attempt under way is counted, and what a call
\* that has returned was told holds.
WaitInv ==
    /\ WaitTypeOK
    /\ wait.made <= wait.attempts
    /\ checked \subseteq Needed
    /\ wait.stage \in {"check", "sleep"} => wait.made > 0
    /\ WaitHonest

LEMMA WaitInvInit == WaitInit => WaitInv
<1> SUFFICES ASSUME WaitInit PROVE WaitInv
  OBVIOUS
<1>1. /\ wait.call \in {"WaitForReady", "WaitForGateway", "WaitForServices"}
      /\ wait.attempts \in 0..MaxAttempts /\ wait.made = 0
      /\ wait.stage = "attempt" /\ wait.at = 1
  BY DEF WaitInit
<1>2. WaitTypeOK
  BY AttemptsAssumption DEF WaitInit, WaitTypeOK, Services
<1>3. wait.made <= wait.attempts /\ WaitHonest /\ checked \subseteq Needed
  BY <1>1, AttemptsAssumption DEF WaitHonest, WaitInit
<1> QED BY <1>1, <1>2, <1>3 DEF WaitInv

LEMMA WaitInvStep == WaitInv /\ [WaitNext]_waitVars => WaitInv'
<1> SUFFICES ASSUME WaitInv, [WaitNext]_waitVars PROVE WaitInv'
  OBVIOUS
<1> USE DEF WaitInv
<1>0. /\ wait.made \in Nat /\ wait.attempts \in Nat /\ MaxAttempts \in Nat
      /\ wait.attempts <= MaxAttempts
      /\ wait.at \in 1..3
      /\ DOMAIN Needs \in {1..1, 1..2} /\ \A i \in DOMAIN Needs : Needs[i] \in Services
  BY AttemptsAssumption DEF WaitTypeOK, Needs, Services
<1>1. CASE Turn \/ CancelWait
  <2>1. /\ up' \subseteq Services /\ waitCtx' \in {"live", "canceled"}
        /\ waitCtx = "canceled" => waitCtx' = "canceled"
        /\ UNCHANGED <<wait, checked>>
    BY <1>1 DEF Turn, CancelWait, WaitTypeOK
  <2> QED BY <2>1 DEF WaitTypeOK, WaitHonest, Needed, Needs
<1>2. CASE BeginAttempt
  <2>1. CASE wait.made < wait.attempts
    <3>1. wait' = [wait EXCEPT !.stage = "check", !.at = 1, !.made = @ + 1]
          /\ checked' = {} /\ UNCHANGED <<up, waitCtx>>
      BY <1>2, <2>1 DEF BeginAttempt
    <3>2. wait.made + 1 \in 0..MaxAttempts /\ wait.made + 1 > 0
      BY <2>1, <1>0
    <3>3. WaitTypeOK'
      <4>1. wait' = [call |-> wait.call, attempts |-> wait.attempts, made |-> wait.made + 1,
                     stage |-> "check", at |-> 1]
        BY <3>1 DEF WaitTypeOK
      <4>2. 1 \in 1..3
        OBVIOUS
      <4> QED BY <3>1, <3>2, <4>1, <4>2 DEF WaitTypeOK
    <3>4. wait'.made = wait.made + 1 /\ wait'.attempts = wait.attempts /\ wait'.stage = "check"
      BY <3>1 DEF WaitTypeOK
    <3> QED BY <3>1, <3>2, <3>3, <3>4, <2>1, <1>0 DEF WaitHonest
  <2>2. CASE ~(wait.made < wait.attempts)
    <3>1. wait' = [wait EXCEPT !.stage = "false"]
          /\ checked' = {} /\ UNCHANGED <<up, waitCtx>>
      BY <1>2, <2>2 DEF BeginAttempt
    <3> QED BY <3>1, <2>2, <1>0 DEF WaitTypeOK, WaitHonest
  <2> QED BY <2>1, <2>2
<1>3. CASE HealthCheck
  <2>1. /\ wait.stage = "check" /\ wait.at \in DOMAIN Needs
        /\ checked' = checked \/ checked' = checked \cup {Needs[wait.at]}
        /\ wait' = [wait EXCEPT !.at = @ + 1]
        /\ UNCHANGED <<up, waitCtx>>
    BY <1>3 DEF HealthCheck
  <2>2. wait.at + 1 \in 1..3
    BY <2>1, <1>0
  <2>3. UNCHANGED Needs /\ wait'.stage = "check" /\ wait'.made = wait.made /\ wait'.attempts = wait.attempts
    BY <2>1 DEF WaitTypeOK, Needs
  <2>4. WaitTypeOK'
    BY <2>1, <2>2, <1>0 DEF WaitTypeOK
  <2>5. checked' \subseteq Needed'
    BY <2>1, <2>3 DEF Needed
  <2> QED BY <2>1, <2>3, <2>4, <2>5 DEF WaitHonest
<1>4. CASE EndAttempt \/ Sleep
  <2>1. PICK s \in {"true", "sleep", "attempt", "false"} :
        /\ wait' = [wait EXCEPT !.stage = s]
        /\ wait.stage \in {"check", "sleep"}
        /\ s = "true" => checked = Needed
        /\ s = "false" => waitCtx = "canceled"
        /\ UNCHANGED <<up, waitCtx, checked>>
    BY <1>4 DEF EndAttempt, Sleep
  <2>2. UNCHANGED Needs /\ wait'.stage = s /\ wait'.made = wait.made /\ wait'.attempts = wait.attempts
    BY <2>1 DEF WaitTypeOK, Needs
  <2>3. WaitTypeOK'
    BY <2>1 DEF WaitTypeOK
  <2> QED BY <2>1, <2>2, <2>3 DEF WaitHonest, Needed
<1>5. CASE UNCHANGED waitVars
  BY <1>5 DEF waitVars, WaitTypeOK, WaitHonest, Needed, Needs
<1> QED BY <1>1, <1>2, <1>3, <1>4, <1>5 DEF WaitNext, Waiting

\* A caller that waits is told to go on only when every service it needs was
\* healthy within one attempt, and not to only when its attempts are used up
\* or its context has ended (WaitForReady, WaitForGateway, WaitForServices).
THEOREM WaitIsHonest == WaitSpec => []WaitHonest
<1>1. WaitInv => WaitHonest
  BY DEF WaitInv
<1> QED BY <1>1, WaitInvInit, WaitInvStep, PTL DEF WaitSpec
=============================================================================
