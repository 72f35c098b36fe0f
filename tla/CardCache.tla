------------------------------ MODULE CardCache ------------------------------
(***************************************************************************)
(* The caches of agent cards: a2a.Client (a2a/client.go), the registry's     *)
(* list of discovered agents on top of it, and the gateway's A2AClient       *)
(* (gateway/a2a_client.go).  Fetches run without a lock, so an answer may    *)
(* be stored long after the server gave it; the agent changes its card       *)
(* meanwhile.                                                                *)
(***************************************************************************)
EXTENDS Integers, FiniteSets

CONSTANTS CardCallers,  \* goroutines that ask for the agent's card
          MaxVersion    \* how often the agent changes its card, a bound

ASSUME CardAssumption == IsFiniteSet(CardCallers) /\ MaxVersion \in Nat

VARIABLES
    served,     \* the version of the card that the agent serves now
    client,     \* which client: "a2a", or the gateway's where the name on the
                \* card is the agent's id ("gateway named") or not ("gateway")
    cards,      \* the caches: "url" of a2a.Client, "id" and "name" of
                \* A2AClient.agentCards, "seen" of the registry's discoveredAgents
    ask,        \* per caller: what it asks, its stage, and the answer so far
    given,      \* history: per cache, the newest version callers were given
    crossed     \* history: whether two fetches for a cache ever overlapped

cardVars == <<served, client, cards, ask, given, crossed>>

Caches == {"url", "id", "name", "seen"}
Missing == -1
Versions == Missing..MaxVersion
Clients == {"a2a", "gateway", "gateway named"}

\* DiscoverAgent from the cache or forced (by its caller, or by HealthCheck
\* when neither health endpoint answers), DiscoverA2AAgent on top of either;
\* GetAgentCard and DiscoverAgent of the gateway's client.
Questions == IF client = "a2a"
             THEN {"plain", "forced", "registry", "registry forced"}
             ELSE {"gateway", "wellknown"}

\* The entry a question is answered from and stored under: GetAgentCard uses
\* the agent's id, but the gateway's DiscoverAgent the name on the card.
Entry(q) == CASE q = "gateway" -> "id"
              [] q = "wellknown" -> IF client = "gateway named" THEN "id" ELSE "name"
              [] OTHER -> "url"

\* Whether the question may be answered from the cache.
UsesCache(q) == q \in {"plain", "registry", "gateway"}

\* The questions DiscoverA2AAgent asks; it keeps a list of its own.
Tracked(q) == q \in {"registry", "registry forced"}

Newer(v, w) == IF v > w THEN v ELSE w
Busy(e) == \E c \in CardCallers : ask[c].stage # "idle" /\ Entry(ask[c].q) = e
NoQuestion == [q |-> "none", stage |-> "idle", since |-> Missing, card |-> Missing]

CardInit ==
    /\ served = 0
    /\ client \in Clients
    /\ cards = [e \in Caches |-> Missing]
    /\ ask = [c \in CardCallers |-> NoQuestion]
    /\ given = [e \in Caches |-> Missing]
    /\ crossed = FALSE

-----------------------------------------------------------------------------
\* The agent is redeployed with another card.
ChangeCard ==
    /\ served < MaxVersion
    /\ served' = served + 1
    /\ UNCHANGED <<client, cards, ask, given, crossed>>

\* The cache is looked at under the lock, and the fetch begins without it.
Lookup(c) == \E q \in Questions :
    /\ ask[c].stage = "idle"
    /\ ask' = [ask EXCEPT ![c] =
         IF UsesCache(q) /\ cards[Entry(q)] # Missing
         THEN [q |-> q, stage |-> IF Tracked(q) THEN "track" ELSE "give",
               since |-> Missing, card |-> cards[Entry(q)]]
         ELSE [q |-> q, stage |-> "fetch", since |-> served, card |-> Missing]]
    /\ crossed' = (crossed \/ Busy(Entry(q)))
    /\ UNCHANGED <<served, client, cards, given>>

\* The agent answers with the card it serves; the gateway with the one it
\* holds, which may be older.
Respond(c) == \E v \in 0..served :
    /\ ask[c].stage = "fetch"
    /\ ask[c].q = "gateway" \/ v = served
    /\ ask' = [ask EXCEPT ![c].stage = "store", ![c].card = v]
    /\ UNCHANGED <<served, client, cards, given, crossed>>

\* No answer, another status, or no card: nothing is stored.
FetchFailed(c) ==
    /\ ask[c].stage = "fetch"
    /\ ask' = [ask EXCEPT ![c] = NoQuestion]
    /\ UNCHANGED <<served, client, cards, given, crossed>>

\* Defect: a forced refresh is handed to its caller without being cached.
StoreMissing(c) ==
    /\ ask[c].stage = "store"
    /\ cards' = IF ask[c].q = "forced" THEN cards
                ELSE [cards EXCEPT ![Entry(ask[c].q)] = ask[c].card]
    /\ ask' = [ask EXCEPT ![c].stage = IF Tracked(ask[c].q) THEN "track" ELSE "give"]
    /\ UNCHANGED <<served, client, given, crossed>>

\* The card is stored, whatever another fetch has stored meanwhile.
Store(c) ==
    /\ ask[c].stage = "store"
    /\ cards' = [cards EXCEPT ![Entry(ask[c].q)] = ask[c].card]
    /\ ask' = [ask EXCEPT ![c].stage = IF Tracked(ask[c].q) THEN "track" ELSE "give"]
    /\ UNCHANGED <<served, client, given, crossed>>

\* DiscoverA2AAgent lists the card under a lock of its own.
Track(c) ==
    /\ ask[c].stage = "track"
    /\ cards' = [cards EXCEPT !["seen"] = ask[c].card]
    /\ given' = [given EXCEPT !["seen"] = Newer(@, ask[c].card)]
    /\ ask' = [ask EXCEPT ![c].stage = "give"]
    /\ UNCHANGED <<served, client, crossed>>

Give(c) ==
    /\ ask[c].stage = "give"
    /\ given' = [given EXCEPT ![Entry(ask[c].q)] = Newer(@, ask[c].card)]
    /\ ask' = [ask EXCEPT ![c] = NoQuestion]
    /\ UNCHANGED <<served, client, cards, crossed>>

CardNext ==
    \/ ChangeCard
    \/ \E c \in CardCallers : Lookup(c) \/ Respond(c) \/ FetchFailed(c)
                              \/ Store(c) \/ Track(c) \/ Give(c)

CardSpec == CardInit /\ [][CardNext]_cardVars

-----------------------------------------------------------------------------
CardTypeOK ==
    /\ served \in 0..MaxVersion
    /\ client \in Clients
    /\ cards \in [Caches -> Versions]
    /\ ask \in [CardCallers ->
            [q : Questions \cup {"none"}, stage : {"idle", "fetch", "store", "track", "give"},
             since : Versions, card : Versions]]
    /\ given \in [Caches -> Versions]
    /\ crossed \in BOOLEAN

\* A card fetched from the agent is one it served during the call; and as long
\* as no two calls for one entry overlap, no cache goes back behind a card it
\* has already handed out, across refreshes, health checks and the second list
\* that the registry keeps (a2a.Client.DiscoverAgent, registry.DiscoverA2AAgent,
\* A2AClient.GetAgentCard).  Calls that overlap may store the older card last.
CardsCurrent ==
    /\ \A c \in CardCallers :
         ask[c].stage \in {"store", "track", "give"} /\ ask[c].q # "gateway" =>
             ask[c].card >= ask[c].since
    /\ ~crossed => \A e \in Caches : cards[e] >= given[e]
=============================================================================
