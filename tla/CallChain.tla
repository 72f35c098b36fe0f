------------------------------ MODULE CallChain ------------------------------
(***************************************************************************)
(* A call that agents pass on to one another, with the two envelopes a       *)
(* message may carry: the AIPContext under "aip_context" (agent/context.go)  *)
(* and the AIPMetadata under "_aip" (messaging/types.go, helpers.go).  Each  *)
(* hop goes over HTTP, where the maps become JSON, or stays in the process.  *)
(***************************************************************************)
EXTENDS Naturals, Sequences, FiniteSets, SequencesExt

CONSTANTS ChainAgents,  \* the agents
          Unknown,      \* CallerID "unknown"
          NoName,       \* CallerID ""
          MaxHops,      \* how often the call is passed on, a bound
          MaxPayments   \* payment events per agent, a bound

ASSUME ChainAssumption ==
    /\ Unknown \notin ChainAgents
    /\ NoName \notin ChainAgents \cup {Unknown}
    /\ MaxHops \in Nat
    /\ MaxPayments \in Nat

VARIABLES
    place,    \* "start", "sent" or "held": where the message is
    holder,   \* the agent it is at, or on its way to
    medium,   \* "http" or "memory": how it gets there
    context,  \* the AIPContext: in the message, then in the holder's hands
    meta,     \* the AIPMetadata in the message
    hops,     \* how often the call was passed on
    \* History, for the properties:
    named,    \* the origin the metadata names and the agents that held the call
    spawned,  \* whether the origin spawned the first message itself
    httpHops, \* calls passed on since the context was last read in memory
    paid      \* the settled events added by the holder

chainVars == <<place, holder, medium, context, meta, hops, named, spawned,
               httpHops, paid>>

Names == ChainAgents \cup {Unknown, NoName}
Absent == <<>>

\* An envelope in a message is a sequence of one.
SetAIPMetadata(m) == <<m>>
WrapMessage(c) == <<c>>

\* AIPContext.SpawnChild: the chain grows by the caller agent, which the child
\* inherits.
SpawnContext(c) == [caller |-> c.caller, chain |-> Append(c.chain, c.caller)]

\* AIPContextFromMap expects the []any of decoded
\* JSON, and finds the []string of ToMap when the message stayed in memory.
ReadContext(c) == IF medium = "http" THEN c ELSE [c EXCEPT !.chain = <<>>]

UnwrapMessage(c) == IF c = Absent THEN Absent ELSE WrapMessage(ReadContext(c[1]))

\* Defect: the child keeps its parent's payment events.
SpawnMetadataPaid(m, target) ==
    [caller |-> target,
     chain  |-> IF m.chain # <<>> /\ Last(m.chain) = m.caller
                THEN m.chain ELSE Append(m.chain, m.caller),
     events |-> m.events]

\* AIPMetadata.SpawnChild: the chain grows by the caller, unless it ends with
\* it; the target becomes the caller, and payment events are not inherited.
SpawnMetadata(m, target) ==
    [caller |-> target,
     chain  |-> IF m.chain # <<>> /\ Last(m.chain) = m.caller
                THEN m.chain ELSE Append(m.chain, m.caller),
     events |-> <<>>]

\* SpawnChildMessage: the child of a message without metadata starts anew,
\* under a caller "unknown".
SpawnChildMessage(target) ==
    IF meta = Absent
    THEN [caller |-> Unknown, chain |-> <<>>, events |-> <<>>]
    ELSE SpawnMetadata(meta[1], target)

\* GetTotalCost: the settled events of the message.
TotalCost == IF meta = Absent THEN 0
             ELSE Cardinality({i \in DOMAIN meta[1].events : meta[1].events[i] = "settled"})

ChainInit ==
    /\ place = "start"
    /\ holder \in ChainAgents
    /\ medium = "http"
    /\ context = Absent
    /\ meta = Absent
    /\ hops = 0
    /\ named = <<>>
    /\ spawned = FALSE
    /\ httpHops = 0
    /\ paid = 0

-----------------------------------------------------------------------------
\* The origin makes a call: it sends a message it created (CreateUserMessage)
\* or a child it spawned, with an AIPContext of its own or none.
Originate == \E target \in ChainAgents, way \in {"http", "memory"},
                own \in BOOLEAN, child \in BOOLEAN :
    LET root == [caller |-> holder, chain |-> <<>>, events |-> <<>>]
    IN  /\ place = "start"
        /\ place' = "sent"
        /\ holder' = target
        /\ medium' = way
        /\ context' = IF own THEN WrapMessage(SpawnContext([caller |-> holder, chain |-> <<>>]))
                      ELSE Absent
        /\ meta' = SetAIPMetadata(IF child THEN SpawnMetadata(root, target) ELSE root)
        /\ named' = <<holder, target>>
        /\ spawned' = child
        /\ httpHops' = 1
        /\ UNCHANGED <<hops, paid>>

\* The target unwraps the message; the metadata is read through JSON whatever
\* the medium (GetAIPMetadata).
Receive ==
    /\ place = "sent"
    /\ place' = "held"
    /\ context' = UnwrapMessage(context)
    /\ httpHops' = IF medium = "http" THEN httpHops ELSE 0
    /\ paid' = 0
    /\ UNCHANGED <<holder, medium, meta, hops, named, spawned>>

\* AddPaymentEvent to the message in hand, with metadata of its own if the
\* message has none.
AddPaymentEvent == \E status \in {"settled", "pending"} :
    LET m == IF meta = Absent THEN [caller |-> NoName, chain |-> <<>>, events |-> <<>>]
             ELSE meta[1]
    IN  /\ place = "held"
        /\ Len(m.events) < MaxPayments
        /\ meta' = SetAIPMetadata([m EXCEPT !.events = Append(@, status)])
        /\ paid' = IF status = "settled" THEN paid + 1 ELSE paid
        /\ named' = IF meta = Absent THEN <<NoName, holder>> ELSE named
        /\ spawned' = (meta # Absent /\ spawned)
        /\ UNCHANGED <<place, holder, medium, context, hops, httpHops>>

\* The holder passes the call on, as a child of the message in hand or in a
\* message without metadata; a context it has is spawned and wrapped around it.
PassOn == \E target \in ChainAgents, way \in {"http", "memory"}, child \in BOOLEAN :
    /\ place = "held"
    /\ hops < MaxHops
    /\ place' = "sent"
    /\ holder' = target
    /\ medium' = way
    /\ context' = IF context = Absent THEN Absent
                  ELSE WrapMessage(SpawnContext(context[1]))
    /\ meta' = IF child THEN SetAIPMetadata(SpawnChildMessage(target)) ELSE Absent
    /\ named' = IF meta = Absent \/ ~child THEN <<Unknown, target>>
                ELSE Append(named, target)
    /\ spawned' = (child /\ meta # Absent /\ spawned)
    /\ hops' = hops + 1
    /\ httpHops' = httpHops + 1
    /\ UNCHANGED paid

ChainNext == Originate \/ Receive \/ AddPaymentEvent \/ PassOn

ChainSpec == ChainInit /\ [][ChainNext]_chainVars

-----------------------------------------------------------------------------
ChainTypeOK ==
    LET caller == [caller : Names, chain : Seq(Names)]
    IN  /\ place \in {"start", "sent", "held"}
        /\ holder \in ChainAgents
        /\ medium \in {"http", "memory"}
        /\ context = Absent \/ context[1] \in caller
        /\ meta = Absent \/ meta[1] \in [caller : Names, chain : Seq(Names),
                                         events : Seq({"settled", "pending"})]
        /\ hops \in 0..MaxHops
        /\ named \in Seq(Names)
        /\ spawned \in BOOLEAN
        /\ httpHops \in 0..MaxHops + 1
        /\ paid \in 0..MaxPayments

\* The stretches of one name each that s has up to its i-th, and s with each
\* stretch taken as one.
Stretches(s, i) == Cardinality({j \in 1..i : j = 1 \/ s[j] # s[j - 1]})
IsCollapsed(c, s) ==
    /\ Len(c) = Stretches(s, Len(s))
    /\ \A i \in DOMAIN s : c[Stretches(s, i)] = s[i]

\* The metadata's chain names the origin and every agent that passed the call
\* on, in order and each stretch of one agent once, over HTTP and in memory;
\* only the first target of a message that was created rather than spawned is
\* missing, since SpawnChild names an agent by the parent's caller
\* (AIPMetadata.SpawnChild, SpawnChildMessage).
Passers == IF spawned THEN Front(named)
           ELSE IF Len(named) = 2 THEN <<>>
           ELSE <<named[1]>> \o SubSeq(named, 3, Len(named) - 1)
MetadataChain == meta # Absent => IsCollapsed(meta[1].chain, Passers)

\* The context's chain names the origin once for every time the call was passed
\* on since a message was last unwrapped in the process that wrapped it, where
\* the chain is lost (AIPContext.SpawnChild, AIPContextFromMap).
ContextChain == context # Absent =>
    context[1].chain = [i \in 1..httpHops |-> context[1].caller]

\* A message's total cost is what its holder paid: settled events only, none of
\* the caller's.
CostIsOwn == place = "held" => TotalCost = paid

\* What a call carries about where it came from survives the hops it makes.
ChainKept == MetadataChain /\ ContextChain /\ CostIsOwn
=============================================================================
