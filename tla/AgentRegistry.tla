---------------------------- MODULE AgentRegistry ----------------------------
(***************************************************************************)
(* The registry client (registry/registry.go) of one program: goroutines    *)
(* that register agents and update their metadata, and goroutines that look *)
(* identities up and put them to use.  In gateway mode an agent is entered  *)
(* with the gateway (gateway/client.go) before the platform.                *)
(***************************************************************************)
EXTENDS AgentDirectory

CONSTANTS RegCallers,  \* goroutines that register an agent
          Lookers,     \* goroutines that look an identity up
          MaxUpdates   \* how often metadata is updated, a bound

ASSUME RegistryAssumption ==
    /\ RegCallers \subseteq Registrars
    /\ IsFiniteSet(Lookers)
    /\ RegCallers \cap Lookers = {}
    /\ MaxUpdates \in Nat

VARIABLES
    mode,           \* RegistrationMode: "direct" or "gateway"
    atGateway,      \* the agents that the gateway holds
    regCall,        \* where each registering goroutine is
    regOwner,       \* the user it registers for, "system" by default
    identities,     \* Client.identities: id to the map that holds its metadata
    metadata,       \* the contents of each metadata map, as the updates merged
    accepted,       \* history: the updates accepted per id
    lookup          \* per looker, its stage, id and answer

registryVars == <<mode, atGateway, regCall, regOwner, identities, metadata,
                  accepted, lookup>>

\* An agent's id is the platform's, or drawn locally (generateAgentID).
Platform(n) == <<"platform", n>>
Local(c) == <<"local", c>>
PlatformIds == {Platform(n) : n \in 1..Cardinality(Registrars) * (Retries + 1)}
AgentIds == PlatformIds \cup {Local(c) : c \in RegCallers}

\* RegisterAgent builds one metadata map per agent and GetIdentity one per
\* answer of the platform; identities share them by reference.
MetadataMaps == RegCallers \cup Lookers
NoLookup == [stage |-> "idle", id |-> <<>>, map |-> "none", listed |-> FALSE]

RegistryInit ==
    /\ mode \in {"direct", "gateway"}
    /\ atGateway = {}
    /\ regCall = [c \in RegCallers |-> "idle"]
    /\ regOwner \in [RegCallers -> Owners]
    /\ identities = <<>>
    /\ metadata = [m \in MetadataMaps |-> {}]
    /\ accepted = [i \in AgentIds |-> {}]
    /\ lookup = [l \in Lookers |-> NoLookup]

\* identities[id] = identity, under the lock.
Put(id, map) ==
    identities' = [i \in DOMAIN identities \cup {id} |->
                     IF i = id THEN map ELSE identities[i]]

-----------------------------------------------------------------------------
\* RegisterAgent in direct mode goes to the platform at once.
RegisterDirect(c) ==
    /\ mode = "direct"
    /\ regCall[c] = "idle"
    /\ regCall' = [regCall EXCEPT ![c] = "platform"]
    /\ SendRegister(c)
    /\ UNCHANGED <<directory, mode, atGateway, regOwner, identities, metadata,
                   accepted, lookup>>

\* gateway.Client.RegisterAgent: the agent is entered, or the request fails, by
\* a lost answer after it was entered all the same.
EnterAtGateway(c, answered) ==
    \/ atGateway' = atGateway \cup {c}
    \/ ~answered /\ UNCHANGED atGateway

\* Defect: a gateway that failed does not stop the registration.
RegisterUnchecked(c) ==
    /\ mode = "gateway"
    /\ regCall[c] = "idle"
    /\ EnterAtGateway(c, FALSE)
    /\ regCall' = [regCall EXCEPT ![c] = "platform"]
    /\ SendRegister(c)
    /\ UNCHANGED <<directory, mode, regOwner, identities, metadata, accepted,
                   lookup>>

\* In gateway mode it asks the gateway first, once.  A failure is returned;
\* nothing is registered with the platform then.
RegisterAtGateway(c) ==
    /\ mode = "gateway"
    /\ regCall[c] = "idle"
    /\ \/ /\ EnterAtGateway(c, TRUE)
          /\ regCall' = [regCall EXCEPT ![c] = "platform"]
          /\ SendRegister(c)
       \/ /\ EnterAtGateway(c, FALSE)
          /\ regCall' = [regCall EXCEPT ![c] = "refused"]
          /\ UNCHANGED request
    /\ UNCHANGED <<directory, mode, regOwner, identities, metadata, accepted,
                   lookup>>

RegAttempt(c) ==
    /\ regCall[c] = "platform"
    /\ Attempt(c, regOwner[c]) \/ AbandonRegister(c)
    /\ UNCHANGED registryVars

\* A failure, and an answer without an id, fall back to a local id.
RegisteredId(c) ==
    IF request[c].state = "answered" /\ request[c].id # NoId
    THEN Platform(request[c].id) ELSE Local(c)

StoreIdentity(c) ==
    /\ regCall[c] = "platform"
    /\ request[c].state \in {"answered", "failed"}
    /\ Put(RegisteredId(c), c)
    /\ regCall' = [regCall EXCEPT ![c] = "done"]
    /\ UNCHANGED <<directoryVars, mode, atGateway, regOwner, metadata, accepted,
                   lookup>>

\* Defect: the merge goes into a fresh copy of the metadata map.
UpdateAgentMetadataCopied(c) == \E u \in 1..MaxUpdates, id \in DOMAIN identities :
    /\ regCall[c] = "done"
    /\ u \notin accepted[id]
    /\ metadata' = [m \in DOMAIN metadata \cup {"copy"} |->
                      IF m = "copy" THEN metadata[identities[id]] \cup {u} ELSE metadata[m]]
    /\ accepted' = [accepted EXCEPT ![id] = @ \cup {u}]
    /\ Put(id, "copy")
    /\ UNCHANGED <<directoryVars, mode, atGateway, regCall, regOwner, lookup>>

\* UpdateAgentMetadata merges into the map of the identity it finds.
UpdateAgentMetadata(c) == \E u \in 1..MaxUpdates, id \in DOMAIN identities :
    /\ regCall[c] = "done"
    /\ u \notin accepted[id]
    /\ metadata' = [metadata EXCEPT ![identities[id]] = @ \cup {u}]
    /\ accepted' = [accepted EXCEPT ![id] = @ \cup {u}]
    /\ UNCHANGED <<directoryVars, mode, atGateway, regCall, regOwner,
                   identities, lookup>>

-----------------------------------------------------------------------------
\* GetIdentity of an id that is tracked answers a copy of the entry, which
\* shares its metadata map; for another id it goes on to ask the platform.
GetIdentity(l) == \E id \in {Platform(n) : n \in Agents} \cup DOMAIN identities :
    /\ lookup[l].stage = "idle"
    /\ lookup' = [lookup EXCEPT ![l] =
         IF id \in DOMAIN identities
         THEN [stage |-> "local", id |-> id, map |-> identities[id], listed |-> FALSE]
         ELSE [stage |-> "query", id |-> id, map |-> "none",
               listed |-> directory[id[2]].owner = "system"]]
    /\ UNCHANGED <<directoryVars, mode, atGateway, regCall, regOwner,
                   identities, metadata, accepted>>

\* queryIdentityFromAIP looks on the first page of the agents of "system" and
\* answers an identity of its own making, nil, or the error of the request.
QueryIdentityFromAIP(l) ==
    /\ lookup[l].stage = "query"
    /\ \/ \E page \in Page("system") :
            lookup' = IF lookup[l].id[2] \in page
                      THEN [lookup EXCEPT ![l].stage = "found", ![l].map = l]
                      ELSE [lookup EXCEPT ![l].stage = "nil"]
       \/ lookup' = [lookup EXCEPT ![l].stage = "error"]
    /\ UNCHANGED <<directoryVars, mode, atGateway, regCall, regOwner,
                   identities, metadata, accepted>>

\* RegisterAgentInstance stores the identity that it is given, whatever the
\* registry has for that id by now.
RegisterAgentInstance(l) ==
    /\ lookup[l].stage \in {"local", "found"}
    /\ Put(lookup[l].id, lookup[l].map)
    /\ lookup' = [lookup EXCEPT ![l].stage = "used"]
    /\ UNCHANGED <<directoryVars, mode, atGateway, regCall, regOwner, metadata,
                   accepted>>

RegistryNext ==
    \/ \E c \in RegCallers :
         RegisterDirect(c) \/ RegisterAtGateway(c) \/ RegAttempt(c)
         \/ StoreIdentity(c) \/ UpdateAgentMetadata(c)
    \/ \E l \in Lookers :
         GetIdentity(l) \/ QueryIdentityFromAIP(l) \/ RegisterAgentInstance(l)

RegistrySpec == DirectoryInit /\ RegistryInit
                /\ [][RegistryNext]_<<directoryVars, registryVars>>

-----------------------------------------------------------------------------
RegistryTypeOK ==
    /\ mode \in {"direct", "gateway"}
    /\ atGateway \subseteq RegCallers
    /\ regCall \in [RegCallers -> {"idle", "platform", "refused", "done"}]
    /\ regOwner \in [RegCallers -> Owners]
    /\ DOMAIN identities \subseteq AgentIds
    /\ \A id \in DOMAIN identities : identities[id] \in MetadataMaps
    /\ metadata \in [MetadataMaps -> SUBSET (1..MaxUpdates)]
    /\ accepted \in [AgentIds -> SUBSET (1..MaxUpdates)]
    /\ lookup \in [Lookers ->
            [stage : {"idle", "local", "query", "found", "nil", "error", "used"},
             id : AgentIds \cup {<<>>}, map : MetadataMaps \cup {"none"},
             listed : BOOLEAN]]

\* What retries and fall-backs leave behind is bounded by what was not heard:
\* the platform holds no agent beyond the one a registrar knows of, except for
\* attempts whose answer was lost or carried no id; an identity is tracked
\* under a platform id only if the platform has it, and under a local id only
\* if the registration failed or went unanswered; and in gateway mode nobody
\* is entered with the platform whom the gateway does not hold (RegisterAgent,
\* platform.Client.do).
RegistrationAccounted ==
    /\ \A r \in Registrars :
         Cardinality(AgentsOf(r) \ {request[r].id}) <= request[r].unanswered
    /\ \A c \in RegCallers :
         /\ Local(c) \in DOMAIN identities =>
                request[c].state = "failed" \/ request[c].unanswered > 0
         /\ mode = "gateway" /\ AgentsOf(c) # {} => c \in atGateway
    /\ \A n \in 1..Cardinality(PlatformIds) :
         Platform(n) \in DOMAIN identities => n \in Agents

\* GetIdentity answers nil for an agent that was listed under "system" when the
\* call began only if the owner has more agents than the one page it reads.
LookupHonest ==
    \A l \in Lookers : lookup[l].stage = "nil" /\ lookup[l].listed =>
        Cardinality({n \in Agents : directory[n].owner = "system"}) > PageLimit

\* An update that UpdateAgentMetadata accepted is in the registry's identity,
\* also after RegisterAgentInstance has stored an older copy of it, since the
\* copies share one map.  It is lost only when an identity that GetIdentity
\* built from the platform's answer is stored over the registry's own.
UpdatesKept ==
    \A id \in DOMAIN identities :
        \/ metadata[identities[id]] = accepted[id]
        \/ \E l \in Lookers : lookup[l].stage = "used" /\ lookup[l].id = id
                              /\ lookup[l].map = l
=============================================================================
