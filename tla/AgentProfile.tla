----------------------------- MODULE AgentProfile -----------------------------
(***************************************************************************)
(* What an agent says of itself, on its way through the SDK: the options of *)
(* ExposeAsA2A (wrappers/generic.go) or of registry.RegisterAgent, the card *)
(* that its server serves, the registration made from types.AgentConfig,    *)
(* the identity that another program reads from the platform                *)
(* (types.AgentInfoFromMap) and the card generated from an identity         *)
(* (a2a/agent_card.go).  Of all this the names of the skills and the        *)
(* agent's address are kept; a list of skills also has its Go type, which   *)
(* decides who can read it.                                                 *)
(***************************************************************************)
EXTENDS FiniteSets

CONSTANTS SkillNames,   \* what the author may name
          DefaultSkill, \* the one skill of an agent that names none: its name
          NoSkillName   \* "skill", for an entry that has no name

ASSUME SkillAssumption == IsFiniteSet(SkillNames)

VARIABLES
    author,   \* what the author gave
    entry,    \* the registration that the platform holds, if any
    identity, \* the identity in hand, if any
    card      \* the card generated last, if any

profileVars == <<author, entry, identity, card>>

NotYet == <<>>

\* The Go type of a list of skills in a metadata map: a []any of maps, as from
\* JSON; a []any of something else; or any other type.
Forms == {"maps", "others", "typed"}

\* An address: the author's endpoint, the address the server binds, the
\* gateway's, the platform's default for the handle, or none.
Addresses == {"own", "bound", "gateway", "localhost", "none"}

Authors == [by : {"wrapper", "registry"}, skills : SUBSET SkillNames, form : Forms,
            endpoint : BOOLEAN, gateway : BOOLEAN]

Own == IF author.endpoint THEN "own" ELSE "none"

\* ExposeAsA2A gives an agent without skills one of its name.
WrapperSkills == IF author.skills = {} THEN {DefaultSkill} ELSE author.skills

\* The card that ExposeAsA2A builds, and the one that its server serves.
BuiltCard == [skills  |-> WrapperSkills,
              address |-> IF Own = "none" THEN "bound" ELSE Own]
ServedCard == [BuiltCard EXCEPT !.address = IF Own = "none" THEN @ ELSE Own]

\* The AgentConfig: registerWithAIP copies skills and endpoint from the
\* registration config; registry.RegisterAgent sets neither, and puts the
\* gateway's address into the metadata only.
Config == IF author.by = "wrapper"
          THEN [skills |-> WrapperSkills, address |-> Own]
          ELSE [skills |-> {}, address |-> "none"]

ToAgentCard(config) ==
    [config EXCEPT !.address = IF config.address = "none" THEN "localhost"
                               ELSE config.address]

ToRegistrationMap(config) ==
    [skills |-> config.skills, address |-> config.address, card |-> ToAgentCard(config)]

\* Defect: the skills are taken from the wrong place, and are none.
AgentInfoWithoutSkills(e) == [skills |-> {}, address |-> e.address]

\* AgentInfoFromMap reads the skills and the endpoint beside the card.
AgentInfoFromMap(e) == [skills |-> e.skills, address |-> e.address]

ProfileInit ==
    /\ author \in Authors
    /\ author.by = "wrapper" => author.form = "typed" /\ ~author.gateway
    /\ entry = NotYet
    /\ identity = NotYet
    /\ card = NotYet

-----------------------------------------------------------------------------
\* The agent is registered; the platform keeps what it was sent.
Register ==
    /\ entry = NotYet
    /\ entry' = <<ToRegistrationMap(Config)>>
    /\ UNCHANGED <<author, identity, card>>

\* The identity that registry.RegisterAgent returns and tracks, whether the
\* platform took the registration or not: the author's own metadata.
OwnIdentity ==
    /\ author.by = "registry"
    /\ identity' = <<[skills  |-> author.skills, form |-> author.form,
                     address |-> IF author.gateway THEN "gateway" ELSE "none"]>>
    /\ UNCHANGED <<author, entry, card>>

\* queryIdentityFromAIP: the skills are a []map[string]any.
QueryIdentity ==
    /\ entry # NotYet
    /\ LET info == AgentInfoFromMap(entry[1])
       IN  identity' = <<[skills |-> info.skills, form |-> "typed",
                         address |-> info.address]>>
    /\ UNCHANGED <<author, entry, card>>

\* GenerateAgentCard, for a tracked identity, with the skills of its options or
\* those it reads from the metadata.
GenerateAgentCard == \E skills \in {{}, SkillNames} :
    /\ identity # NotYet
    /\ LET i == identity[1]
       IN  card' = <<[of |-> i, given |-> skills, default |-> DefaultSkill,
              skills |-> IF skills # {} THEN skills
                         ELSE IF i.form = "maps" /\ i.skills # {} THEN i.skills
                         ELSE {DefaultSkill}]>>
    /\ UNCHANGED <<author, entry, identity>>

\* AgentCardFromMetadata, of an identity's metadata, has a fallback per skill
\* and none for the list.
AgentCardFromMetadata ==
    /\ identity # NotYet
    /\ LET i == identity[1]
       IN  card' = <<[of |-> i, given |-> {}, default |-> NoSkillName,
              skills |-> CASE i.form = "maps" -> i.skills
                           [] i.form = "others" /\ i.skills # {} -> {NoSkillName}
                           [] OTHER -> {}]>>
    /\ UNCHANGED <<author, entry, identity>>

ProfileNext == Register \/ OwnIdentity \/ QueryIdentity
               \/ GenerateAgentCard \/ AgentCardFromMetadata

ProfileSpec == ProfileInit /\ [][ProfileNext]_profileVars

-----------------------------------------------------------------------------
ProfileTypeOK ==
    LET skills == SUBSET (SkillNames \cup {DefaultSkill, NoSkillName})
        identities == [skills : skills, form : Forms, address : Addresses]
    IN  /\ author \in Authors
        /\ entry = NotYet \/ entry[1] \in [skills : skills, address : Addresses,
                                           card : [skills : skills, address : Addresses]]
        /\ identity = NotYet \/ identity[1] \in identities
        /\ card = NotYet \/ card[1] \in
             [of : identities, given : skills, skills : skills,
              default : {DefaultSkill, NoSkillName}]

\* Of an agent that ExposeAsA2A registered, the card it serves, the card the
\* platform holds and the identity another program looks up name the same
\* skills, and the same address if it has an endpoint; the platform has an
\* address that nobody serves for every agent registered without one, and for
\* all of registry.RegisterAgent.
CardsAgree == entry # NotYet =>
    /\ author.by = "wrapper" =>
         /\ entry[1].card.skills = ServedCard.skills
         /\ \A i \in {identity[n] : n \in DOMAIN identity} :
              i.skills = ServedCard.skills /\ (i.address = ServedCard.address \/ Own = "none")
    /\ entry[1].card.address # "localhost" => entry[1].card.address = ServedCard.address
    /\ entry[1].card.address = "localhost" <=> author.by = "registry" \/ Own = "none"

\* A generated card names other skills than the agent's only by its fallback,
\* and that where the list is empty or of a Go type that the generator does
\* not read - as it is in every identity looked up.
SkillsReach == card # NotYet =>
    \/ card[1].skills = card[1].given
    \/ card[1].skills = author.skills
    \/ /\ card[1].skills \subseteq {card[1].default}
       /\ card[1].of.form # "maps" \/ card[1].of.skills = {}

ProfileKept == CardsAgree /\ SkillsReach
=============================================================================
