--------------------------- MODULE SdkAgents_proofs ---------------------------
(***************************************************************************)
(* Proofs about agents and what they say of themselves and of a call: the   *)
(* profile of an agent (AgentProfile), the call that agents pass on          *)
(* (CallChain), the platform's list of agents (AgentDirectory), the life of  *)
(* a service (AgentHost) and the registry client (AgentRegistry), for any    *)
(* number of agents, goroutines, retries and hops.                           *)
(***************************************************************************)
EXTENDS AgentHost, AgentRegistry, CallChain, AgentProfile, FiniteSetTheorems,
        SequenceTheorems, TLAPS

-----------------------------------------------------------------------------
\* The profile of an agent.

\* The entry is the one of the author's configuration, and an identity is the
\* author's own or was read from the entry.
OriginInv ==
    /\ entry # NotYet => entry = <<ToRegistrationMap(Config)>>
    /\ identity # NotYet =>
         /\ identity = <<identity[1]>>
         /\ \/ /\ author.by = "registry"
               /\ identity[1].skills = author.skills
               /\ identity[1].form = author.form
            \/ /\ entry # NotYet
               /\ identity[1].skills = entry[1].skills
               /\ identity[1].address = entry[1].address
               /\ identity[1].form = "typed"

ProfileInv == ProfileTypeOK /\ OriginInv /\ CardsAgree /\ SkillsReach

LEMMA ProfileInvInit == ProfileInit => ProfileInv
BY DEF ProfileInit, ProfileInv, ProfileTypeOK, OriginInv, CardsAgree, SkillsReach

\* The registration of an agent has the types of one.
LEMMA RegistrationType ==
    ASSUME author \in Authors
    PROVE  /\ Own \in {"own", "none"}
           /\ Config \in [skills : SUBSET (SkillNames \cup {DefaultSkill, NoSkillName}),
                          address : {"own", "none"}]
           /\ ToRegistrationMap(Config).skills = Config.skills
           /\ ToRegistrationMap(Config).address = Config.address
           /\ ToRegistrationMap(Config).card.skills = Config.skills
           /\ ToRegistrationMap(Config).card.address =
                IF Config.address = "none" THEN "localhost" ELSE Config.address
           /\ ToRegistrationMap(Config) \in
                [skills : SUBSET (SkillNames \cup {DefaultSkill, NoSkillName}),
                 address : Addresses,
                 card : [skills : SUBSET (SkillNames \cup {DefaultSkill, NoSkillName}),
                         address : Addresses]]
<1>1. Own \in {"own", "none"}
  BY DEF Own
<1>2. WrapperSkills \in SUBSET (SkillNames \cup {DefaultSkill})
  BY DEF WrapperSkills, Authors
<1>3. Config \in [skills : SUBSET (SkillNames \cup {DefaultSkill, NoSkillName}),
                  address : {"own", "none"}]
  BY <1>1, <1>2 DEF Config
<1>4. ToAgentCard(Config) = [skills |-> Config.skills,
            address |-> IF Config.address = "none" THEN "localhost" ELSE Config.address]
  BY <1>3 DEF ToAgentCard
<1> QED BY <1>1, <1>3, <1>4 DEF ToRegistrationMap, Addresses

LEMMA ProfileInvStep == ProfileInv /\ [ProfileNext]_profileVars => ProfileInv'
<1> SUFFICES ASSUME ProfileInv, [ProfileNext]_profileVars PROVE ProfileInv'
  OBVIOUS
<1> USE DEF ProfileInv
<1> DEFINE skillSets == SUBSET (SkillNames \cup {DefaultSkill, NoSkillName})
           infos == [skills : skillSets, form : Forms, address : Addresses]
<1>0. author \in Authors /\ NotYet = <<>>
  BY DEF ProfileTypeOK, NotYet
<1>1. CASE Register
  <2>1. /\ entry = NotYet /\ entry' = <<ToRegistrationMap(Config)>>
        /\ UNCHANGED <<author, identity, card>>
    BY <1>1 DEF Register
  <2>2. ProfileTypeOK'
    BY <2>1, <1>0, RegistrationType DEF ProfileTypeOK
  <2>3. OriginInv'
    BY <2>1 DEF OriginInv, Config, Own, WrapperSkills
  <2>4. author.by = "wrapper" => identity = NotYet
    BY <2>1 DEF OriginInv
  <2>5. CardsAgree'
    BY <2>1, <2>4, <1>0, RegistrationType
    DEF CardsAgree, Config, ServedCard, BuiltCard, WrapperSkills, Own, Authors
  <2>6. SkillsReach'
    BY <2>1 DEF SkillsReach
  <2> QED BY <2>2, <2>3, <2>5, <2>6
<1>2. CASE OwnIdentity \/ QueryIdentity
  <2>1. PICK i \in infos :
        /\ identity' = <<i>>
        /\ UNCHANGED <<author, entry, card>>
        /\ \/ author.by = "registry" /\ i.skills = author.skills /\ i.form = author.form
           \/ /\ entry # NotYet /\ i.skills = entry[1].skills
              /\ i.address = entry[1].address /\ i.form = "typed"
    <3>1. CASE OwnIdentity
      <4> DEFINE i == [skills |-> author.skills, form |-> author.form,
                       address |-> IF author.gateway THEN "gateway" ELSE "none"]
      <4>1. i \in infos
        BY <1>0 DEF Authors, Addresses
      <4> QED BY <3>1, <4>1 DEF OwnIdentity
    <3>2. CASE QueryIdentity
      <4> DEFINE i == [skills |-> entry[1].skills, form |-> "typed",
                       address |-> entry[1].address]
      <4>1. entry # NotYet /\ i \in infos
        BY <3>2 DEF QueryIdentity, ProfileTypeOK, Forms
      <4> QED BY <3>2, <4>1 DEF QueryIdentity, AgentInfoFromMap
    <3> QED BY <1>2, <3>1, <3>2
  <2>2. ProfileTypeOK'
    BY <2>1 DEF ProfileTypeOK
  <2>3. OriginInv'
    BY <2>1 DEF OriginInv, Config, Own, WrapperSkills
  <2>4. CardsAgree'
    <3>1. ASSUME entry # NotYet, author.by = "wrapper"
          PROVE  /\ i.skills = ServedCard.skills
                 /\ i.address = ServedCard.address \/ Own = "none"
      BY <2>1, <3>1, <1>0, RegistrationType
      DEF OriginInv, Config, ServedCard, BuiltCard, WrapperSkills, Own
    <3>2. {identity'[n] : n \in DOMAIN identity'} = {i}
      BY <2>1
    <3> QED BY <2>1, <3>1, <3>2 DEF CardsAgree, ServedCard, BuiltCard, WrapperSkills, Own
  <2>5. SkillsReach'
    BY <2>1 DEF SkillsReach
  <2> QED BY <2>2, <2>3, <2>4, <2>5
<1>3. CASE GenerateAgentCard \/ AgentCardFromMetadata
  <2>1. identity # NotYet /\ identity[1] \in infos /\ UNCHANGED <<author, entry, identity>>
    BY <1>3 DEF GenerateAgentCard, AgentCardFromMetadata, ProfileTypeOK
  <2>2. identity[1].form = "maps" => identity[1].skills = author.skills
    BY <2>1 DEF OriginInv
  <2>3. PICK c \in [of : infos, given : skillSets, skills : skillSets,
                    default : {DefaultSkill, NoSkillName}] :
        /\ card' = <<c>>
        /\ \/ c.skills = c.given
           \/ c.skills = author.skills
           \/ c.skills \subseteq {c.default} /\ (c.of.form # "maps" \/ c.of.skills = {})
    <3>1. CASE GenerateAgentCard
      <4>1. PICK skills \in {{}, SkillNames} :
              card' = <<[of |-> identity[1], given |-> skills, default |-> DefaultSkill,
                skills |-> IF skills # {} THEN skills
                           ELSE IF identity[1].form = "maps" /\ identity[1].skills # {}
                                THEN identity[1].skills
                                ELSE {DefaultSkill}]>>
        BY <3>1 DEF GenerateAgentCard
      <4> QED BY <4>1, <2>1, <2>2
    <3>2. CASE AgentCardFromMetadata
      <4>1. card' = <<[of |-> identity[1], given |-> {}, default |-> NoSkillName,
              skills |-> CASE identity[1].form = "maps" -> identity[1].skills
                           [] identity[1].form = "others" /\ identity[1].skills # {} -> {NoSkillName}
                           [] OTHER -> {}]>>
        BY <3>2 DEF AgentCardFromMetadata
      <4> QED BY <4>1, <2>1, <2>2
    <3> QED BY <1>3, <3>1, <3>2
  <2>4. ProfileTypeOK'
    BY <2>1, <2>3 DEF ProfileTypeOK
  <2>5. OriginInv' /\ CardsAgree'
    BY <2>1 DEF OriginInv, CardsAgree, ServedCard, BuiltCard, Config, WrapperSkills, Own
  <2>6. SkillsReach'
    BY <2>1, <2>3 DEF SkillsReach
  <2> QED BY <2>4, <2>5, <2>6
<1>4. CASE UNCHANGED profileVars
  <2>1. UNCHANGED author /\ UNCHANGED entry /\ UNCHANGED identity /\ UNCHANGED card
    BY <1>4 DEF profileVars
  <2>2. ProfileTypeOK'
    BY <2>1 DEF ProfileTypeOK
  <2>3. OriginInv'
    BY <2>1 DEF OriginInv, Config, WrapperSkills, Own
  <2>4. CardsAgree'
    BY <2>1 DEF CardsAgree, ServedCard, BuiltCard, WrapperSkills, Own
  <2>5. SkillsReach'
    BY <2>1 DEF SkillsReach
  <2> QED BY <2>2, <2>3, <2>4, <2>5
<1> QED BY <1>1, <1>2, <1>3, <1>4 DEF ProfileNext

\* The card an agent serves, the one the platform holds and the identity that is
\* looked up agree where the code has them agree, and a generated card names
\* other skills only by its fallback (ExposeAsA2A, registerWithAIP,
\* AgentInfoFromMap, GenerateAgentCard, AgentCardFromMetadata).
THEOREM ProfileIsKept == ProfileSpec => []ProfileKept
<1>1. ProfileInv => ProfileKept
  BY DEF ProfileInv, ProfileKept
<1> QED BY <1>1, ProfileInvInit, ProfileInvStep, PTL DEF ProfileSpec

-----------------------------------------------------------------------------
\* A call that agents pass on.

\* The places where a stretch begins.
Begins(s, i) == {j \in 1..i : j = 1 \/ s[j] # s[j - 1]}

LEMMA BeginsIsFinite ==
    ASSUME NEW s, NEW i \in Nat
    PROVE  /\ IsFiniteSet(Begins(s, i))
           /\ Stretches(s, i) = Cardinality(Begins(s, i))
           /\ Stretches(s, i) \in Nat
<1>1. IsFiniteSet(1..i) /\ Begins(s, i) \in SUBSET (1..i)
  BY FS_Interval DEF Begins
<1>2. IsFiniteSet(Begins(s, i))
  BY <1>1, FS_Subset
<1> QED BY <1>2, FS_CardinalityType DEF Begins, Stretches

\* A sequence has one stretch more where the next name is another.
LEMMA StretchesStep ==
    ASSUME NEW s, NEW i \in Nat
    PROVE  Stretches(s, i + 1) = Stretches(s, i)
                + (IF i = 0 \/ s[i + 1] # s[i] THEN 1 ELSE 0)
<1>0. i + 1 \in Nat /\ i + 1 \notin Begins(s, i)
  BY DEF Begins
<1>1. CASE i = 0 \/ s[i + 1] # s[i]
  <2>1. Begins(s, i + 1) = Begins(s, i) \cup {i + 1}
    BY <1>1 DEF Begins
  <2> QED BY <1>0, <1>1, <2>1, BeginsIsFinite, FS_AddElement
<1>2. CASE ~(i = 0 \/ s[i + 1] # s[i])
  <2>1. Begins(s, i + 1) = Begins(s, i)
    BY <1>2 DEF Begins
  <2> QED BY <1>0, <1>2, <2>1, BeginsIsFinite
<1> QED BY <1>1, <1>2

\* A nonempty part of a sequence has a stretch, and no more than the whole.
LEMMA StretchesBounds ==
    ASSUME NEW s, NEW n \in Nat, NEW i \in 1..n
    PROVE  Stretches(s, i) \in 1..Stretches(s, n)
<1>1. 1 \in Begins(s, i) /\ Begins(s, i) \in SUBSET Begins(s, n)
  BY DEF Begins
<1>2. Cardinality(Begins(s, i)) # 0
  BY <1>1, BeginsIsFinite, FS_EmptySet
<1>3. Cardinality(Begins(s, i)) <= Cardinality(Begins(s, n))
  BY <1>1, BeginsIsFinite, FS_Subset
<1> QED BY <1>2, <1>3, BeginsIsFinite

LEMMA StretchesOfAppend ==
    ASSUME NEW S, NEW s \in Seq(S), NEW a \in S, NEW i \in 0..Len(s)
    PROVE  Stretches(Append(s, a), i) = Stretches(s, i)
<1>1. \A j \in 1..i : Append(s, a)[j] = s[j] /\ (j # 1 => Append(s, a)[j - 1] = s[j - 1])
  OBVIOUS
<1>2. {j \in 1..i : j = 1 \/ Append(s, a)[j] # Append(s, a)[j - 1]} =
      {j \in 1..i : j = 1 \/ s[j] # s[j - 1]}
  BY <1>1
<1> QED BY <1>2 DEF Stretches

\* What SpawnChild does to the chain: it stays the collapsed sequence of the
\* names.
LEMMA CollapsedGrows ==
    ASSUME NEW S, NEW s \in Seq(S), NEW c \in Seq(S), NEW a \in S,
           IsCollapsed(c, s)
    PROVE  IsCollapsed(IF c # <<>> /\ Last(c) = a THEN c ELSE Append(c, a), Append(s, a))
<1> DEFINE t == Append(s, a)
           d == IF c # <<>> /\ Last(c) = a THEN c ELSE Append(c, a)
<1>1. /\ t \in Seq(S) /\ Len(t) = Len(s) + 1 /\ t[Len(s) + 1] = a
      /\ \A i \in 1..Len(s) : t[i] = s[i]
      /\ Len(s) \in Nat /\ DOMAIN t = 1..Len(s) + 1 /\ DOMAIN s = 1..Len(s)
  OBVIOUS
<1>2. /\ Len(c) = Stretches(s, Len(s))
      /\ \A i \in 1..Len(s) : c[Stretches(s, i)] = s[i]
  BY <1>1 DEF IsCollapsed
<1>3. \A i \in 0..Len(s) : Stretches(t, i) = Stretches(s, i)
  BY StretchesOfAppend
<1>4. Stretches(t, Len(s) + 1) = Stretches(s, Len(s))
            + (IF Len(s) = 0 \/ a # s[Len(s)] THEN 1 ELSE 0)
  <2>1. Stretches(t, Len(s) + 1) = Stretches(t, Len(s))
            + (IF Len(s) = 0 \/ t[Len(s) + 1] # t[Len(s)] THEN 1 ELSE 0)
    BY <1>1, StretchesStep
  <2>2. Stretches(t, Len(s)) = Stretches(s, Len(s))
    BY <1>1, <1>3
  <2> HIDE DEF t
  <2>3. Len(s) # 0 => t[Len(s)] = s[Len(s)]
    <3>1. Len(s) # 0 => Len(s) \in 1..Len(s)
      BY <1>1
    <3> QED BY <1>1, <3>1
  <2> QED BY <1>1, <2>1, <2>2, <2>3
<1>5. \A i \in 1..Len(s) : Stretches(s, i) \in 1..Len(c)
  BY <1>1, <1>2, StretchesBounds
<1>6. CASE Len(s) = 0
  <2>1. Len(c) = 0
    <3>1. Begins(s, 0) = {}
      BY DEF Begins
    <3> QED BY <1>2, <1>6, <3>1, BeginsIsFinite, FS_EmptySet
  <2>2. d = <<a>> /\ c = <<>>
    BY <2>1
  <2>3. Stretches(t, 1) = 1
    BY <1>2, <1>4, <1>6, <2>1
  <2> QED BY <1>1, <1>6, <2>2, <2>3 DEF IsCollapsed
<1>7. CASE Len(s) # 0 /\ a = s[Len(s)]
  <2>1. c # <<>> /\ Last(c) = a
    BY <1>1, <1>2, <1>5, <1>7 DEF Last
  <2>2. Stretches(t, Len(s) + 1) = Stretches(s, Len(s)) /\ Stretches(s, Len(s)) \in Nat
    BY <1>1, <1>4, <1>7, BeginsIsFinite
  <2>3. \A i \in DOMAIN t : c[Stretches(t, i)] = t[i]
    BY <1>1, <1>2, <1>3, <1>7, <2>2
  <2> QED BY <1>1, <1>2, <2>1, <2>2, <2>3 DEF IsCollapsed
<1>8. CASE Len(s) # 0 /\ a # s[Len(s)]
  <2>1. Last(c) # a
    BY <1>1, <1>2, <1>8 DEF Last
  <2>2. d = Append(c, a) /\ Len(d) = Len(c) + 1 /\ d[Len(c) + 1] = a
        /\ \A k \in 1..Len(c) : d[k] = c[k]
    BY <2>1
  <2>3. Stretches(t, Len(s) + 1) = Len(c) + 1
    BY <1>1, <1>2, <1>4, <1>8
  <2>4. \A i \in DOMAIN t : d[Stretches(t, i)] = t[i]
    <3>1. ASSUME NEW i \in 1..Len(s) PROVE d[Stretches(t, i)] = t[i]
      <4>1. Stretches(t, i) = Stretches(s, i) /\ Stretches(s, i) \in 1..Len(c)
        BY <1>3, <1>5
      <4> QED BY <1>1, <1>2, <2>2, <4>1
    <3>2. d[Stretches(t, Len(s) + 1)] = t[Len(s) + 1]
      BY <1>1, <2>2, <2>3
    <3> HIDE DEF t, d
    <3>3. ASSUME NEW i \in DOMAIN t PROVE d[Stretches(t, i)] = t[i]
      <4>1. i \in 1..Len(s) \/ i = Len(s) + 1
        BY <1>1
      <4> QED BY <4>1, <3>1, <3>2
    <3> QED BY <3>3
  <2> QED BY <1>1, <2>2, <2>3, <2>4 DEF IsCollapsed
<1> QED BY <1>1, <1>6, <1>7, <1>8

LEMMA EmptyIsCollapsed == IsCollapsed(<<>>, <<>>)
<1>1. Begins(<<>>, 0) = {}
  BY DEF Begins
<1> QED BY <1>1, BeginsIsFinite, FS_EmptySet DEF IsCollapsed

\* The receiver of a message is its caller, unless the message was created for
\* it; and what an agent paid goes with the message it holds, not with its child.
CallerInv ==
    /\ place = "start" => meta = Absent /\ context = Absent /\ hops = 0 /\ httpHops = 0
    /\ place # "start" => Len(named) >= 2
    /\ httpHops <= hops + 1
    /\ meta # Absent =>
         /\ meta[1].caller = IF spawned \/ Len(named) > 2 THEN Last(named) ELSE named[1]
         /\ Len(meta[1].events) <= MaxPayments
         /\ place = "sent" => meta[1].events = <<>>

ChainInv == ChainTypeOK /\ CallerInv /\ ChainKept

\* The agents that passed the call on, and the caller that the message names.
PassersOf(own, n) == IF own THEN Front(n)
                     ELSE IF Len(n) = 2 THEN <<>>
                     ELSE <<n[1]>> \o SubSeq(n, 3, Len(n) - 1)
CallerOf(own, n) == IF own \/ Len(n) > 2 THEN Last(n) ELSE n[1]

LEMMA PassersGrow ==
    ASSUME NEW S, NEW names \in Seq(S), NEW target \in S, Len(names) >= 2, NEW b \in BOOLEAN
    PROVE  /\ PassersOf(b, names) \in Seq(S)
           /\ CallerOf(b, names) \in S
           /\ PassersOf(b, Append(names, target)) = Append(PassersOf(b, names), CallerOf(b, names))
<1> DEFINE more == Append(names, target)
           n == Len(names)
<1>1. /\ n \in Nat /\ n >= 2 /\ more \in Seq(S) /\ Len(more) = n + 1
      /\ \A i \in 1..n : more[i] = names[i] /\ names[i] \in S
  OBVIOUS
<1>2. CASE b
  <2>1. Front(names) \in Seq(S) /\ Front(names) = SubSeq(names, 1, n - 1)
    BY <1>1 DEF Front
  <2>2. Front(more) = SubSeq(more, 1, n)
    BY <1>1 DEF Front
  <2>3. SubSeq(more, 1, n) = names
    <3>1. SubSeq(more, 1, n) \in Seq(S) /\ Len(SubSeq(more, 1, n)) = n
          /\ \A i \in 1..n : SubSeq(more, 1, n)[i] = more[i]
      BY <1>1
    <3> QED BY <1>1, <3>1, SeqEqual
  <2>4. Append(SubSeq(names, 1, n - 1), names[n]) = names
    <3> DEFINE f == SubSeq(names, 1, n - 1)
    <3>1. f \in Seq(S) /\ Len(f) = n - 1 /\ \A i \in 1..n - 1 : f[i] = names[i]
      BY <1>1
    <3>2. names[n] \in S
      BY <1>1
    <3> HIDE DEF f
    <3>3. Append(f, names[n]) \in Seq(S) /\ Len(Append(f, names[n])) = n
          /\ \A i \in 1..n : Append(f, names[n])[i] = names[i]
      BY <1>1, <3>1, <3>2
    <3> QED BY <3>3, SeqEqual DEF f
  <2>5. CallerOf(b, names) = names[n] /\ names[n] \in S
    BY <1>1, <1>2 DEF CallerOf, Last
  <2> QED BY <1>2, <2>1, <2>2, <2>3, <2>4, <2>5 DEF PassersOf
<1>3. CASE ~b /\ n = 2
  <2>1. SubSeq(more, 3, n) = <<>> /\ Len(more) - 1 = n /\ Len(more) # 2
    BY <1>1, <1>3, SubSeqEmpty
  <2>2. more[1] = names[1] /\ names[1] \in S
    BY <1>1
  <2> HIDE DEF more
  <2>3. <<more[1]>> \o SubSeq(more, 3, Len(more) - 1) = <<names[1]>>
    <3>1. SubSeq(more, 3, Len(more) - 1) = <<>>
      BY <2>1
    <3>2. <<names[1]>> \in Seq(S)
      BY <2>2
    <3> QED BY <2>2, <3>1, <3>2, ConcatEmptySeq
  <2>4. PassersOf(b, more) = <<names[1]>>
    BY <1>3, <2>1, <2>3 DEF PassersOf
  <2>5. PassersOf(b, names) = <<>>
    BY <1>3 DEF PassersOf
  <2>6. CallerOf(b, names) = names[1]
    BY <1>3 DEF CallerOf
  <2>7. Append(<<>>, names[1]) = <<names[1]>>
    OBVIOUS
  <2> QED BY <2>2, <2>4, <2>5, <2>6, <2>7 DEF more
<1>4. CASE ~b /\ n > 2
  <2> DEFINE p == <<names[1]>> \o SubSeq(names, 3, n - 1)
             q == <<more[1]>> \o SubSeq(more, 3, n)
  <2>1. /\ SubSeq(names, 3, n - 1) \in Seq(S) /\ Len(SubSeq(names, 3, n - 1)) = n - 3
        /\ \A i \in 1..n - 3 : SubSeq(names, 3, n - 1)[i] = names[i + 2]
    <3>1. 3 \in Int /\ n - 1 \in Int /\ \A i \in 3..(n - 1) : names[i] \in S
      <4>1. \A i \in 3..(n - 1) : i \in 1..n
        BY <1>1
      <4> QED BY <1>1, <4>1
    <3>2. /\ SubSeq(names, 3, n - 1) \in Seq(S)
          /\ Len(SubSeq(names, 3, n - 1)) = IF 3 <= n - 1 THEN (n - 1) - 3 + 1 ELSE 0
          /\ \A i \in 1..(n - 1) - 3 + 1 : SubSeq(names, 3, n - 1)[i] = names[3 + i - 1]
      BY <3>1, SubSeqProperties
    <3>3. (IF 3 <= n - 1 THEN (n - 1) - 3 + 1 ELSE 0) = n - 3 /\ (n - 1) - 3 + 1 = n - 3
      <4> HIDE DEF more, n
      <4> QED BY <1>1, <1>4
    <3>4. \A i \in 1..n - 3 : 3 + i - 1 = i + 2
      BY <1>1
    <3> HIDE DEF n
    <3> QED BY <3>2, <3>3, <3>4
  <2>2. /\ SubSeq(more, 3, n) \in Seq(S) /\ Len(SubSeq(more, 3, n)) = n - 2
        /\ \A i \in 1..n - 2 : SubSeq(more, 3, n)[i] = more[i + 2]
    <3>1. 3 \in Int /\ n \in Int /\ \A i \in 3..(n) : more[i] \in S
      <4> HIDE DEF more, n
      <4>1. \A i \in 3..n : i \in 1..n
        BY <1>1
      <4> QED BY <1>1, <4>1
    <3>2. /\ SubSeq(more, 3, n) \in Seq(S)
          /\ Len(SubSeq(more, 3, n)) = IF 3 <= n THEN (n) - 3 + 1 ELSE 0
          /\ \A i \in 1..(n) - 3 + 1 : SubSeq(more, 3, n)[i] = more[3 + i - 1]
      BY <3>1, SubSeqProperties
    <3>3. (IF 3 <= n THEN (n) - 3 + 1 ELSE 0) = n - 2 /\ (n) - 3 + 1 = n - 2
      BY <1>1, <1>4
    <3>4. \A i \in 1..n - 2 : 3 + i - 1 = i + 2
      BY <1>1
    <3> HIDE DEF n
    <3> QED BY <3>2, <3>3, <3>4
  <2>3. <<names[1]>> \in Seq(S) /\ <<more[1]>> \in Seq(S) /\ names[n] \in S
        /\ more[1] = names[1]
    BY <1>1
  <2>4. /\ p \in Seq(S) /\ Len(p) = n - 2 /\ p[1] = names[1]
        /\ \A i \in 2..n - 2 : p[i] = names[i + 1]
    BY <1>1, <1>4, <2>1, <2>3, ConcatProperties
  <2>5. /\ q \in Seq(S) /\ Len(q) = n - 1 /\ q[1] = names[1]
        /\ \A i \in 2..n - 1 : q[i] = names[i + 1]
    <3>1. /\ q \in Seq(S) /\ Len(q) = n - 1 /\ q[1] = names[1]
          /\ \A i \in 2..n - 1 : q[i] = more[i + 1]
      BY <1>1, <1>4, <2>2, <2>3, ConcatProperties
    <3> QED BY <1>1, <3>1
  <2> HIDE DEF p, q
  <2>6. /\ Append(p, names[n]) \in Seq(S) /\ Len(Append(p, names[n])) = n - 1
        /\ \A i \in 1..n - 1 : Append(p, names[n])[i] = q[i]
    <3>1. \A i \in 1..n - 2 : Append(p, names[n])[i] = p[i]
      BY <1>1, <2>3, <2>4
    <3>2. Append(p, names[n])[n - 1] = names[n]
      BY <1>1, <1>4, <2>3, <2>4
    <3>3. \A i \in 1..n - 2 : p[i] = q[i]
      BY <1>1, <1>4, <2>4, <2>5
    <3>4. q[n - 1] = names[n]
      BY <1>1, <1>4, <2>5
    <3>5. \A i \in 1..n - 1 : i \in 1..n - 2 \/ i = n - 1
      BY <1>1
    <3>6. \A i \in 1..n - 1 : Append(p, names[n])[i] = q[i]
      BY <3>1, <3>2, <3>3, <3>4, <3>5
    <3> QED BY <1>1, <2>3, <2>4, <3>6
  <2>7. q = Append(p, names[n])
    BY <1>1, <2>5, <2>6, SeqEqual
  <2>8. Len(more) - 1 = n /\ Len(more) # 2 /\ n # 2
    BY <1>1, <1>4
  <2>9. CallerOf(b, names) = names[n]
    BY <1>1, <1>4 DEF CallerOf, Last
  <2>10. PassersOf(b, names) = p
    BY <1>4, <2>8 DEF PassersOf, p
  <2>11. PassersOf(b, more) = q
    BY <1>4, <2>8 DEF PassersOf, q
  <2> HIDE DEF more
  <2>12. PassersOf(b, more) = Append(PassersOf(b, names), CallerOf(b, names))
    BY <2>7, <2>9, <2>10, <2>11
  <2> QED BY <2>3, <2>4, <2>9, <2>10, <2>12 DEF more
<1>5. n = 2 \/ n > 2
  <2> HIDE DEF more, n
  <2> QED BY <1>1
<1> QED BY <1>2, <1>3, <1>4, <1>5

\* The envelope as it is typed, and its number of settled payments.
Envelopes == [caller : Names, chain : Seq(Names), events : Seq({"settled", "pending"})]
Settled(events) == Cardinality({i \in DOMAIN events : events[i] = "settled"})

LEMMA SettledCounts ==
    ASSUME NEW events \in Seq({"settled", "pending"}), NEW status \in {"settled", "pending"}
    PROVE  /\ Settled(<<>>) = 0
           /\ Settled(events) \in 0..Len(events)
           /\ Settled(Append(events, status)) =
                IF status = "settled" THEN Settled(events) + 1 ELSE Settled(events)
<1> DEFINE at(e) == {i \in DOMAIN e : e[i] = "settled"}
           more == Append(events, status)
<1>1. at(<<>>) = {}
  OBVIOUS
<1>2. IsFiniteSet(DOMAIN events) /\ Cardinality(DOMAIN events) = Len(events)
  <2>1. DOMAIN events = 1..Len(events) /\ Len(events) \in Nat
    OBVIOUS
  <2> QED BY <2>1, FS_Interval
<1>3. IsFiniteSet(at(events)) /\ Cardinality(at(events)) \in Nat
      /\ Cardinality(at(events)) <= Len(events)
  <2>1. at(events) \in SUBSET DOMAIN events
    OBVIOUS
  <2> QED BY <1>2, <2>1, FS_Subset, FS_CardinalityType
<1>4. /\ DOMAIN more = DOMAIN events \cup {Len(events) + 1}
      /\ Len(events) + 1 \notin DOMAIN events
      /\ more[Len(events) + 1] = status
      /\ \A i \in DOMAIN events : more[i] = events[i]
  OBVIOUS
<1>5. CASE status = "settled"
  <2>1. at(more) = at(events) \cup {Len(events) + 1}
    BY <1>4, <1>5
  <2>2. Len(events) + 1 \notin at(events)
    BY <1>4
  <2> HIDE DEF at, more
  <2>3. Cardinality(at(more)) = Cardinality(at(events)) + 1
    BY <1>3, <2>1, <2>2, FS_AddElement
  <2>4. Cardinality(at(<<>>)) = 0
    BY <1>1, FS_EmptySet
  <2>5. Settled(events) = Cardinality(at(events)) /\ Settled(<<>>) = Cardinality(at(<<>>))
        /\ Settled(more) = Cardinality(at(more))
    BY DEF Settled, at
  <2>6. Len(events) \in Nat
    OBVIOUS
  <2> QED BY <1>3, <1>5, <2>3, <2>4, <2>5, <2>6 DEF more
<1>6. CASE status # "settled"
  <2>1. at(more) = at(events)
    BY <1>4, <1>6
  <2> HIDE DEF at, more
  <2>2. Cardinality(at(<<>>)) = 0
    BY <1>1, FS_EmptySet
  <2>3. Settled(events) = Cardinality(at(events)) /\ Settled(<<>>) = Cardinality(at(<<>>))
        /\ Settled(more) = Cardinality(at(more))
    BY DEF Settled, at
  <2>4. Len(events) \in Nat
    OBVIOUS
  <2> QED BY <1>3, <1>6, <2>1, <2>2, <2>3, <2>4 DEF more
<1> QED BY <1>5, <1>6

LEMMA ChainInvInit == ChainInit => ChainInv
<1> SUFFICES ASSUME ChainInit PROVE ChainInv
  OBVIOUS
<1>1. ChainTypeOK
  <2>1. 0 \in 0..MaxHops /\ 0 \in 0..MaxHops + 1 /\ 0 \in 0..MaxPayments
    BY ChainAssumption
  <2>2. <<>> \in Seq(Names)
    OBVIOUS
  <2> QED BY <2>1, <2>2 DEF ChainInit, ChainTypeOK
<1>2. CallerInv
  BY DEF ChainInit, CallerInv
<1>3. ChainKept
  BY DEF ChainInit, ChainKept, MetadataChain, ContextChain, CostIsOwn
<1> QED BY <1>1, <1>2, <1>3 DEF ChainInv

\* A context that is spawned names its caller once more.
LEMMA ContextGrows ==
    ASSUME NEW n \in Nat, NEW a \in Names
    PROVE  Append([i \in 1..n |-> a], a) = [i \in 1..n + 1 |-> a]
<1> DEFINE s == [i \in 1..n |-> a]
           t == [i \in 1..n + 1 |-> a]
<1>1. s \in Seq(Names) /\ Len(s) = n /\ t \in Seq(Names) /\ Len(t) = n + 1
  OBVIOUS
<1>2. \A i \in 1..n : s[i] = a
  OBVIOUS
<1>3. \A i \in 1..n + 1 : t[i] = a
  OBVIOUS
<1> HIDE DEF s, t
<1>4. /\ Append(s, a) \in Seq(Names) /\ Len(Append(s, a)) = n + 1
      /\ \A i \in 1..n + 1 : Append(s, a)[i] = t[i]
  BY <1>1, <1>2, <1>3
<1> QED BY <1>1, <1>4, SeqEqual DEF s, t

LEMMA ChainInvStep == ChainInv /\ [ChainNext]_chainVars => ChainInv'
<1> SUFFICES ASSUME ChainInv, [ChainNext]_chainVars PROVE ChainInv'
  OBVIOUS
<1>0. /\ ChainTypeOK /\ CallerInv
      /\ MetadataChain /\ ContextChain /\ CostIsOwn
      /\ Names = ChainAgents \cup {Unknown, NoName} /\ Absent = <<>>
      /\ Passers = PassersOf(spawned, named)
      /\ Passers' = PassersOf(spawned', named')
  BY DEF ChainInv, ChainKept, Names, Absent, Passers, PassersOf
<1>1. CASE Originate
  <2>1. PICK target \in ChainAgents, way \in {"http", "memory"},
             own \in BOOLEAN, child \in BOOLEAN :
        /\ place = "start" /\ place' = "sent" /\ holder' = target /\ medium' = way
        /\ context' = IF own THEN <<[caller |-> holder, chain |-> <<holder>>]>> ELSE Absent
        /\ meta' = <<IF child THEN [caller |-> target, chain |-> <<holder>>, events |-> <<>>]
                     ELSE [caller |-> holder, chain |-> <<>>, events |-> <<>>]>>
        /\ named' = <<holder, target>> /\ spawned' = child /\ httpHops' = 1
        /\ UNCHANGED <<hops, paid>>
    BY <1>1 DEF Originate, WrapMessage, SpawnContext, SetAIPMetadata, SpawnMetadata
  <2>2. holder \in Names /\ target \in Names /\ hops = 0
    BY <1>0, <2>1 DEF ChainTypeOK, CallerInv
  <2>3. meta'[1] \in Envelopes /\ meta' # Absent /\ meta'[1].events = <<>>
        /\ (context' = Absent \/ context'[1] \in [caller : Names, chain : Seq(Names)])
    BY <1>0, <2>1, <2>2 DEF Envelopes
  <2>4. named' \in Seq(Names) /\ Len(named') = 2
    BY <2>1, <2>2
  <2>5. ChainTypeOK'
    <3>1. httpHops' \in 0..MaxHops + 1
      BY <2>1, ChainAssumption
    <3> QED BY <1>0, <2>1, <2>3, <2>4, <3>1 DEF ChainTypeOK, Envelopes
  <2>6. CallerInv'
    <3>1. meta'[1].caller = IF spawned' \/ Len(named') > 2 THEN Last(named') ELSE named'[1]
      BY <2>1, <2>4 DEF Last
    <3> QED BY <2>1, <2>2, <2>3, <2>4, <3>1, ChainAssumption DEF CallerInv
  <2>7. MetadataChain'
    <3>1. CASE child
      <4>1. Passers' = <<holder>>
        <5>1. Front(named') = SubSeq(named', 1, 1)
          BY <2>4 DEF Front
        <5>2. SubSeq(named', 1, 1) = <<named'[1]>>
          <6>1. SubSeq(named', 1, 1) \in Seq(Names) /\ Len(SubSeq(named', 1, 1)) = 1
                /\ SubSeq(named', 1, 1)[1] = named'[1] /\ named'[1] \in Names
            BY <2>4
          <6>2. <<named'[1]>> \in Seq(Names) /\ Len(<<named'[1]>>) = 1
                /\ <<named'[1]>>[1] = named'[1]
            BY <6>1
          <6>3. \A i \in 1..1 : i = 1
            OBVIOUS
          <6>4. \A i \in 1..1 : SubSeq(named', 1, 1)[i] = <<named'[1]>>[i]
            BY <6>1, <6>2, <6>3
          <6> QED BY <6>1, <6>2, <6>4, SeqEqual
        <5> QED BY <1>0, <2>1, <3>1, <5>1, <5>2 DEF PassersOf
      <4>2. IsCollapsed(<<holder>>, <<holder>>)
        <5>1. IsCollapsed(Append(<<>>, holder), Append(<<>>, holder))
          BY <2>2, EmptyIsCollapsed, CollapsedGrows, <<>> \in Seq(Names)
        <5> QED BY <5>1
      <4> QED BY <2>1, <3>1, <4>1, <4>2 DEF MetadataChain
    <3>2. CASE ~child
      <4>1. Passers' = <<>>
        BY <1>0, <2>1, <2>4, <3>2 DEF PassersOf
      <4> QED BY <2>1, <3>2, <4>1, EmptyIsCollapsed DEF MetadataChain
    <3> QED BY <3>1, <3>2
  <2>8. ContextChain' /\ CostIsOwn'
    <3>1. <<holder>> = [i \in 1..1 |-> holder]
      OBVIOUS
    <3> QED BY <1>0, <2>1, <3>1 DEF ContextChain, CostIsOwn
  <2> QED BY <2>5, <2>6, <2>7, <2>8 DEF ChainInv, ChainKept
<1>2. CASE Receive
  <2>1. /\ place = "sent" /\ place' = "held" /\ paid' = 0
        /\ context' = IF context = Absent THEN Absent ELSE <<ReadContext(context[1])>>
        /\ httpHops' = IF medium = "http" THEN httpHops ELSE 0
        /\ UNCHANGED <<holder, medium, meta, hops, named, spawned>>
    BY <1>2 DEF Receive, UnwrapMessage, WrapMessage
  <2>2. ASSUME context # Absent
        PROVE  /\ context'[1] \in [caller : Names, chain : Seq(Names)]
               /\ context' = <<context'[1]>>
               /\ context'[1].chain = [i \in 1..httpHops' |-> context'[1].caller]
    <3>1. context[1] \in [caller : Names, chain : Seq(Names)]
          /\ context[1].chain = [i \in 1..httpHops |-> context[1].caller]
      BY <1>0, <2>2 DEF ChainTypeOK, ContextChain
    <3>2. CASE medium = "http"
      BY <2>1, <2>2, <3>1, <3>2 DEF ReadContext
    <3>3. CASE medium # "http"
      <4>1. context' = <<[caller |-> context[1].caller, chain |-> <<>>]>> /\ httpHops' = 0
        BY <2>1, <2>2, <3>1, <3>3 DEF ReadContext
      <4>2. \A a : [i \in 1..0 |-> a] = <<>>
        OBVIOUS
      <4> QED BY <3>1, <4>1, <4>2
    <3> QED BY <3>2, <3>3
  <2>3. ChainTypeOK'
    <3>1. context' = Absent \/ context'[1] \in [caller : Names, chain : Seq(Names)]
      BY <1>0, <2>1, <2>2
    <3>2. httpHops' \in 0..MaxHops + 1 /\ paid' \in 0..MaxPayments
      BY <1>0, <2>1, ChainAssumption DEF ChainTypeOK
    <3> QED BY <1>0, <2>1, <3>1, <3>2 DEF ChainTypeOK
  <2>4. CallerInv'
    <3>1. httpHops' <= hops + 1
      BY <1>0, <2>1 DEF ChainTypeOK, CallerInv
    <3> QED BY <1>0, <2>1, <3>1 DEF CallerInv
  <2>5. MetadataChain'
    BY <1>0, <2>1 DEF MetadataChain, PassersOf
  <2>6. ContextChain'
    BY <1>0, <2>1, <2>2 DEF ContextChain
  <2>7. CostIsOwn'
    <3>1. meta # Absent => Cardinality({i \in DOMAIN meta[1].events :
                                        meta[1].events[i] = "settled"}) = 0
      <4>1. meta # Absent => meta[1].events = <<>>
        BY <1>0, <2>1 DEF CallerInv
      <4>2. {i \in DOMAIN <<>> : <<>>[i] = "settled"} = {}
        OBVIOUS
      <4> QED BY <4>1, <4>2, FS_EmptySet
    <3> QED BY <1>0, <2>1, <3>1 DEF CostIsOwn, TotalCost
  <2> QED BY <2>3, <2>4, <2>5, <2>6, <2>7 DEF ChainInv, ChainKept
<1>3. CASE AddPaymentEvent
  <2> DEFINE m == IF meta = Absent THEN [caller |-> NoName, chain |-> <<>>, events |-> <<>>]
                  ELSE meta[1]
  <2>1. PICK status \in {"settled", "pending"} :
        /\ place = "held" /\ Len(m.events) < MaxPayments
        /\ meta' = <<[m EXCEPT !.events = Append(@, status)]>>
        /\ paid' = IF status = "settled" THEN paid + 1 ELSE paid
        /\ named' = IF meta = Absent THEN <<NoName, holder>> ELSE named
        /\ spawned' = (meta # Absent /\ spawned)
        /\ UNCHANGED <<place, holder, medium, context, hops, httpHops>>
    BY <1>3 DEF AddPaymentEvent, SetAIPMetadata
  <2>2. m \in Envelopes
    BY <1>0 DEF ChainTypeOK, Envelopes
  <2>3. meta'[1] = [caller |-> m.caller, chain |-> m.chain, events |-> Append(m.events, status)]
        /\ meta' # Absent
    BY <1>0, <2>1, <2>2 DEF Envelopes
  <2>4. m.events \in Seq({"settled", "pending"})
    BY <2>2 DEF Envelopes
  <2>5. Settled(m.events) = paid
    <3>1. CASE meta = Absent
      BY <1>0, <2>1, <3>1, SettledCounts, <2>4 DEF CostIsOwn, TotalCost
    <3>2. CASE meta # Absent
      BY <1>0, <2>1, <3>2 DEF CostIsOwn, TotalCost, Settled
    <3> QED BY <3>1, <3>2
  <2>6. /\ Append(m.events, status) \in Seq({"settled", "pending"})
        /\ Len(Append(m.events, status)) <= MaxPayments
        /\ Settled(Append(m.events, status)) = paid'
        /\ paid' \in 0..MaxPayments
    <3>1. /\ Append(m.events, status) \in Seq({"settled", "pending"})
          /\ Len(Append(m.events, status)) <= MaxPayments
          /\ Len(Append(m.events, status)) \in Nat
      BY <2>1, <2>4, ChainAssumption
    <3>2. Settled(Append(m.events, status)) = paid'
      BY <2>1, <2>4, <2>5, SettledCounts
    <3>3. Settled(Append(m.events, status)) \in 0..Len(Append(m.events, status))
      BY <3>1, SettledCounts
    <3> QED BY <3>1, <3>2, <3>3, ChainAssumption
  <2>7. named' \in Seq(Names) /\ Len(named') >= 2
    <3>1. named \in Seq(Names) /\ Len(named) >= 2
      BY <1>0, <2>1 DEF ChainTypeOK, CallerInv
    <3>2. <<NoName, holder>> \in Seq(Names) /\ Len(<<NoName, holder>>) = 2
      BY <1>0 DEF ChainTypeOK
    <3> QED BY <2>1, <3>1, <3>2
  <2>8. meta'[1] \in Envelopes
    BY <2>2, <2>3, <2>6 DEF Envelopes
  <2>9. ChainTypeOK'
    BY <1>0, <2>1, <2>6, <2>7, <2>8 DEF ChainTypeOK, Envelopes
  <2>10. m.caller = IF spawned' \/ Len(named') > 2 THEN Last(named') ELSE named'[1]
    <3>1. CASE meta = Absent
      <4>1. m.caller = NoName /\ named' = <<NoName, holder>> /\ spawned' = FALSE
        BY <2>1, <3>1
      <4> QED BY <4>1
    <3>2. CASE meta # Absent
      <4>1. m = meta[1] /\ named' = named /\ spawned' = spawned
        BY <1>0, <2>1, <3>2 DEF ChainTypeOK
      <4> QED BY <1>0, <3>2, <4>1 DEF CallerInv
    <3> QED BY <3>1, <3>2
  <2>11. CallerInv'
    BY <1>0, <2>1, <2>3, <2>6, <2>7, <2>10 DEF CallerInv
  <2>12. MetadataChain'
    <3>1. CASE meta = Absent
      <4>1. Passers' = <<>>
        BY <1>0, <2>1, <3>1 DEF PassersOf
      <4> QED BY <2>3, <3>1, <4>1, EmptyIsCollapsed DEF MetadataChain
    <3>2. CASE meta # Absent
      <4>1. Passers' = Passers
        BY <1>0, <2>1, <3>2 DEF ChainTypeOK
      <4> QED BY <1>0, <2>3, <3>2, <4>1 DEF MetadataChain
    <3> QED BY <3>1, <3>2
  <2>13. ContextChain'
    BY <1>0, <2>1 DEF ContextChain
  <2>14. CostIsOwn'
    <3>1. TotalCost' = Settled(meta'[1].events)
      BY <2>3, <1>0 DEF TotalCost, Settled
    <3> QED BY <2>3, <2>6, <3>1 DEF CostIsOwn
  <2> QED BY <2>9, <2>11, <2>12, <2>13, <2>14 DEF ChainInv, ChainKept
<1>4. CASE PassOn
  <2>1. PICK target \in ChainAgents, way \in {"http", "memory"}, child \in BOOLEAN :
        /\ place = "held" /\ hops < MaxHops /\ place' = "sent"
        /\ holder' = target /\ medium' = way
        /\ context' = IF context = Absent THEN Absent ELSE <<SpawnContext(context[1])>>
        /\ meta' = IF child THEN <<SpawnChildMessage(target)>> ELSE Absent
        /\ named' = IF meta = Absent \/ ~child THEN <<Unknown, target>>
                    ELSE Append(named, target)
        /\ spawned' = (child /\ meta # Absent /\ spawned)
        /\ hops' = hops + 1 /\ httpHops' = httpHops + 1 /\ paid' = paid
    BY <1>4 DEF PassOn, WrapMessage, SetAIPMetadata
  <2>2. target \in Names /\ Unknown \in Names /\ spawned \in BOOLEAN
        /\ named \in Seq(Names) /\ Len(named) >= 2
    BY <1>0, <2>1 DEF ChainTypeOK, CallerInv
  <2>3. named' \in Seq(Names) /\ Len(named') >= 2
    BY <2>1, <2>2
  <2>4. /\ hops' \in 0..MaxHops /\ httpHops' \in 0..MaxHops + 1
        /\ httpHops' <= hops' + 1
    <3>1. hops \in 0..MaxHops /\ httpHops \in 0..MaxHops + 1 /\ httpHops <= hops + 1
      BY <1>0 DEF ChainTypeOK, CallerInv
    <3>2. hops < MaxHops /\ hops' = hops + 1 /\ httpHops' = httpHops + 1
      BY <2>1
    <3> HIDE <1>4
    <3> QED BY <3>1, <3>2, ChainAssumption
  <2>5. ASSUME context # Absent
        PROVE  /\ context' = <<context'[1]>>
               /\ context'[1] \in [caller : Names, chain : Seq(Names)]
               /\ context'[1].chain = [i \in 1..httpHops' |-> context'[1].caller]
    <3>1. context[1] \in [caller : Names, chain : Seq(Names)]
          /\ context[1].chain = [i \in 1..httpHops |-> context[1].caller]
          /\ httpHops \in Nat
      BY <1>0, <2>5 DEF ChainTypeOK, ContextChain
    <3>2. context' = <<[caller |-> context[1].caller,
                        chain |-> Append(context[1].chain, context[1].caller)]>>
      BY <2>1, <2>5 DEF SpawnContext
    <3>3. Append(context[1].chain, context[1].caller) =
              [i \in 1..httpHops' |-> context[1].caller]
      BY <2>1, <3>1, ContextGrows
    <3>4. Append(context[1].chain, context[1].caller) \in Seq(Names)
      BY <3>1
    <3>5. context'[1] = [caller |-> context[1].caller,
                         chain |-> Append(context[1].chain, context[1].caller)]
          /\ context' = <<context'[1]>>
      BY <3>2
    <3>6. context'[1].caller = context[1].caller
          /\ context'[1].chain = Append(context[1].chain, context[1].caller)
      BY <3>5
    <3>7. context'[1] \in [caller : Names, chain : Seq(Names)]
      BY <3>1, <3>4, <3>5
    <3> QED BY <3>3, <3>5, <3>6, <3>7
  <2>6. ASSUME child = TRUE, meta = Absent
        PROVE  /\ meta' = <<[caller |-> Unknown, chain |-> <<>>, events |-> <<>>]>>
               /\ named' = <<Unknown, target>> /\ spawned' = FALSE
    BY <2>1, <2>6 DEF SpawnChildMessage
  <2>7. ASSUME child = TRUE, meta # Absent
        PROVE  /\ meta' = <<SpawnMetadata(meta[1], target)>>
               /\ named' = Append(named, target) /\ spawned' = spawned
               /\ meta[1] \in Envelopes
               /\ meta[1].caller = CallerOf(spawned, named)
    BY <1>0, <2>1, <2>2, <2>7 DEF SpawnChildMessage, ChainTypeOK, CallerInv, Envelopes, CallerOf
  <2>8. ASSUME meta' # Absent
        PROVE  meta' = <<meta'[1]>> /\ meta'[1] \in Envelopes /\ meta'[1].events = <<>>
    <3>1. child = TRUE
      BY <2>1, <2>8
    <3>2. CASE meta = Absent
      <4> DEFINE r == [caller |-> Unknown, chain |-> <<>>, events |-> <<>>]
      <4>1. meta' = <<r>>
        BY <2>6, <3>1, <3>2
      <4>2. r \in Envelopes /\ r.events = <<>>
        BY <2>2 DEF Envelopes
      <4> HIDE DEF r
      <4> QED BY <4>1, <4>2
    <3>3. CASE meta # Absent
      <4> DEFINE c == meta[1].chain
                 d == IF c # <<>> /\ Last(c) = meta[1].caller THEN c
                      ELSE Append(c, meta[1].caller)
                 r == [caller |-> target, chain |-> d, events |-> <<>>]
      <4>1. meta' = <<r>> /\ meta[1] \in Envelopes
        BY <2>7, <3>1, <3>3 DEF SpawnMetadata
      <4>2. d \in Seq(Names)
        <5>1. c \in Seq(Names) /\ meta[1].caller \in Names
          BY <4>1 DEF Envelopes
        <5>2. Append(c, meta[1].caller) \in Seq(Names)
          BY <5>1
        <5> QED BY <5>1, <5>2
      <4>3. r.events = <<>>
        OBVIOUS
      <4> HIDE DEF d
      <4>4. r \in Envelopes
        BY <2>2, <4>2 DEF Envelopes
      <4> HIDE DEF r
      <4> QED BY <4>1, <4>3, <4>4
    <3> QED BY <3>2, <3>3
  <2>9. ChainTypeOK'
    <3>1. context' = Absent \/ context'[1] \in [caller : Names, chain : Seq(Names)]
      BY <2>1, <2>5
    <3>2. meta' = Absent \/ meta'[1] \in Envelopes
      BY <2>8
    <3> QED BY <1>0, <2>1, <2>2, <2>3, <2>4, <3>1, <3>2 DEF ChainTypeOK, Envelopes
  <2>10. ASSUME meta' # Absent
         PROVE  meta'[1].caller = IF spawned' \/ Len(named') > 2 THEN Last(named') ELSE named'[1]
    <3>1. child = TRUE
      BY <2>1, <2>10
    <3>2. CASE meta = Absent
      <4>1. meta' = <<[caller |-> Unknown, chain |-> <<>>, events |-> <<>>]>>
        BY <2>6, <3>1, <3>2
      <4>2. named' = <<Unknown, target>> /\ spawned' = FALSE
        BY <2>6, <3>1, <3>2
      <4>3. meta'[1].caller = Unknown
        BY <4>1
      <4>4. Len(named') = 2 /\ named'[1] = Unknown
        BY <4>2
      <4> QED BY <4>2, <4>3, <4>4
    <3>3. CASE meta # Absent
      <4>1. meta'[1].caller = target
        BY <2>7, <3>1, <3>3 DEF SpawnMetadata
      <4>2. Len(named') > 2 /\ Last(named') = target
        BY <2>2, <2>7, <3>1, <3>3 DEF Last
      <4> QED BY <4>1, <4>2
    <3> QED BY <3>2, <3>3
  <2>11. CallerInv'
    BY <1>0, <2>1, <2>3, <2>4, <2>8, <2>10, ChainAssumption DEF CallerInv
  <2>12. MetadataChain'
    <3> SUFFICES ASSUME meta' # Absent PROVE IsCollapsed(meta'[1].chain, Passers')
      BY DEF MetadataChain
    <3>1. child = TRUE
      BY <2>1
    <3>2. CASE meta = Absent
      <4>1. Passers' = <<>>
        BY <1>0, <2>6, <3>1, <3>2 DEF PassersOf
      <4> QED BY <2>6, <3>1, <3>2, <4>1, EmptyIsCollapsed
    <3>3. CASE meta # Absent
      <4> DEFINE c == meta[1].chain
                 a == CallerOf(spawned, named)
      <4>1. Passers' = Append(Passers, a) /\ Passers \in Seq(Names) /\ a \in Names
        <5>1. named' = Append(named, target) /\ spawned' = spawned
          BY <2>7, <3>1, <3>3
        <5>2. /\ PassersOf(spawned, named) \in Seq(Names) /\ a \in Names
              /\ PassersOf(spawned, Append(named, target)) = Append(PassersOf(spawned, named), a)
          BY <2>2, PassersGrow
        <5> QED BY <1>0, <5>1, <5>2
      <4>2. IsCollapsed(c, Passers) /\ c \in Seq(Names)
        BY <1>0, <2>7, <3>1, <3>3 DEF MetadataChain, Envelopes
      <4>3. meta'[1].chain = IF c # <<>> /\ Last(c) = a THEN c ELSE Append(c, a)
        <5>1. meta' = <<SpawnMetadata(meta[1], target)>> /\ meta[1].caller = a
          BY <2>7, <3>1, <3>3
        <5>2. meta'[1] = SpawnMetadata(meta[1], target)
          BY <5>1
        <5>3. SpawnMetadata(meta[1], target).chain =
                IF c # <<>> /\ Last(c) = meta[1].caller THEN c ELSE Append(c, meta[1].caller)
          BY DEF SpawnMetadata
        <5> HIDE DEF a, c
        <5> QED BY <5>1, <5>2, <5>3
      <4> HIDE DEF a, c
      <4> QED BY <4>1, <4>2, <4>3, CollapsedGrows
    <3> QED BY <3>2, <3>3
  <2>13. ContextChain'
    BY <1>0, <2>1, <2>5 DEF ContextChain
  <2>14. CostIsOwn'
    BY <2>1 DEF CostIsOwn
  <2> QED BY <2>9, <2>11, <2>12, <2>13, <2>14 DEF ChainInv, ChainKept
<1>5. CASE UNCHANGED chainVars
  <2>1. /\ UNCHANGED place /\ UNCHANGED holder /\ UNCHANGED medium /\ UNCHANGED context
        /\ UNCHANGED meta /\ UNCHANGED hops /\ UNCHANGED named /\ UNCHANGED spawned
        /\ UNCHANGED httpHops /\ UNCHANGED paid
    BY <1>5 DEF chainVars
  <2>2. ChainTypeOK'
    BY <1>0, <2>1 DEF ChainTypeOK
  <2>3. CallerInv'
    BY <1>0, <2>1 DEF CallerInv
  <2>4. MetadataChain' /\ ContextChain'
    BY <1>0, <2>1 DEF MetadataChain, ContextChain
  <2>5. CostIsOwn'
    BY <1>0, <2>1 DEF CostIsOwn, TotalCost
  <2> QED BY <2>2, <2>3, <2>4, <2>5 DEF ChainInv, ChainKept
<1> QED BY <1>1, <1>2, <1>3, <1>4, <1>5 DEF ChainNext

\* What a call carries about where it came from survives the hops it makes: the
\* chain of its metadata, the chain of its context as far as it is not lost in
\* memory, and the cost of the message in hand (SpawnChild, SpawnChildMessage,
\* AIPContextFromMap, AddPaymentEvent).
THEOREM ChainIsKept == ChainSpec => []ChainKept
<1>1. ChainInv => ChainKept
  BY DEF ChainInv
<1> QED BY <1>1, ChainInvInit, ChainInvStep, PTL DEF ChainSpec

-----------------------------------------------------------------------------
\* The platform's list of agents and the request that enters one.

Requests == [state : {"none", "sending", "answered", "failed"},
             tries : 0..Retries, id : Nat, unanswered : Nat]

\* What a registrar knows of its agents: it has none before it asks, the one it
\* was told is its own, and there are no more beyond that one than answers
\* that never came or had no id.
KnownInv == \A r \in Registrars :
    /\ request[r].state \in {"none", "sending"} => request[r].id = NoId
    /\ request[r].state = "none" => AgentsOf(r) = {}
    /\ request[r].id # NoId => request[r].id \in AgentsOf(r)
    /\ request[r].state = "answered" /\ request[r].id = NoId => request[r].unanswered > 0
    /\ Cardinality(AgentsOf(r) \ {request[r].id}) <= request[r].unanswered

\* Every agent was entered by one of its registrar's attempts, each of which
\* entered one at most.
IsNumbering(f) ==
    /\ \A m, n \in Agents : m # n /\ directory[m].by = directory[n].by => f[m] # f[n]
    /\ \A n \in Agents : request[directory[n].by].state = "sending" =>
                            f[n] < request[directory[n].by].tries
NumberedInv == \E f \in [Agents -> 0..Retries] : IsNumbering(f)

DirectoryInv == DirectoryTypeOK /\ KnownInv /\ NumberedInv

LEMMA DirectoryFacts ==
    ASSUME DirectoryTypeOK
    PROVE  /\ Agents = 1..Len(directory) /\ Len(directory) \in Nat
           /\ \A n \in Agents : /\ directory[n] \in [by : Registrars, owner : Owners]
                                /\ n # NoId
           /\ \A r : /\ IsFiniteSet(AgentsOf(r)) /\ Cardinality(AgentsOf(r)) \in Nat
                     /\ AgentsOf(r) \ {NoId} = AgentsOf(r)
           /\ \A r \in Registrars : request[r] \in Requests
           /\ request \in [Registrars -> Requests]
<1>1. Agents = 1..Len(directory) /\ Len(directory) \in Nat
  BY DEF DirectoryTypeOK, Agents
<1>2. \A n \in Agents : /\ directory[n] \in [by : Registrars, owner : Owners]
                        /\ n # NoId
  <2>1. ASSUME NEW n \in Agents PROVE n # NoId
    BY <1>1 DEF NoId
  <2>2. ASSUME NEW n \in Agents PROVE directory[n] \in [by : Registrars, owner : Owners]
    <3>1. n \in 1..Len(directory)
      BY <1>1
    <3>2. directory \in Seq([by : Registrars, owner : Owners])
      BY DEF DirectoryTypeOK
    <3> QED BY <3>1, <3>2, ElementOfSeq
  <2> QED BY <2>1, <2>2
<1>3. ASSUME NEW r
      PROVE  /\ IsFiniteSet(AgentsOf(r)) /\ Cardinality(AgentsOf(r)) \in Nat
             /\ AgentsOf(r) \ {NoId} = AgentsOf(r)
  <2>1. AgentsOf(r) \in SUBSET (1..Len(directory)) /\ IsFiniteSet(1..Len(directory))
    BY <1>1, FS_Interval DEF AgentsOf
  <2>2. IsFiniteSet(AgentsOf(r))
    BY <2>1, FS_Subset
  <2>3. NoId \notin AgentsOf(r)
    BY <1>2 DEF AgentsOf
  <2> QED BY <2>2, <2>3, FS_CardinalityType
<1>4. request \in [Registrars -> Requests]
  BY DEF DirectoryTypeOK, Requests
<1> QED BY <1>1, <1>2, <1>3, <1>4

LEMMA DirectoryInvInit == DirectoryInit => DirectoryInv
<1> SUFFICES ASSUME DirectoryInit PROVE DirectoryInv
  OBVIOUS
<1>1. Agents = {} /\ \A r : AgentsOf(r) = {}
  BY DEF DirectoryInit, Agents, AgentsOf
<1>2. \A r \in Registrars :
        request[r] = [state |-> "none", tries |-> 0, id |-> NoId, unanswered |-> 0]
  BY DEF DirectoryInit
<1>3. DirectoryTypeOK
  <2>1. 0 \in 0..Retries /\ NoId \in Nat
    BY DirectoryAssumption DEF NoId
  <2>2. <<>> \in Seq([by : Registrars, owner : Owners])
    OBVIOUS
  <2> QED BY <2>1, <2>2 DEF DirectoryInit, DirectoryTypeOK
<1>4. KnownInv
  <2>1. \A i : {} \ {i} = {} /\ Cardinality({}) = 0
    BY FS_EmptySet
  <2> QED BY <1>1, <1>2, <2>1 DEF KnownInv
<1>5. NumberedInv
  <2>1. [n \in Agents |-> 0] \in [Agents -> 0..Retries]
    BY <1>1
  <2>2. IsNumbering([n \in Agents |-> 0])
    BY <1>1 DEF IsNumbering
  <2> QED BY <2>1, <2>2 DEF NumberedInv
<1> QED BY <1>3, <1>4, <1>5 DEF DirectoryInv

\* The list is finite: its length is bounded by the attempts.
LEMMA DirectoryIsBounded ==
    ASSUME DirectoryInv
    PROVE  /\ Cardinality(Registrars) * (Retries + 1) \in Nat
           /\ Len(directory) <= Cardinality(Registrars) * (Retries + 1)
           /\ Agents \subseteq 1..Cardinality(Registrars) * (Retries + 1)
<1>1. PICK f \in [Agents -> 0..Retries] : IsNumbering(f)
  BY DEF DirectoryInv, NumberedInv
<1>2. /\ Agents = 1..Len(directory) /\ Len(directory) \in Nat
      /\ \A n \in Agents : directory[n].by \in Registrars
  BY DirectoryFacts DEF DirectoryInv
<1> DEFINE T == Registrars \X (0..Retries)
           g == [n \in Agents |-> <<directory[n].by, f[n]>>]
<1>3. g \in [Agents -> T]
  BY <1>1, <1>2
<1>4. \A m, n \in Agents : g[m] = g[n] => m = n
  BY <1>1 DEF IsNumbering
<1>5. g \in Injection(Agents, T)
  BY <1>3, <1>4 DEF Injection, IsInjective
<1>6. /\ IsFiniteSet(0..Retries) /\ Cardinality(0..Retries) = Retries + 1
      /\ IsFiniteSet(Registrars) /\ Cardinality(Registrars) \in Nat
  <2>1. 0 \in Int /\ Retries \in Int /\ Retries \in Nat
    BY DirectoryAssumption
  <2>2. /\ IsFiniteSet(0..Retries)
        /\ Cardinality(0..Retries) = IF 0 > Retries THEN 0 ELSE Retries - 0 + 1
    BY <2>1, FS_Interval
  <2>3. IsFiniteSet(Registrars) /\ Cardinality(Registrars) \in Nat
    BY DirectoryAssumption, FS_CardinalityType
  <2> QED BY <2>1, <2>2, <2>3
<1>7. IsFiniteSet(T) /\ Cardinality(T) = Cardinality(Registrars) * (Retries + 1)
  BY <1>6, FS_Product
<1>8. Cardinality(Agents) <= Cardinality(T)
  BY <1>5, <1>7, FS_Injection
<1>9. Cardinality(Agents) = Len(directory)
  <2>1. 1 \in Int /\ Len(directory) \in Int
    BY <1>2
  <2>2. Cardinality(1..Len(directory)) =
          IF 1 > Len(directory) THEN 0 ELSE Len(directory) - 1 + 1
    BY <2>1, FS_Interval
  <2> QED BY <1>2, <2>2
<1>10. Cardinality(T) \in Nat
  BY <1>7, FS_CardinalityType
<1> QED BY <1>2, <1>7, <1>8, <1>9, <1>10

\* What an attempt does, in terms of the one request that it changes.
Answers(r, id, blank) == [state |-> "answered", tries |-> 0, id |-> id,
                          unanswered |-> request[r].unanswered + blank]
Tried(r, lost) ==
    [state |-> IF request[r].tries = Retries THEN "failed" ELSE "sending",
     tries |-> IF request[r].tries = Retries THEN 0 ELSE request[r].tries + 1,
     id |-> request[r].id, unanswered |-> request[r].unanswered + lost]
Asked(r, state) == [state |-> state, tries |-> IF state = "failed" THEN 0 ELSE request[r].tries,
                    id |-> request[r].id, unanswered |-> request[r].unanswered]

LEMMA RequestSteps ==
    ASSUME DirectoryTypeOK, NEW r \in Registrars, NEW id \in Nat, NEW k \in {0, 1}
    PROVE  /\ Answered(r, id, k) => request' = [request EXCEPT ![r] = Answers(r, id, k)]
           /\ Retried(r, k) => request' = [request EXCEPT ![r] = Tried(r, k)]
           /\ GivenUp(r) => request' = [request EXCEPT ![r] = Asked(r, "failed")]
           /\ SendRegister(r) => request' = [request EXCEPT ![r] = Asked(r, "sending")]
           /\ Answers(r, id, k) \in Requests
           /\ Tried(r, k) \in Requests
           /\ \A state \in {"failed", "sending"} : Asked(r, state) \in Requests
<1>1. request \in [Registrars -> Requests] /\ request[r] \in Requests
  BY DirectoryFacts
<1>2. Retries \in Nat
  BY DirectoryAssumption
<1>3. Answered(r, id, k) => request' = [request EXCEPT ![r] = Answers(r, id, k)]
  BY <1>1 DEF Answered, Answers, Requests
<1>4. Retried(r, k) => request' = [request EXCEPT ![r] = Tried(r, k)]
  BY <1>1 DEF Retried, Tried, Requests
<1>5. GivenUp(r) => request' = [request EXCEPT ![r] = Asked(r, "failed")]
  BY <1>1 DEF GivenUp, Asked, Requests
<1>6. SendRegister(r) => request' = [request EXCEPT ![r] = Asked(r, "sending")]
  BY <1>1 DEF SendRegister, Asked, Requests
<1>7. Answers(r, id, k) \in Requests
  BY <1>1, <1>2 DEF Answers, Requests
<1>8. Tried(r, k) \in Requests
  <2>1. (IF request[r].tries = Retries THEN 0 ELSE request[r].tries + 1) \in 0..Retries
    BY <1>1, <1>2 DEF Requests
  <2>2. request[r].unanswered + k \in Nat /\ request[r].id \in Nat
    BY <1>1 DEF Requests
  <2> QED BY <2>1, <2>2 DEF Tried, Requests
<1>9. \A state \in {"failed", "sending"} : Asked(r, state) \in Requests
  BY <1>1, <1>2 DEF Asked, Requests
<1> QED BY <1>3, <1>4, <1>5, <1>6, <1>7, <1>8, <1>9

LEMMA DirectoryGrows ==
    ASSUME DirectoryTypeOK, NEW r \in Registrars, NEW owner \in Owners, NEW n, Enter(r, owner, n)
    PROVE  /\ directory' \in Seq([by : Registrars, owner : Owners])
           /\ Agents' = Agents \cup {n} /\ n \in Nat \ {NoId}
           /\ \A m \in Agents : directory'[m] = directory[m]
           /\ directory'[n].by = r
           /\ AgentsOf(r)' = AgentsOf(r) \cup {n}
           /\ \A q : q # r => AgentsOf(q)' = AgentsOf(q)
<1>0. /\ Agents = 1..Len(directory) /\ Len(directory) \in Nat
      /\ directory \in Seq([by : Registrars, owner : Owners])
      /\ Agents' = DOMAIN directory'
  BY DirectoryFacts DEF DirectoryTypeOK, Agents
<1>1. CASE n = Len(directory) + 1 /\ directory' = Append(directory, [by |-> r, owner |-> owner])
  <2> DEFINE e == [by |-> r, owner |-> owner]
             E == [by : Registrars, owner : Owners]
  <2>1. e \in E /\ directory \in Seq(E)
    BY <1>0
  <2> HIDE DEF E
  <2>2. /\ directory' \in Seq(E) /\ Len(directory') = Len(directory) + 1
        /\ \A m \in 1..Len(directory) : directory'[m] = directory[m]
        /\ directory'[Len(directory) + 1] = e
    BY <1>1, <2>1, AppendProperties
  <2>3. Agents' = Agents \cup {n}
    <3>1. DOMAIN directory' = 1..Len(directory) + 1
      BY <1>0, <2>2, LenProperties
    <3> QED BY <1>0, <1>1, <3>1
  <2>4. n \in Nat \ {NoId}
    BY <1>0, <1>1 DEF NoId
  <2>5. \A q : AgentsOf(q)' = {m \in Agents' : directory'[m].by = q}
    BY DEF AgentsOf
  <2>6. /\ \A m \in Agents : directory'[m] = directory[m]
        /\ directory'[n].by = r
    BY <1>0, <1>1, <2>2
  <2>7. /\ AgentsOf(r)' = AgentsOf(r) \cup {n}
        /\ \A q : q # r => AgentsOf(q)' = AgentsOf(q)
    BY <2>3, <2>5, <2>6 DEF AgentsOf
  <2> QED BY <2>2, <2>3, <2>4, <2>6, <2>7 DEF E
<1>2. CASE n \in AgentsOf(r) /\ UNCHANGED directory
  <2>1. n \in Agents /\ directory[n].by = r /\ directory' = directory
    BY <1>2 DEF AgentsOf
  <2>2. \A q : AgentsOf(q)' = AgentsOf(q) /\ Agents' = Agents
    BY <2>1 DEF AgentsOf, Agents
  <2>3. n \in Nat \ {NoId}
    BY <1>0, <2>1 DEF NoId
  <2> QED BY <1>0, <1>2, <2>1, <2>2, <2>3
<1> QED BY <1>1, <1>2 DEF Enter

\* The registrar's attempt took effect, whatever it heard of it.
LEMMA EnterStep ==
    ASSUME DirectoryInv, NEW r \in Registrars, NEW owner \in Owners, NEW n,
           Enter(r, owner, n), request[r].state = "sending",
           NEW new \in {Answers(r, n, 0), Answers(r, NoId, 1), Tried(r, 1)},
           request' = [request EXCEPT ![r] = new]
    PROVE  DirectoryInv'
<1>1. /\ directory' \in Seq([by : Registrars, owner : Owners])
      /\ Agents' = Agents \cup {n} /\ n \in Nat \ {NoId}
      /\ \A m \in Agents : directory'[m] = directory[m]
      /\ directory'[n].by = r
      /\ AgentsOf(r)' = AgentsOf(r) \cup {n}
      /\ \A q : q # r => AgentsOf(q)' = AgentsOf(q)
  BY DirectoryGrows DEF DirectoryInv
<1>2. new \in Requests
  <2>1. NoId \in Nat /\ 0 \in {0, 1} /\ 1 \in {0, 1} /\ DirectoryTypeOK
    BY DEF NoId, DirectoryInv
  <2>2. Answers(r, n, 0) \in Requests
    BY <1>1, <2>1, RequestSteps
  <2>3. Answers(r, NoId, 1) \in Requests /\ Tried(r, 1) \in Requests
    BY <2>1, RequestSteps
  <2> QED BY <2>2, <2>3
<1>3. /\ request \in [Registrars -> Requests]
      /\ request'[r] = new
      /\ \A q \in Registrars : q # r => request'[q] = request[q]
      /\ request' \in [Registrars -> Requests]
  BY <1>2, DirectoryFacts DEF DirectoryInv
<1>4. /\ request[r].id = NoId /\ request[r].unanswered \in Nat /\ request[r].tries \in 0..Retries
      /\ IsFiniteSet(AgentsOf(r)) /\ Cardinality(AgentsOf(r)) \in Nat
      /\ Cardinality(AgentsOf(r)) <= request[r].unanswered
      /\ NoId \notin AgentsOf(r)
  <2>1. request[r] \in Requests
    BY <1>3
  <2>2. AgentsOf(r) \ {NoId} = AgentsOf(r)
    BY DirectoryFacts DEF DirectoryInv
  <2> QED BY <2>1, <2>2, DirectoryFacts DEF DirectoryInv, KnownInv, Requests
<1>5. DirectoryTypeOK'
  BY <1>1, <1>3 DEF DirectoryTypeOK, Requests
<1>6. KnownInv'
  <2>1. ASSUME NEW q \in Registrars, q # r
        PROVE  /\ request'[q] = request[q] /\ AgentsOf(q)' = AgentsOf(q)
    BY <1>1, <1>3, <2>1
  <2>2. Cardinality(AgentsOf(r) \cup {n}) \in Nat
        /\ Cardinality(AgentsOf(r) \cup {n}) <= request[r].unanswered + 1
    <3>1. Cardinality(AgentsOf(r) \cup {n}) =
            IF n \in AgentsOf(r) THEN Cardinality(AgentsOf(r)) ELSE Cardinality(AgentsOf(r)) + 1
      BY <1>4, FS_AddElement
    <3> QED BY <1>4, <3>1
  <2>3. /\ new.state # "none"
        /\ new.state = "sending" => new.id = NoId
        /\ new.id # NoId => new.id = n
        /\ new.state = "answered" /\ new.id = NoId => new.unanswered > 0
        /\ \/ new.id = n /\ new.unanswered = request[r].unanswered
           \/ new.id = NoId /\ new.unanswered = request[r].unanswered + 1
    <3>1. CASE new = Answers(r, n, 0)
      BY <1>1, <1>4, <3>1 DEF Answers
    <3>2. CASE new = Answers(r, NoId, 1)
      BY <1>4, <3>2 DEF Answers
    <3>3. CASE new = Tried(r, 1)
      BY <1>4, <3>3 DEF Tried
    <3> QED BY <3>1, <3>2, <3>3
  <2>4. Cardinality((AgentsOf(r) \cup {n}) \ {new.id}) <= new.unanswered
    <3>1. CASE new.id = n /\ new.unanswered = request[r].unanswered
      <4>1. (AgentsOf(r) \cup {n}) \ {n} \in SUBSET AgentsOf(r)
        OBVIOUS
      <4>2. Cardinality((AgentsOf(r) \cup {n}) \ {n}) <= Cardinality(AgentsOf(r))
            /\ Cardinality((AgentsOf(r) \cup {n}) \ {n}) \in Nat
        BY <1>4, <4>1, FS_Subset, FS_CardinalityType
      <4> QED BY <1>4, <3>1, <4>2
    <3>2. CASE new.id = NoId /\ new.unanswered = request[r].unanswered + 1
      <4>1. (AgentsOf(r) \cup {n}) \ {NoId} = AgentsOf(r) \cup {n}
        BY <1>1, <1>4
      <4> QED BY <2>2, <3>2, <4>1
    <3> QED BY <2>3, <3>1, <3>2
  <2> QED BY <1>1, <1>3, <2>1, <2>3, <2>4 DEF DirectoryInv, KnownInv
<1>7. NumberedInv'
  <2>1. PICK f \in [Agents -> 0..Retries] : IsNumbering(f)
    BY DEF DirectoryInv, NumberedInv
  <2>2. /\ new.state = "sending" => new.tries = request[r].tries + 1
        /\ new.tries \in Nat
    BY <1>2, <1>4 DEF Answers, Tried, Requests
  <2>3. CASE n \in Agents
    <3>1. Agents' = Agents /\ \A m \in Agents : directory'[m] = directory[m]
      BY <1>1, <2>3
    <3>2. ASSUME NEW m \in Agents, request'[directory[m].by].state = "sending"
          PROVE  f[m] < request'[directory[m].by].tries
      <4>1. directory[m].by \in Registrars /\ f[m] \in 0..Retries
        BY <2>1, DirectoryFacts DEF DirectoryInv
      <4>2. CASE directory[m].by = r
        BY <1>3, <1>4, <2>1, <2>2, <3>2, <4>1, <4>2 DEF IsNumbering
      <4>3. CASE directory[m].by # r
        BY <1>3, <2>1, <3>2, <4>1, <4>3 DEF IsNumbering
      <4> QED BY <4>2, <4>3
    <3>3. IsNumbering(f)'
      BY <2>1, <3>1, <3>2 DEF IsNumbering
    <3> QED BY <2>1, <3>1, <3>3 DEF NumberedInv
  <2>4. CASE n \notin Agents
    <3>1. PICK g \in [Agents' -> 0..Retries] :
             g[n] = request[r].tries /\ \A m \in Agents : g[m] = f[m]
      <4> DEFINE h == [m \in Agents' |-> IF m = n THEN request[r].tries ELSE f[m]]
      <4>1. h \in [Agents' -> 0..Retries]
        BY <1>1, <1>4, <2>1
      <4>2. h[n] = request[r].tries /\ \A m \in Agents : h[m] = f[m]
        BY <1>1, <2>4
      <4> HIDE DEF h
      <4> QED BY <4>1, <4>2
    <3>2. g[n] = request[r].tries /\ \A m \in Agents : g[m] = f[m] /\ m # n
      BY <2>4, <3>1
    <3>3. \A m \in Agents : directory[m].by = r => f[m] < request[r].tries
      BY <2>1 DEF IsNumbering
    <3>4. ASSUME NEW m \in Agents', request'[directory'[m].by].state = "sending"
          PROVE  g[m] < request'[directory'[m].by].tries
      <4>1. CASE m = n
        BY <1>1, <1>3, <1>4, <2>2, <3>2, <3>4, <4>1
      <4>2. CASE m # n
        <5>1. m \in Agents /\ directory'[m] = directory[m] /\ g[m] = f[m]
              /\ f[m] \in 0..Retries /\ directory[m].by \in Registrars
          BY <1>1, <2>1, <3>2, <4>2, DirectoryFacts DEF DirectoryInv
        <5>2. CASE directory[m].by = r
          BY <1>3, <1>4, <2>2, <3>3, <3>4, <5>1, <5>2
        <5>3. CASE directory[m].by # r
          BY <1>3, <2>1, <3>4, <5>1, <5>3 DEF IsNumbering
        <5> QED BY <5>2, <5>3
      <4> QED BY <4>1, <4>2
    <3>5. ASSUME NEW m \in Agents', NEW k \in Agents', m # k, directory'[m].by = directory'[k].by
          PROVE  g[m] # g[k]
      <4>1. CASE m = n
        <5>1. k \in Agents /\ directory[k].by = r /\ g[k] = f[k] /\ f[k] \in 0..Retries
          BY <1>1, <2>1, <3>2, <3>5, <4>1
        <5> QED BY <1>4, <3>2, <3>3, <4>1, <5>1
      <4>2. CASE k = n
        <5>1. m \in Agents /\ directory[m].by = r /\ g[m] = f[m] /\ f[m] \in 0..Retries
          BY <1>1, <2>1, <3>2, <3>5, <4>2
        <5> QED BY <1>4, <3>2, <3>3, <4>2, <5>1
      <4>3. CASE m # n /\ k # n
        BY <1>1, <2>1, <3>2, <3>5, <4>3 DEF IsNumbering
      <4> QED BY <4>1, <4>2, <4>3
    <3>6. IsNumbering(g)'
      BY <3>4, <3>5 DEF IsNumbering
    <3> QED BY <3>1, <3>6 DEF NumberedInv
  <2> QED BY <2>3, <2>4
<1> QED BY <1>5, <1>6, <1>7 DEF DirectoryInv

\* The request changed and the list did not.
LEMMA StayStep ==
    ASSUME DirectoryInv, NEW r \in Registrars, UNCHANGED directory, NEW new,
           \/ request[r].state = "sending" /\ new \in {Tried(r, 0), Asked(r, "failed")}
           \/ request[r].state = "none" /\ new = Asked(r, "sending"),
           request' = [request EXCEPT ![r] = new]
    PROVE  DirectoryInv'
<1>1. Agents' = Agents /\ directory' = directory /\ \A q : AgentsOf(q)' = AgentsOf(q)
  BY DEF Agents, AgentsOf
<1>2. new \in Requests
  <2>1. 0 \in {0, 1} /\ NoId \in Nat /\ DirectoryTypeOK
    BY DEF NoId, DirectoryInv
  <2> QED BY <2>1, RequestSteps
<1>3. /\ request \in [Registrars -> Requests] /\ request[r] \in Requests
      /\ request'[r] = new
      /\ \A q \in Registrars : q # r => request'[q] = request[q]
      /\ request' \in [Registrars -> Requests]
  BY <1>2, DirectoryFacts DEF DirectoryInv
<1>4. /\ new.id = request[r].id /\ new.unanswered = request[r].unanswered
      /\ new.state \in {"sending", "failed"}
      /\ new.state = "sending" => /\ \/ new.tries = request[r].tries + 1
                                     \/ request[r].state = "none"
                                  /\ request[r].id = NoId
  <2>1. request[r].unanswered \in Nat /\ request[r].unanswered + 0 = request[r].unanswered
        /\ (request[r].state \in {"none", "sending"} => request[r].id = NoId)
    <3>1. request[r].unanswered \in Nat
      BY <1>3 DEF Requests
    <3>2. request[r].state \in {"none", "sending"} => request[r].id = NoId
      BY DEF DirectoryInv, KnownInv
    <3> QED BY <3>1, <3>2
  <2>2. CASE request[r].state = "sending" /\ new = Tried(r, 0)
    BY <2>1, <2>2 DEF Tried
  <2>3. CASE request[r].state = "sending" /\ new = Asked(r, "failed")
    BY <2>1, <2>3 DEF Asked
  <2>4. CASE request[r].state = "none" /\ new = Asked(r, "sending")
    BY <2>1, <2>4 DEF Asked
  <2> QED BY <2>2, <2>3, <2>4
<1>5. DirectoryTypeOK'
  BY <1>1, <1>3 DEF DirectoryInv, DirectoryTypeOK, Requests
<1>6. KnownInv'
  <2>1. ASSUME NEW q \in Registrars, q # r
        PROVE  request'[q] = request[q] /\ AgentsOf(q)' = AgentsOf(q)
    BY <1>1, <1>3, <2>1
  <2> QED BY <1>1, <1>3, <1>4, <2>1 DEF DirectoryInv, KnownInv
<1>7. NumberedInv'
  <2>1. PICK f \in [Agents -> 0..Retries] : IsNumbering(f)
    BY DEF DirectoryInv, NumberedInv
  <2>2. ASSUME NEW m \in Agents, request'[directory[m].by].state = "sending"
        PROVE  f[m] < request'[directory[m].by].tries
    <3>1. directory[m].by \in Registrars /\ f[m] \in 0..Retries
      BY <2>1, DirectoryFacts DEF DirectoryInv
    <3>2. CASE directory[m].by = r
      <4>1. request[r].state # "none"
        BY <3>2 DEF DirectoryInv, KnownInv, AgentsOf
      <4>2. f[m] < request[r].tries /\ new.tries = request[r].tries + 1
        BY <1>3, <1>4, <2>1, <2>2, <3>2, <4>1 DEF IsNumbering
      <4> QED BY <1>3, <3>1, <3>2, <4>2 DEF Requests
    <3>3. CASE directory[m].by # r
      BY <1>3, <2>1, <2>2, <3>1, <3>3 DEF IsNumbering
    <3> QED BY <3>2, <3>3
  <2>3. IsNumbering(f)'
    BY <1>1, <2>1, <2>2 DEF IsNumbering
  <2> QED BY <1>1, <2>1, <2>3 DEF NumberedInv
<1> QED BY <1>5, <1>6, <1>7 DEF DirectoryInv

\* Every step of a registrar's request keeps the invariant, and touches nobody
\* else's request or agents.
LEMMA DirectorySteps ==
    ASSUME DirectoryInv, NEW r \in Registrars, NEW owner \in Owners,
           \/ Attempt(r, owner)
           \/ AbandonRegister(r)
           \/ request[r].state = "none" /\ SendRegister(r) /\ UNCHANGED directory
    PROVE  /\ DirectoryInv'
           /\ \A q \in Registrars : q # r => request'[q] = request[q]
           /\ request'[r].state \in {"sending", "answered", "failed"}
           /\ Agents \subseteq Agents'
           /\ \A n \in Agents : directory'[n] = directory[n]
<1>0. DirectoryTypeOK /\ NoId \in Nat /\ 0 \in {0, 1} /\ 1 \in {0, 1} /\ NoId = 0
  BY DEF DirectoryInv, NoId
<1>1. ASSUME NEW new, request' = [request EXCEPT ![r] = new]
      PROVE  /\ \A q \in Registrars : q # r => request'[q] = request[q]
             /\ request'[r] = new
  BY <1>0, <1>1, DirectoryFacts
<1>2. CASE \E n \in 1..Len(directory) + 1 :
             /\ request[r].state = "sending" /\ Enter(r, owner, n)
             /\ Answered(r, n, 0) \/ Answered(r, NoId, 1) \/ Retried(r, 1)
  <2>1. PICK n \in 1..Len(directory) + 1 :
             /\ request[r].state = "sending" /\ Enter(r, owner, n)
             /\ Answered(r, n, 0) \/ Answered(r, NoId, 1) \/ Retried(r, 1)
    BY <1>2
  <2>2. n \in Nat
    BY <1>0, DirectoryFacts
  <2>3. PICK new \in {Answers(r, n, 0), Answers(r, NoId, 1), Tried(r, 1)} :
            request' = [request EXCEPT ![r] = new]
    <3>1. Answered(r, n, 0) => request' = [request EXCEPT ![r] = Answers(r, n, 0)]
      BY <1>0, <2>2, RequestSteps
    <3>2. Answered(r, NoId, 1) => request' = [request EXCEPT ![r] = Answers(r, NoId, 1)]
      BY <1>0, RequestSteps
    <3>3. Retried(r, 1) => request' = [request EXCEPT ![r] = Tried(r, 1)]
      BY <1>0, RequestSteps
    <3> QED BY <2>1, <3>1, <3>2, <3>3
  <2>4. new.state \in {"sending", "answered", "failed"}
    BY DEF Answers, Tried
  <2>5. DirectoryInv'
    BY <2>1, <2>3, EnterStep
  <2>6. Agents \subseteq Agents' /\ \A m \in Agents : directory'[m] = directory[m]
    BY <1>0, <2>1, DirectoryGrows
  <2> QED BY <1>1, <2>3, <2>4, <2>5, <2>6
<1>3. CASE /\ UNCHANGED directory
           /\ \/ request[r].state = "sending" /\ (Retried(r, 0) \/ GivenUp(r))
              \/ request[r].state = "none" /\ SendRegister(r)
  <2>1. PICK new : /\ request' = [request EXCEPT ![r] = new]
                   /\ \/ request[r].state = "sending" /\ new \in {Tried(r, 0), Asked(r, "failed")}
                      \/ request[r].state = "none" /\ new = Asked(r, "sending")
    <3>1. Retried(r, 0) => request' = [request EXCEPT ![r] = Tried(r, 0)]
      BY <1>0, RequestSteps
    <3>2. GivenUp(r) => request' = [request EXCEPT ![r] = Asked(r, "failed")]
      BY <1>0, RequestSteps
    <3>3. SendRegister(r) => request' = [request EXCEPT ![r] = Asked(r, "sending")]
      BY <1>0, RequestSteps
    <3> QED BY <1>3, <3>1, <3>2, <3>3
  <2>2. new.state \in {"sending", "answered", "failed"}
    BY <2>1 DEF Tried, Asked
  <2>3. DirectoryInv'
    BY <1>3, <2>1, StayStep
  <2>4. Agents' = Agents
    BY <1>3 DEF Agents
  <2> QED BY <1>1, <1>3, <2>1, <2>2, <2>3, <2>4
<1> QED BY <1>2, <1>3 DEF Attempt, AbandonRegister

LEMMA DirectoryStays == DirectoryInv /\ UNCHANGED directoryVars => DirectoryInv'
<1> SUFFICES ASSUME DirectoryInv, UNCHANGED directoryVars PROVE DirectoryInv'
  OBVIOUS
<1>1. directory' = directory /\ request' = request
  BY DEF directoryVars
<1>2. Agents' = Agents /\ \A q : AgentsOf(q)' = AgentsOf(q)
  BY <1>1 DEF Agents, AgentsOf
<1>3. DirectoryTypeOK'
  BY <1>1 DEF DirectoryInv, DirectoryTypeOK
<1>4. KnownInv'
  BY <1>1, <1>2 DEF DirectoryInv, KnownInv
<1>5. NumberedInv'
  BY <1>1, <1>2 DEF DirectoryInv, NumberedInv, IsNumbering
<1> QED BY <1>3, <1>4, <1>5 DEF DirectoryInv

-----------------------------------------------------------------------------
\* The life of a service.

\* The request is sent by the background goroutine, once.
HostInv ==
    /\ HostTypeOK
    /\ background = "start" => request[Host].state = "none"

LEMMA HostInvInit == DirectoryInit /\ HostInit => HostInv
<1> SUFFICES ASSUME DirectoryInit, HostInit PROVE HostInv
  OBVIOUS
<1>1. request[Host].state = "none"
  BY HostAssumption DEF DirectoryInit
<1> QED BY <1>1 DEF HostInit, HostInv, HostTypeOK

LEMMA HostInvStep ==
    DirectoryInv /\ HostInv /\ [HostNext]_<<directoryVars, hostVars>>
      => DirectoryInv' /\ HostInv'
<1> SUFFICES ASSUME DirectoryInv, HostInv, [HostNext]_<<directoryVars, hostVars>>
             PROVE  DirectoryInv' /\ HostInv'
  OBVIOUS
<1>0. Host \in Registrars /\ "user" \in Owners /\ HostTypeOK
  BY HostAssumption DEF Owners, HostInv
<1>1. CASE StartBackground
  <2>1. background' # "start" /\ HostTypeOK'
    BY <1>0, <1>1 DEF StartBackground, HostTypeOK
  <2>2. DirectoryInv'
    <3>1. CASE Configured /\ options.autoRegister
      <4>1. request[Host].state = "none" /\ SendRegister(Host) /\ UNCHANGED directory
        BY <1>1, <3>1 DEF StartBackground, HostInv
      <4> QED BY <1>0, <4>1, DirectorySteps
    <3>2. CASE ~(Configured /\ options.autoRegister)
      <4>1. UNCHANGED directoryVars
        BY <1>1, <3>2 DEF StartBackground, directoryVars
      <4> QED BY <4>1, DirectoryStays
    <3> QED BY <3>1, <3>2
  <2> QED BY <2>1, <2>2 DEF HostInv
<1>2. CASE HostAttempt
  <2>1. background' = "registering" /\ HostTypeOK'
    BY <1>0, <1>2 DEF HostAttempt, HostTypeOK, hostVars
  <2>2. DirectoryInv'
    BY <1>0, <1>2, DirectorySteps DEF HostAttempt
  <2> QED BY <2>1, <2>2 DEF HostInv
<1>3. CASE EndRegistration \/ StartPolling \/ SkipPolling \/ StopPolling
  <2>1. background' # "start" /\ UNCHANGED directoryVars
    BY <1>3 DEF EndRegistration, StartPolling, SkipPolling, StopPolling
  <2>2. HostTypeOK'
    BY <1>0, <1>3 DEF HostTypeOK, EndRegistration, StartPolling, SkipPolling, StopPolling
  <2> QED BY <2>1, <2>2, DirectoryStays DEF HostInv
<1>4. CASE Listen \/ BeginShutdown \/ EndShutdown \/ CancelHost
  <2>1. background' = background /\ UNCHANGED directoryVars /\ request' = request
    BY <1>4 DEF Listen, BeginShutdown, EndShutdown, CancelHost, directoryVars
  <2>2. HostTypeOK'
    BY <1>0, <1>4 DEF HostTypeOK, Listen, BeginShutdown, EndShutdown, CancelHost
  <2> QED BY <2>1, <2>2, DirectoryStays DEF HostInv
<1>5. CASE UNCHANGED <<directoryVars, hostVars>>
  <2>1. UNCHANGED directoryVars /\ request' = request /\ HostTypeOK' /\ background' = background
    BY <1>0, <1>5 DEF HostTypeOK, hostVars, directoryVars
  <2> QED BY <2>1, DirectoryStays DEF HostInv
<1> QED BY <1>1, <1>2, <1>3, <1>4, <1>5 DEF HostNext, Background, Shutdown

\* The states of a service and of its request are what they are said to be, for
\* any number of retries (server.Run, registerWithAIP, platform.Client.do).
THEOREM HostTypeCorrect == HostSpec => [](DirectoryTypeOK /\ HostTypeOK)
<1>1. DirectoryInv /\ HostInv => DirectoryTypeOK /\ HostTypeOK
  BY DEF DirectoryInv, HostInv
<1>2. DirectoryInit /\ HostInit => DirectoryInv /\ HostInv
  BY DirectoryInvInit, HostInvInit
<1> QED BY <1>1, <1>2, HostInvStep, PTL DEF HostSpec

-----------------------------------------------------------------------------
\* The registry client.

\* A registering goroutine sends its request once, through the gateway in
\* gateway mode, and is done when the answer is in.
CallInv == \A c \in RegCallers :
    /\ regCall[c] \in {"idle", "refused"} => request[c].state = "none"
    /\ regCall[c] = "platform" => request[c].state \in {"sending", "answered", "failed"}
    /\ regCall[c] = "done" => request[c].state \in {"answered", "failed"}
    /\ mode = "gateway" /\ regCall[c] \in {"platform", "done"} => c \in atGateway

\* An id that is tracked is the platform's, or the local one of a goroutine
\* that was left without.
KnownId(id) ==
    \/ \E n \in Agents : id = Platform(n)
    \/ \E c \in RegCallers : id = Local(c) /\ regCall[c] = "done" /\ RegisteredId(c) = id
TrackedInv ==
    /\ \A id \in DOMAIN identities : KnownId(id)
    /\ \A c \in RegCallers : regCall[c] = "done" => RegisteredId(c) \in DOMAIN identities

\* The map of an identity is the one of the goroutine that registered the
\* agent, or that of a goroutine that looked the agent up at the platform and
\* stored what it found.
Covers(l, id) == lookup[l].stage = "used" /\ lookup[l].id = id /\ lookup[l].map = l
OwnerOf(map, id) ==
    \/ map \in RegCallers /\ regCall[map] = "done" /\ RegisteredId(map) = id
    \/ map \in Lookers /\ Covers(map, id)

LookedInv == \A l \in Lookers :
    /\ lookup[l].stage \in {"local", "used"} => lookup[l].id \in DOMAIN identities
    /\ lookup[l].stage \in {"query", "found", "nil", "error"} =>
         \E n \in Agents : /\ lookup[l].id = Platform(n)
                           /\ lookup[l].listed => directory[n].owner = "system"
    /\ lookup[l].stage = "found" => lookup[l].map = l
    /\ lookup[l].stage = "local" => OwnerOf(lookup[l].map, lookup[l].id)

\* The updates of an id went into the registering goroutine's own map, as long
\* as no other map was stored over it.
MapsInv ==
    /\ \A id \in DOMAIN identities : OwnerOf(identities[id], id)
    /\ \A id \in AgentIds \ DOMAIN identities : accepted[id] = {}
    /\ \A c \in RegCallers :
         /\ regCall[c] # "done" => metadata[c] = {}
         /\ regCall[c] = "done" => \/ metadata[c] = accepted[RegisteredId(c)]
                                   \/ \E l \in Lookers : Covers(l, RegisteredId(c))

RegistryInv == RegistryTypeOK /\ CallInv /\ TrackedInv /\ LookedInv /\ MapsInv /\ LookupHonest

\* Ids of different agents are different.
LEMMA IdsDiffer ==
    /\ \A m, n : Platform(m) = Platform(n) => m = n
    /\ \A c, d : Local(c) = Local(d) => c = d
    /\ \A n, c : Platform(n) # Local(c)
    /\ \A n : Platform(n)[2] = n
BY DEF Platform, Local

LEMMA IdsAreIds ==
    ASSUME DirectoryInv
    PROVE  /\ \A n \in Agents : Platform(n) \in AgentIds
           /\ \A c \in RegCallers : Local(c) \in AgentIds
<1>1. ASSUME NEW n \in Agents PROVE Platform(n) \in AgentIds
  BY DirectoryIsBounded DEF AgentIds, PlatformIds
<1>2. ASSUME NEW c \in RegCallers PROVE Local(c) \in AgentIds
  BY DEF AgentIds
<1> QED BY <1>1, <1>2

\* The id that a registering goroutine ends up with is of its own agent.
LEMMA RegisteredIdIs ==
    ASSUME DirectoryInv, NEW c \in RegCallers
    PROVE  \/ /\ RegisteredId(c) = Platform(request[c].id)
              /\ request[c].id \in AgentsOf(c) /\ request[c].id \in Agents
           \/ /\ RegisteredId(c) = Local(c)
              /\ request[c].state # "answered" \/ request[c].unanswered > 0
<1>1. c \in Registrars
  BY RegistryAssumption
<1> QED BY <1>1 DEF RegisteredId, DirectoryInv, KnownInv, AgentsOf

LEMMA RegisteredIdsDiffer ==
    ASSUME DirectoryInv, NEW c \in RegCallers, NEW d \in RegCallers,
           RegisteredId(c) = RegisteredId(d)
    PROVE  c = d
<1>1. CASE RegisteredId(c) = Local(c)
  <2>1. RegisteredId(d) = Platform(request[d].id) \/ RegisteredId(d) = Local(d)
    BY RegisteredIdIs
  <2> QED BY <1>1, <2>1, IdsDiffer
<1>2. CASE RegisteredId(d) = Local(d)
  <2>1. RegisteredId(c) = Platform(request[c].id) \/ RegisteredId(c) = Local(c)
    BY RegisteredIdIs
  <2> QED BY <1>2, <2>1, IdsDiffer
<1>3. CASE RegisteredId(c) # Local(c) /\ RegisteredId(d) # Local(d)
  <2>1. request[c].id = request[d].id /\ request[c].id \in AgentsOf(c)
        /\ request[d].id \in AgentsOf(d)
    BY <1>3, RegisteredIdIs, IdsDiffer
  <2> QED BY <2>1 DEF AgentsOf
<1> QED BY <1>1, <1>2, <1>3

\* A platform that has entered more agents has no fewer of a user's.
OwnedBy(owner) == {n \in Agents : directory[n].owner = owner}

LEMMA OwnedGrows ==
    ASSUME DirectoryInv, DirectoryInv', Agents \subseteq Agents',
           \A n \in Agents : directory'[n] = directory[n], NEW owner
    PROVE  /\ Cardinality(OwnedBy(owner)) \in Nat
           /\ Cardinality(OwnedBy(owner)') \in Nat
           /\ Cardinality(OwnedBy(owner)) <= Cardinality(OwnedBy(owner)')
<1>1. IsFiniteSet(Agents')
  <2>1. Agents' = 1..Len(directory') /\ Len(directory') \in Nat
    <3>1. directory' \in Seq([by : Registrars, owner : Owners]) /\ Agents' = DOMAIN directory'
      BY DEF DirectoryInv, DirectoryTypeOK, Agents
    <3> QED BY <3>1, LenProperties
  <2> QED BY <2>1, FS_Interval
<1>2. OwnedBy(owner)' = {n \in Agents' : directory'[n].owner = owner}
  BY DEF OwnedBy
<1>3. OwnedBy(owner)' \in SUBSET Agents' /\ OwnedBy(owner) \in SUBSET (OwnedBy(owner)')
  BY <1>2 DEF OwnedBy
<1>4. IsFiniteSet(OwnedBy(owner)')
  BY <1>1, <1>3, FS_Subset
<1> QED BY <1>3, <1>4, FS_Subset, FS_CardinalityType

LEMMA OwnedIsFinite ==
    ASSUME DirectoryInv, NEW owner
    PROVE  IsFiniteSet(OwnedBy(owner)) /\ Cardinality(OwnedBy(owner)) \in Nat
<1>1. IsFiniteSet(Agents)
  <2>1. Agents = 1..Len(directory) /\ Len(directory) \in Nat
    BY DirectoryFacts DEF DirectoryInv
  <2> QED BY <2>1, FS_Interval
<1>2. OwnedBy(owner) \in SUBSET Agents
  BY DEF OwnedBy
<1> QED BY <1>1, <1>2, FS_Subset, FS_CardinalityType

\* A page that is not full has them all.
LEMMA PageHasAll ==
    ASSUME DirectoryInv, NEW owner, NEW page \in Page(owner),
           Cardinality(OwnedBy(owner)) <= PageLimit
    PROVE  page = OwnedBy(owner)
<1>1. IsFiniteSet(OwnedBy(owner)) /\ Cardinality(OwnedBy(owner)) \in Nat
  BY OwnedIsFinite
<1>2. page \in SUBSET OwnedBy(owner)
      /\ Cardinality(page) = IF Cardinality(OwnedBy(owner)) < PageLimit
                             THEN Cardinality(OwnedBy(owner)) ELSE PageLimit
  BY DEF Page, OwnedBy
<1>3. Cardinality(page) = Cardinality(OwnedBy(owner))
  BY <1>1, <1>2, DirectoryAssumption
<1> QED BY <1>1, <1>2, <1>3, FS_Subset

LEMMA RegistryInvInit == DirectoryInit /\ RegistryInit => RegistryInv
<1> SUFFICES ASSUME DirectoryInit, RegistryInit PROVE RegistryInv
  OBVIOUS
<1>1. RegistryTypeOK
  BY DEF RegistryInit, RegistryTypeOK, NoLookup
<1>2. CallInv /\ TrackedInv
  BY RegistryAssumption DEF RegistryInit, DirectoryInit, CallInv, TrackedInv
<1>3. LookedInv /\ LookupHonest
  BY DEF RegistryInit, LookedInv, LookupHonest, NoLookup
<1>4. MapsInv
  BY DEF RegistryInit, MapsInv, MetadataMaps
<1> QED BY <1>1, <1>2, <1>3, <1>4 DEF RegistryInv

\* What the steps of the registry client leave as it is, when the platform's
\* list has only grown: the calls that are done keep their ids, what is tracked
\* stays tracked, and the maps keep their owners.
LEMMA RegistryFrame ==
    ASSUME DirectoryInv, RegistryInv, DirectoryInv',
           Agents \subseteq Agents', \A n \in Agents : directory'[n] = directory[n],
           \A c \in RegCallers : regCall[c] = "done" =>
               regCall'[c] = "done" /\ request'[c] = request[c],
           \A l \in Lookers : lookup[l].stage = "used" => lookup'[l] = lookup[l]
    PROVE  /\ \A c \in RegCallers : regCall[c] = "done" => RegisteredId(c)' = RegisteredId(c)
           /\ \A id : KnownId(id) => KnownId(id)'
           /\ \A l, id : l \in Lookers /\ Covers(l, id) => Covers(l, id)'
           /\ \A map, id : OwnerOf(map, id) => OwnerOf(map, id)'
           /\ \A n \in Agents : n \in Agents'
<1>1. ASSUME NEW c \in RegCallers, regCall[c] = "done"
      PROVE  RegisteredId(c)' = RegisteredId(c)
  <2>1. request'[c] = request[c]
    BY <1>1
  <2> QED BY <2>1 DEF RegisteredId
<1>2. ASSUME NEW id, KnownId(id) PROVE KnownId(id)'
  <2>1. CASE \E n \in Agents : id = Platform(n)
    BY <2>1 DEF KnownId
  <2>2. CASE \E c \in RegCallers : id = Local(c) /\ regCall[c] = "done" /\ RegisteredId(c) = id
    BY <1>1, <2>2 DEF KnownId
  <2> QED BY <1>2, <2>1, <2>2 DEF KnownId
<1>3. ASSUME NEW l \in Lookers, NEW id, Covers(l, id) PROVE Covers(l, id)'
  BY <1>3 DEF Covers
<1>4. ASSUME NEW map, NEW id, OwnerOf(map, id) PROVE OwnerOf(map, id)'
  <2>1. CASE map \in RegCallers /\ regCall[map] = "done" /\ RegisteredId(map) = id
    BY <1>1, <2>1 DEF OwnerOf
  <2>2. CASE map \in Lookers /\ Covers(map, id)
    BY <1>3, <2>2 DEF OwnerOf
  <2> QED BY <1>4, <2>1, <2>2 DEF OwnerOf
<1> QED BY <1>1, <1>2, <1>3, <1>4

\* A lookup that answered nil for an agent that was listed stays justified.
LEMMA LookupStays ==
    ASSUME DirectoryInv, RegistryInv, DirectoryInv',
           Agents \subseteq Agents', \A n \in Agents : directory'[n] = directory[n],
           \A l \in Lookers : lookup'[l].stage = "nil" /\ lookup'[l].listed =>
               lookup[l].stage = "nil" /\ lookup[l].listed
    PROVE  LookupHonest'
<1>1. /\ Cardinality(OwnedBy("system")) \in Nat /\ Cardinality(OwnedBy("system")') \in Nat
      /\ Cardinality(OwnedBy("system")) <= Cardinality(OwnedBy("system")')
  BY OwnedGrows
<1>2. ASSUME NEW l \in Lookers, lookup'[l].stage = "nil", lookup'[l].listed
      PROVE  Cardinality(OwnedBy("system")') > PageLimit
  <2>1. Cardinality(OwnedBy("system")) > PageLimit
    BY <1>2 DEF RegistryInv, LookupHonest, OwnedBy
  <2> QED BY <1>1, <2>1, DirectoryAssumption
<1> QED BY <1>2 DEF LookupHonest, OwnedBy

\* A step of a call that is not done yet.
LEMMA CallStep ==
    ASSUME DirectoryInv, RegistryInv, DirectoryInv',
           Agents \subseteq Agents', \A n \in Agents : directory'[n] = directory[n],
           NEW c \in RegCallers, regCall[c] \in {"idle", "platform"},
           \A q \in Registrars : q # c => request'[q] = request[q],
           UNCHANGED <<mode, regOwner, identities, metadata, accepted, lookup>>,
           NEW stage \in {"platform", "refused"},
           regCall' = [regCall EXCEPT ![c] = stage],
           atGateway \subseteq atGateway', atGateway' \subseteq atGateway \cup {c},
           stage = "refused" => request'[c].state = "none",
           stage = "platform" => /\ request'[c].state \in {"sending", "answered", "failed"}
                                 /\ mode = "gateway" => c \in atGateway'
    PROVE  RegistryInv'
<1>1. /\ RegistryTypeOK /\ CallInv /\ TrackedInv /\ LookedInv /\ MapsInv
      /\ mode' = mode /\ identities' = identities /\ metadata' = metadata
      /\ accepted' = accepted /\ lookup' = lookup /\ regOwner' = regOwner
      /\ regCall \in [RegCallers -> {"idle", "platform", "refused", "done"}]
  BY DEF RegistryInv, RegistryTypeOK
<1>2. /\ regCall'[c] = stage /\ stage # "done" /\ regCall[c] # "done"
      /\ \A q \in RegCallers : q # c => regCall'[q] = regCall[q] /\ request'[q] = request[q]
  BY <1>1, RegistryAssumption
<1>3. /\ \A q \in RegCallers : regCall[q] = "done" <=> regCall'[q] = "done"
      /\ \A q \in RegCallers : regCall[q] = "done" => request'[q] = request[q]
  BY <1>2
<1>4. /\ \A q \in RegCallers : regCall[q] = "done" => RegisteredId(q)' = RegisteredId(q)
      /\ \A id : KnownId(id) => KnownId(id)'
      /\ \A l, id : l \in Lookers /\ Covers(l, id) => Covers(l, id)'
      /\ \A map, id : OwnerOf(map, id) => OwnerOf(map, id)'
  BY <1>1, <1>3, RegistryFrame
<1>5. RegistryTypeOK'
  <2>1. regCall' \in [RegCallers -> {"idle", "platform", "refused", "done"}]
    BY <1>1
  <2>2. atGateway' \subseteq RegCallers
    BY <1>1 DEF RegistryTypeOK
  <2> QED BY <1>1, <2>1, <2>2 DEF RegistryTypeOK
<1>6. CallInv'
  <2>1. ASSUME NEW q \in RegCallers, q # c
        PROVE  /\ regCall'[q] \in {"idle", "refused"} => request'[q].state = "none"
               /\ regCall'[q] = "platform" => request'[q].state \in {"sending", "answered", "failed"}
               /\ regCall'[q] = "done" => request'[q].state \in {"answered", "failed"}
               /\ mode' = "gateway" /\ regCall'[q] \in {"platform", "done"} => q \in atGateway'
    <3>1. regCall'[q] = regCall[q] /\ request'[q] = request[q]
      BY <1>2, <2>1
    <3> QED BY <1>1, <3>1 DEF CallInv
  <2> QED BY <1>1, <1>2, <2>1 DEF CallInv
<1>7. TrackedInv'
  BY <1>1, <1>3, <1>4 DEF TrackedInv
<1>8. LookedInv'
  BY <1>1, <1>4 DEF LookedInv
<1>9. MapsInv'
  <2>1. \A id \in DOMAIN identities' : OwnerOf(identities[id], id)'
    BY <1>1, <1>4 DEF MapsInv
  <2>2. ASSUME NEW q \in RegCallers
        PROVE  /\ regCall'[q] # "done" => metadata[q] = {}
               /\ regCall'[q] = "done" => \/ metadata[q] = accepted[RegisteredId(q)']
                                          \/ \E l \in Lookers : Covers(l, RegisteredId(q))'
    BY <1>1, <1>3, <1>4 DEF MapsInv
  <2> QED BY <1>1, <2>1, <2>2 DEF MapsInv
<1>10. LookupHonest'
  BY <1>1, LookupStays
<1> QED BY <1>5, <1>6, <1>7, <1>8, <1>9, <1>10 DEF RegistryInv

\* A step that leaves the platform and the goroutines that register alone.
LEMMA StillDirectory ==
    ASSUME DirectoryInv, UNCHANGED directoryVars
    PROVE  /\ DirectoryInv' /\ directory' = directory /\ request' = request
           /\ Agents' = Agents
           /\ \A c : RegisteredId(c)' = RegisteredId(c)
<1>1. DirectoryInv'
  BY DirectoryStays
<1>2. directory' = directory /\ request' = request
  BY DEF directoryVars
<1> QED BY <1>1, <1>2 DEF Agents, RegisteredId

LEMMA PutIs ==
    ASSUME NEW id, NEW map, Put(id, map)
    PROVE  /\ DOMAIN identities' = DOMAIN identities \cup {id}
           /\ identities'[id] = map
           /\ \A i \in DOMAIN identities : i # id => identities'[i] = identities[i]
BY DEF Put

LEMMA StoreStep ==
    ASSUME DirectoryInv, RegistryInv, NEW c \in RegCallers, StoreIdentity(c)
    PROVE  DirectoryInv' /\ RegistryInv'
<1>0. PICK new : new = RegisteredId(c)
  OBVIOUS
<1>1. /\ regCall[c] = "platform" /\ request[c].state \in {"answered", "failed"}
      /\ Put(new, c) /\ regCall' = [regCall EXCEPT ![c] = "done"]
      /\ UNCHANGED <<mode, atGateway, regOwner, metadata, accepted, lookup>>
      /\ UNCHANGED directoryVars
  BY <1>0 DEF StoreIdentity
<1>2. /\ DirectoryInv' /\ directory' = directory /\ request' = request /\ Agents' = Agents
      /\ \A d : RegisteredId(d)' = RegisteredId(d)
  BY <1>1, StillDirectory
<1>3. /\ RegistryTypeOK /\ CallInv /\ TrackedInv /\ LookedInv /\ MapsInv
      /\ regCall \in [RegCallers -> {"idle", "platform", "refused", "done"}]
  BY DEF RegistryInv, RegistryTypeOK
<1>4. /\ regCall'[c] = "done"
      /\ \A d \in RegCallers : d # c => regCall'[d] = regCall[d]
      /\ \A d \in RegCallers : regCall[d] = "done" => regCall'[d] = "done" /\ d # c
  BY <1>1, <1>3
<1>5. /\ \A id : KnownId(id) => KnownId(id)'
      /\ \A l, id : l \in Lookers /\ Covers(l, id) => Covers(l, id)'
      /\ \A map, id : OwnerOf(map, id) => OwnerOf(map, id)'
  BY <1>1, <1>2, <1>4, RegistryFrame
<1>6. /\ DOMAIN identities' = DOMAIN identities \cup {new} /\ identities'[new] = c
      /\ \A i \in DOMAIN identities : i # new => identities'[i] = identities[i]
  BY <1>1, PutIs
<1>7. new \in AgentIds /\ KnownId(new)' /\ OwnerOf(c, new)'
  <2>1. \/ new = Platform(request[c].id) /\ request[c].id \in Agents
        \/ new = Local(c)
    BY <1>0, RegisteredIdIs
  <2>2. new \in AgentIds
    BY <2>1, IdsAreIds
  <2>3. RegisteredId(c)' = new /\ regCall'[c] = "done"
    BY <1>0, <1>2, <1>4
  <2>4. OwnerOf(c, new)'
    BY <2>3 DEF OwnerOf
  <2>5. KnownId(new)'
    BY <1>2, <2>1, <2>3 DEF KnownId
  <2> QED BY <2>2, <2>4, <2>5
<1>8. RegistryTypeOK'
  <2>1. regCall' \in [RegCallers -> {"idle", "platform", "refused", "done"}]
    BY <1>1, <1>3
  <2>2. DOMAIN identities' \subseteq AgentIds
    BY <1>3, <1>6, <1>7 DEF RegistryTypeOK
  <2>3. \A id \in DOMAIN identities' : identities'[id] \in MetadataMaps
    BY <1>3, <1>6 DEF RegistryTypeOK, MetadataMaps
  <2> QED BY <1>1, <1>3, <2>1, <2>2, <2>3 DEF RegistryTypeOK
<1>9. CallInv'
  BY <1>1, <1>2, <1>3, <1>4 DEF CallInv
<1>10. TrackedInv'
  <2>1. \A id \in DOMAIN identities' : KnownId(id)'
    BY <1>3, <1>5, <1>6, <1>7 DEF TrackedInv
  <2>2. \A d \in RegCallers : regCall'[d] = "done" => RegisteredId(d)' \in DOMAIN identities'
    BY <1>0, <1>2, <1>3, <1>4, <1>6 DEF TrackedInv
  <2> QED BY <2>1, <2>2 DEF TrackedInv
<1>11. LookedInv'
  BY <1>1, <1>2, <1>3, <1>5, <1>6 DEF LookedInv
<1>12. MapsInv'
  <2>1. \A id \in DOMAIN identities' : OwnerOf(identities[id], id)'
    BY <1>3, <1>5, <1>6, <1>7 DEF MapsInv
  <2>2. \A id \in AgentIds \ DOMAIN identities' : accepted'[id] = {}
    BY <1>1, <1>3, <1>6 DEF MapsInv
  <2>3. metadata[c] = accepted[new] \/ \E l \in Lookers : Covers(l, new)
    <3>1. metadata[c] = {}
      BY <1>1, <1>3 DEF MapsInv
    <3>2. CASE new \notin DOMAIN identities
      BY <1>3, <1>7, <3>1, <3>2 DEF MapsInv
    <3>3. CASE new \in DOMAIN identities
      <4>1. OwnerOf(identities[new], new)
        BY <1>3, <3>3 DEF MapsInv
      <4>2. ASSUME identities[new] \in RegCallers, regCall[identities[new]] = "done",
                   RegisteredId(identities[new]) = new
            PROVE  FALSE
        <5>1. identities[new] = c
          BY <1>0, <4>2, RegisteredIdsDiffer
        <5> QED BY <1>1, <4>2, <5>1
      <4> QED BY <4>1, <4>2 DEF OwnerOf
    <3> QED BY <3>2, <3>3
  <2>4. ASSUME NEW d \in RegCallers
        PROVE  /\ regCall'[d] # "done" => metadata'[d] = {}
               /\ regCall'[d] = "done" => \/ metadata'[d] = accepted'[RegisteredId(d)']
                                          \/ \E l \in Lookers : Covers(l, RegisteredId(d))'
    <3>0. metadata' = metadata /\ accepted' = accepted /\ RegisteredId(d)' = RegisteredId(d)
      BY <1>1, <1>2
    <3>1. CASE d = c
      BY <1>0, <1>4, <1>5, <2>3, <3>0, <3>1
    <3>2. CASE d # c
      BY <1>3, <1>4, <1>5, <3>0, <3>2 DEF MapsInv
    <3> QED BY <3>1, <3>2
  <2> QED BY <2>1, <2>2, <2>4 DEF MapsInv
<1>13. LookupHonest'
  BY <1>1, <1>2, LookupStays
<1> QED BY <1>2, <1>8, <1>9, <1>10, <1>11, <1>12, <1>13 DEF RegistryInv

LEMMA UpdateStep ==
    ASSUME DirectoryInv, RegistryInv, NEW c \in RegCallers, UpdateAgentMetadata(c)
    PROVE  DirectoryInv' /\ RegistryInv'
<1>1. PICK u \in 1..MaxUpdates, id \in DOMAIN identities :
      /\ metadata' = [metadata EXCEPT ![identities[id]] = @ \cup {u}]
      /\ accepted' = [accepted EXCEPT ![id] = @ \cup {u}]
      /\ UNCHANGED <<mode, atGateway, regCall, regOwner, identities, lookup>>
      /\ UNCHANGED directoryVars
  BY DEF UpdateAgentMetadata
<1> DEFINE map == identities[id]
<1>2. /\ DirectoryInv' /\ directory' = directory /\ request' = request /\ Agents' = Agents
      /\ \A d : RegisteredId(d)' = RegisteredId(d)
  BY <1>1, StillDirectory
<1>3. /\ RegistryTypeOK /\ CallInv /\ TrackedInv /\ LookedInv /\ MapsInv
      /\ regCall' = regCall /\ identities' = identities /\ lookup' = lookup
      /\ mode' = mode /\ atGateway' = atGateway /\ regOwner' = regOwner
  BY <1>1 DEF RegistryInv
<1>4. /\ \A i : KnownId(i) => KnownId(i)'
      /\ \A l, i : l \in Lookers /\ Covers(l, i) => Covers(l, i)'
      /\ \A m, i : OwnerOf(m, i) => OwnerOf(m, i)'
  BY <1>2, <1>3, RegistryFrame
<1>5. /\ id \in AgentIds /\ map \in MetadataMaps /\ OwnerOf(map, id)
      /\ metadata \in [MetadataMaps -> SUBSET (1..MaxUpdates)]
      /\ accepted \in [AgentIds -> SUBSET (1..MaxUpdates)]
  BY <1>3 DEF RegistryTypeOK, MapsInv
<1> HIDE DEF map
<1>6. /\ metadata' = [metadata EXCEPT ![map] = @ \cup {u}]
      /\ metadata'[map] = metadata[map] \cup {u}
      /\ \A m \in MetadataMaps : m # map => metadata'[m] = metadata[m]
      /\ accepted'[id] = accepted[id] \cup {u}
      /\ \A i \in AgentIds : i # id => accepted'[i] = accepted[i]
  BY <1>1, <1>5 DEF map
<1>7. RegistryTypeOK'
  <2>1. metadata' \in [MetadataMaps -> SUBSET (1..MaxUpdates)]
        /\ accepted' \in [AgentIds -> SUBSET (1..MaxUpdates)]
    <3>1. metadata[map] \cup {u} \in SUBSET (1..MaxUpdates)
          /\ accepted[id] \cup {u} \in SUBSET (1..MaxUpdates)
      BY <1>5
    <3> QED BY <1>1, <1>5, <1>6, <3>1
  <2> QED BY <1>3, <2>1 DEF RegistryTypeOK
<1>8. CallInv' /\ TrackedInv'
  BY <1>2, <1>3, <1>4 DEF CallInv, TrackedInv
<1>9. LookedInv'
  BY <1>2, <1>3, <1>4 DEF LookedInv
<1>10. MapsInv'
  <2>1. \A i \in DOMAIN identities' : OwnerOf(identities[i], i)'
    BY <1>3, <1>4 DEF MapsInv
  <2>2. \A i \in AgentIds \ DOMAIN identities' : accepted'[i] = {}
    BY <1>1, <1>3, <1>6 DEF MapsInv
  <2>3. ASSUME NEW d \in RegCallers
        PROVE  /\ regCall'[d] # "done" => metadata'[d] = {}
               /\ regCall'[d] = "done" => \/ metadata'[d] = accepted'[RegisteredId(d)']
                                          \/ \E l \in Lookers : Covers(l, RegisteredId(d))'
    <3>0. /\ RegisteredId(d)' = RegisteredId(d) /\ regCall'[d] = regCall[d]
          /\ d \in MetadataMaps
      BY <1>2, <1>3 DEF MetadataMaps
    <3>1. CASE regCall[d] # "done"
      <4>1. d # map
        BY <1>5, <3>1, RegistryAssumption DEF OwnerOf
      <4> QED BY <1>3, <1>6, <3>0, <3>1, <4>1 DEF MapsInv
    <3>2. CASE regCall[d] = "done"
      <4>0. RegisteredId(d) \in AgentIds
        BY <1>3, <3>2 DEF TrackedInv, RegistryTypeOK
      <4>1. CASE \E l \in Lookers : Covers(l, RegisteredId(d))
        BY <1>4, <3>0, <3>2, <4>1
      <4>2. CASE metadata[d] = accepted[RegisteredId(d)] /\ d = map
        <5>1. RegisteredId(d) = id
          BY <1>5, <4>2, RegistryAssumption DEF OwnerOf
        <5> QED BY <1>6, <3>0, <3>2, <4>2, <5>1
      <4>3. CASE metadata[d] = accepted[RegisteredId(d)] /\ d # map
        <5>1. CASE map \in RegCallers /\ RegisteredId(map) = id
          <6>1. RegisteredId(d) # id
            BY <4>3, <5>1, RegisteredIdsDiffer
          <6> QED BY <1>6, <3>0, <3>2, <4>0, <4>3, <6>1
        <5>2. CASE map \in Lookers /\ Covers(map, id)
          <6>1. CASE RegisteredId(d) = id
            BY <1>4, <3>0, <3>2, <5>2, <6>1
          <6>2. CASE RegisteredId(d) # id
            BY <1>6, <3>0, <3>2, <4>0, <4>3, <6>2
          <6> QED BY <6>1, <6>2
        <5> QED BY <1>5, <5>1, <5>2 DEF OwnerOf
      <4> QED BY <1>3, <3>2, <4>1, <4>2, <4>3 DEF MapsInv
    <3> QED BY <3>1, <3>2
  <2> QED BY <2>1, <2>2, <2>3 DEF MapsInv
<1>11. LookupHonest'
  BY <1>2, <1>3, LookupStays
<1> QED BY <1>2, <1>7, <1>8, <1>9, <1>10, <1>11 DEF RegistryInv

\* A lookup moves on; identities may get the map that it holds.
LEMMA LookupStep ==
    ASSUME DirectoryInv, RegistryInv, NEW l \in Lookers, NEW new,
           lookup[l].stage # "used",
           UNCHANGED <<mode, atGateway, regCall, regOwner, metadata, accepted>>,
           UNCHANGED directoryVars,
           lookup' = [lookup EXCEPT ![l] = new],
           new \in [stage : {"idle", "local", "query", "found", "nil", "error", "used"},
                    id : AgentIds \cup {<<>>}, map : MetadataMaps \cup {"none"},
                    listed : BOOLEAN],
           \/ identities' = identities /\ new.stage # "used"
           \/ /\ lookup[l].stage \in {"local", "found"}
              /\ Put(lookup[l].id, lookup[l].map) /\ new = [lookup[l] EXCEPT !.stage = "used"],
           new.stage = "local" => new.id \in DOMAIN identities /\ OwnerOf(new.map, new.id),
           new.stage \in {"query", "found", "nil", "error"} =>
               \E n \in Agents : /\ new.id = Platform(n)
                                 /\ new.listed => directory[n].owner = "system",
           new.stage = "found" => new.map = l,
           new.stage = "nil" /\ new.listed => Cardinality(OwnedBy("system")) > PageLimit
    PROVE  DirectoryInv' /\ RegistryInv'
<1>1. /\ DirectoryInv' /\ directory' = directory /\ request' = request /\ Agents' = Agents
      /\ \A d : RegisteredId(d)' = RegisteredId(d)
  BY StillDirectory
<1>2. /\ RegistryTypeOK /\ CallInv /\ TrackedInv /\ LookedInv /\ MapsInv /\ LookupHonest
      /\ regCall' = regCall /\ mode' = mode /\ atGateway' = atGateway /\ regOwner' = regOwner
      /\ metadata' = metadata /\ accepted' = accepted
      /\ DOMAIN lookup = Lookers
  BY DEF RegistryInv, RegistryTypeOK
<1>3. lookup'[l] = new /\ \A k \in Lookers : k # l => lookup'[k] = lookup[k]
  BY <1>2
<1>4. /\ \A id : KnownId(id) => KnownId(id)'
      /\ \A k, id : k \in Lookers /\ Covers(k, id) => Covers(k, id)'
      /\ \A map, id : OwnerOf(map, id) => OwnerOf(map, id)'
  <2>1. \A k \in Lookers : lookup[k].stage = "used" => lookup'[k] = lookup[k]
    BY <1>3
  <2> QED BY <1>1, <1>2, <2>1, RegistryFrame
<1>5. /\ DOMAIN identities \subseteq DOMAIN identities'
      /\ \A id \in DOMAIN identities' :
           /\ id \in AgentIds /\ KnownId(id)
           /\ identities'[id] \in MetadataMaps
           /\ OwnerOf(identities[id], id)'
      /\ new.stage = "used" => new.id \in DOMAIN identities'
  <2>1. CASE identities' = identities /\ new.stage # "used"
    BY <1>2, <1>4, <2>1 DEF RegistryTypeOK, TrackedInv, MapsInv
  <2>2. CASE /\ lookup[l].stage \in {"local", "found"}
             /\ Put(lookup[l].id, lookup[l].map) /\ new = [lookup[l] EXCEPT !.stage = "used"]
    <3>1. PICK id, map : id = lookup[l].id /\ map = lookup[l].map
      OBVIOUS
    <3>2. /\ DOMAIN identities' = DOMAIN identities \cup {id} /\ identities'[id] = map
          /\ \A i \in DOMAIN identities : i # id => identities'[i] = identities[i]
      <4>1. Put(id, map)
        BY <2>2, <3>1
      <4> QED BY <4>1, PutIs
    <3>3. new.stage = "used" /\ new.id = id /\ new.map = map
      BY <1>2, <2>2, <3>1 DEF RegistryTypeOK
    <3>4. KnownId(id) /\ id \in AgentIds
      <4>1. CASE lookup[l].stage = "local"
        BY <1>2, <3>1, <4>1 DEF LookedInv, TrackedInv, RegistryTypeOK
      <4>2. CASE lookup[l].stage = "found"
        <5>1. PICK n \in Agents : id = Platform(n)
          BY <1>2, <3>1, <4>2 DEF LookedInv
        <5> QED BY <5>1, IdsAreIds DEF KnownId
      <4> QED BY <2>2, <4>1, <4>2
    <3>5. OwnerOf(map, id)'
      <4>1. CASE lookup[l].stage = "local"
        BY <1>2, <1>4, <3>1, <4>1 DEF LookedInv
      <4>2. CASE lookup[l].stage = "found"
        <5>1. map = l
          BY <1>2, <3>1, <4>2 DEF LookedInv
        <5>2. Covers(map, id)'
          BY <1>3, <3>3, <5>1 DEF Covers
        <5> QED BY <5>1, <5>2 DEF OwnerOf
      <4> QED BY <2>2, <4>1, <4>2
    <3>6. map \in MetadataMaps
      <4>1. CASE lookup[l].stage = "local"
        BY <1>2, <3>1, <4>1 DEF LookedInv, OwnerOf, MetadataMaps
      <4>2. CASE lookup[l].stage = "found"
        BY <1>2, <3>1, <4>2 DEF LookedInv, MetadataMaps
      <4> QED BY <2>2, <4>1, <4>2
    <3>7. ASSUME NEW i \in DOMAIN identities, i # id
          PROVE  /\ i \in AgentIds /\ KnownId(i)
                 /\ identities'[i] \in MetadataMaps
                 /\ OwnerOf(identities[i], i)'
      <4>1. identities'[i] = identities[i] /\ OwnerOf(identities[i], i)
        BY <1>2, <3>2, <3>7 DEF MapsInv
      <4> QED BY <1>2, <1>4, <4>1 DEF RegistryTypeOK, TrackedInv
    <3>8. OwnerOf(identities[id], id)'
      BY <3>2, <3>5
    <3> QED BY <3>2, <3>3, <3>4, <3>6, <3>7, <3>8
  <2> QED BY <2>1, <2>2
<1>6. RegistryTypeOK'
  <2>1. lookup' \in [Lookers ->
            [stage : {"idle", "local", "query", "found", "nil", "error", "used"},
             id : AgentIds \cup {<<>>}, map : MetadataMaps \cup {"none"},
             listed : BOOLEAN]]
    BY <1>2 DEF RegistryTypeOK
  <2> QED BY <1>2, <1>5, <2>1 DEF RegistryTypeOK
<1>7. CallInv'
  BY <1>1, <1>2 DEF CallInv
<1>8. TrackedInv'
  BY <1>1, <1>2, <1>4, <1>5 DEF TrackedInv
<1>9. LookedInv'
  <2>1. ASSUME NEW k \in Lookers, k # l
        PROVE  /\ lookup'[k].stage \in {"local", "used"} => lookup'[k].id \in DOMAIN identities'
               /\ lookup'[k].stage \in {"query", "found", "nil", "error"} =>
                    \E n \in Agents' : /\ lookup'[k].id = Platform(n)
                                       /\ lookup'[k].listed => directory'[n].owner = "system"
               /\ lookup'[k].stage = "found" => lookup'[k].map = k
               /\ lookup'[k].stage = "local" => OwnerOf(lookup[k].map, lookup[k].id)'
    <3>1. lookup'[k] = lookup[k]
      BY <1>3, <2>1
    <3> QED BY <1>1, <1>2, <1>4, <1>5, <3>1 DEF LookedInv
  <2>2. /\ new.stage \in {"local", "used"} => new.id \in DOMAIN identities'
        /\ new.stage \in {"query", "found", "nil", "error"} =>
             \E n \in Agents' : /\ new.id = Platform(n)
                                /\ new.listed => directory'[n].owner = "system"
        /\ new.stage = "found" => new.map = l
        /\ new.stage = "local" => OwnerOf(lookup[l].map, lookup[l].id)'
    <3>1. new.stage = "local" => OwnerOf(lookup[l].map, lookup[l].id)'
      BY <1>3, <1>4
    <3> QED BY <1>1, <1>5, <3>1
  <2>3. ASSUME NEW k \in Lookers
        PROVE  /\ lookup'[k].stage \in {"local", "used"} => lookup'[k].id \in DOMAIN identities'
               /\ lookup'[k].stage \in {"query", "found", "nil", "error"} =>
                    \E n \in Agents' : /\ lookup'[k].id = Platform(n)
                                       /\ lookup'[k].listed => directory'[n].owner = "system"
               /\ lookup'[k].stage = "found" => lookup'[k].map = k
               /\ lookup'[k].stage = "local" => OwnerOf(lookup[k].map, lookup[k].id)'
    <3>1. CASE k = l
      BY <1>3, <2>2, <3>1
    <3>2. CASE k # l
      BY <2>1, <3>2
    <3> QED BY <3>1, <3>2
  <2> QED BY <2>3 DEF LookedInv, Platform
<1>10. MapsInv'
  <2>1. \A id \in DOMAIN identities' : OwnerOf(identities[id], id)'
    BY <1>5
  <2>2. \A id \in AgentIds \ DOMAIN identities' : accepted'[id] = {}
    BY <1>2, <1>5 DEF MapsInv
  <2>3. ASSUME NEW c \in RegCallers
        PROVE  /\ regCall'[c] # "done" => metadata'[c] = {}
               /\ regCall'[c] = "done" => \/ metadata'[c] = accepted'[RegisteredId(c)']
                                          \/ \E k \in Lookers : Covers(k, RegisteredId(c))'
    BY <1>1, <1>2, <1>4 DEF MapsInv
  <2> QED BY <2>1, <2>2, <2>3 DEF MapsInv
<1>11. LookupHonest'
  <2>1. ASSUME NEW k \in Lookers, lookup'[k].stage = "nil", lookup'[k].listed
        PROVE  Cardinality(OwnedBy("system")) > PageLimit
    <3>1. CASE k = l
      BY <1>3, <2>1, <3>1
    <3>2. CASE k # l
      BY <1>2, <1>3, <2>1, <3>2 DEF LookupHonest, OwnedBy
    <3> QED BY <3>1, <3>2
  <2>2. OwnedBy("system") = {n \in Agents' : directory'[n].owner = "system"}
    BY <1>1 DEF OwnedBy
  <2> QED BY <2>1, <2>2 DEF LookupHonest
<1> QED BY <1>1, <1>6, <1>7, <1>8, <1>9, <1>10, <1>11 DEF RegistryInv

LEMMA GetIdentityStep ==
    ASSUME DirectoryInv, RegistryInv, NEW l \in Lookers, GetIdentity(l)
    PROVE  DirectoryInv' /\ RegistryInv'
<1>1. PICK id \in {Platform(n) : n \in Agents} \cup DOMAIN identities :
      /\ lookup[l].stage = "idle"
      /\ lookup' = [lookup EXCEPT ![l] =
           IF id \in DOMAIN identities
           THEN [stage |-> "local", id |-> id, map |-> identities[id], listed |-> FALSE]
           ELSE [stage |-> "query", id |-> id, map |-> "none",
                 listed |-> directory[id[2]].owner = "system"]]
      /\ UNCHANGED <<mode, atGateway, regCall, regOwner, identities, metadata, accepted>>
      /\ UNCHANGED directoryVars
  BY DEF GetIdentity
<1>2. CASE id \in DOMAIN identities
  <2> DEFINE new == [stage |-> "local", id |-> id, map |-> identities[id], listed |-> FALSE]
  <2>1. id \in AgentIds /\ identities[id] \in MetadataMaps /\ OwnerOf(identities[id], id)
    BY <1>2 DEF RegistryInv, RegistryTypeOK, MapsInv
  <2>2. lookup' = [lookup EXCEPT ![l] = new]
    BY <1>1, <1>2
  <2>3. /\ new \in [stage : {"idle", "local", "query", "found", "nil", "error", "used"},
                    id : AgentIds \cup {<<>>}, map : MetadataMaps \cup {"none"},
                    listed : BOOLEAN]
        /\ new.stage = "local" /\ new.id = id /\ new.map = identities[id]
    BY <2>1
  <2> HIDE DEF new
  <2> QED BY <1>1, <1>2, <2>1, <2>2, <2>3, LookupStep
<1>3. CASE id \notin DOMAIN identities
  <2> DEFINE new == [stage |-> "query", id |-> id, map |-> "none",
                     listed |-> directory[id[2]].owner = "system"]
  <2>1. PICK n \in Agents : id = Platform(n)
    BY <1>1, <1>3
  <2>2. id \in AgentIds /\ id[2] = n
    BY <2>1, IdsAreIds, IdsDiffer
  <2>3. lookup' = [lookup EXCEPT ![l] = new]
    BY <1>1, <1>3
  <2>4. /\ new \in [stage : {"idle", "local", "query", "found", "nil", "error", "used"},
                    id : AgentIds \cup {<<>>}, map : MetadataMaps \cup {"none"},
                    listed : BOOLEAN]
        /\ new.stage = "query" /\ new.id = Platform(n)
        /\ new.listed => directory[n].owner = "system"
    BY <2>1, <2>2
  <2> HIDE DEF new
  <2>5. \E m \in Agents : /\ new.id = Platform(m)
                          /\ new.listed => directory[m].owner = "system"
    BY <2>4
  <2> QED BY <1>1, <2>3, <2>4, <2>5, LookupStep
<1> QED BY <1>2, <1>3

LEMMA QueryStep ==
    ASSUME DirectoryInv, RegistryInv, NEW l \in Lookers, QueryIdentityFromAIP(l)
    PROVE  DirectoryInv' /\ RegistryInv'
<1> DEFINE record == [stage : {"idle", "local", "query", "found", "nil", "error", "used"},
                      id : AgentIds \cup {<<>>}, map : MetadataMaps \cup {"none"},
                      listed : BOOLEAN]
           after(stage, map) == [stage |-> stage, id |-> lookup[l].id, map |-> map,
                                 listed |-> lookup[l].listed]
<1>1. /\ lookup[l].stage = "query" /\ lookup \in [Lookers -> record] /\ lookup[l] \in record
      /\ UNCHANGED <<mode, atGateway, regCall, regOwner, identities, metadata, accepted>>
      /\ UNCHANGED directoryVars
  BY DEF QueryIdentityFromAIP, RegistryInv, RegistryTypeOK
<1>2. PICK n \in Agents : /\ lookup[l].id = Platform(n)
                          /\ lookup[l].listed => directory[n].owner = "system"
  BY <1>1 DEF RegistryInv, LookedInv
<1>3. lookup[l].id[2] = n /\ lookup[l].id \in AgentIds /\ l \in MetadataMaps
  BY <1>2, IdsDiffer, IdsAreIds DEF MetadataMaps
<1>4. \/ lookup' = [lookup EXCEPT ![l] = after("found", l)]
      \/ /\ lookup' = [lookup EXCEPT ![l] = after("nil", lookup[l].map)]
         /\ \E page \in Page("system") : n \notin page
      \/ lookup' = [lookup EXCEPT ![l] = after("error", lookup[l].map)]
  <2>1. [lookup EXCEPT ![l].stage = "found", ![l].map = l] = [lookup EXCEPT ![l] = after("found", l)]
    <3>1. [[lookup[l] EXCEPT !.stage = "found"] EXCEPT !.map = l] = after("found", l)
      <4>1. [lookup[l] EXCEPT !.stage = "found"] = after("found", lookup[l].map)
        BY <1>1
      <4>2. [after("found", lookup[l].map) EXCEPT !.map = l] = after("found", l)
        OBVIOUS
      <4> HIDE DEF after
      <4> QED BY <4>1, <4>2
    <3> HIDE DEF after
    <3> QED BY <1>1, <3>1
  <2>2. \A s \in {"nil", "error"} :
          [lookup EXCEPT ![l].stage = s] = [lookup EXCEPT ![l] = after(s, lookup[l].map)]
    <3>1. \A s : [lookup[l] EXCEPT !.stage = s] = after(s, lookup[l].map)
      BY <1>1
    <3> HIDE DEF after
    <3> QED BY <1>1, <3>1
  <2> HIDE DEF after
  <2> QED BY <1>3, <2>1, <2>2 DEF QueryIdentityFromAIP
<1>5. CASE lookup' = [lookup EXCEPT ![l] = after("found", l)]
  <2> DEFINE new == after("found", l)
  <2>1. new \in record /\ new.stage = "found" /\ new.map = l /\ new.id = Platform(n)
        /\ new.listed = lookup[l].listed
    BY <1>1, <1>2, <1>3
  <2> HIDE DEF new
  <2>2. \E m \in Agents : /\ new.id = Platform(m)
                          /\ new.listed => directory[m].owner = "system"
    BY <1>2, <2>1
  <2> QED BY <1>1, <1>5, <2>1, <2>2, LookupStep DEF new
<1>6. CASE /\ lookup' = [lookup EXCEPT ![l] = after("nil", lookup[l].map)]
           /\ \E page \in Page("system") : n \notin page
  <2> DEFINE new == after("nil", lookup[l].map)
  <2>1. new \in record /\ new.stage = "nil" /\ new.id = Platform(n)
        /\ new.listed = lookup[l].listed
    BY <1>1, <1>2, <1>3
  <2> HIDE DEF new
  <2>2. \E m \in Agents : /\ new.id = Platform(m)
                          /\ new.listed => directory[m].owner = "system"
    BY <1>2, <2>1
  <2>3. new.listed => Cardinality(OwnedBy("system")) > PageLimit
    <3> SUFFICES ASSUME new.listed, ~(Cardinality(OwnedBy("system")) > PageLimit) PROVE FALSE
      OBVIOUS
    <3>1. n \in OwnedBy("system")
      BY <1>2, <2>1 DEF OwnedBy
    <3>2. Cardinality(OwnedBy("system")) \in Nat
      BY OwnedIsFinite
    <3>3. Cardinality(OwnedBy("system")) <= PageLimit
      BY <3>2, DirectoryAssumption
    <3> QED BY <1>6, <3>1, <3>3, PageHasAll
  <2> QED BY <1>1, <1>6, <2>1, <2>2, <2>3, LookupStep DEF new
<1>7. CASE lookup' = [lookup EXCEPT ![l] = after("error", lookup[l].map)]
  <2> DEFINE new == after("error", lookup[l].map)
  <2>1. new \in record /\ new.stage = "error" /\ new.id = Platform(n)
        /\ new.listed = lookup[l].listed
    BY <1>1, <1>2, <1>3
  <2> HIDE DEF new
  <2>2. \E m \in Agents : /\ new.id = Platform(m)
                          /\ new.listed => directory[m].owner = "system"
    BY <1>2, <2>1
  <2> QED BY <1>1, <1>7, <2>1, <2>2, LookupStep DEF new
<1> QED BY <1>4, <1>5, <1>6, <1>7

LEMMA InstanceStep ==
    ASSUME DirectoryInv, RegistryInv, NEW l \in Lookers, RegisterAgentInstance(l)
    PROVE  DirectoryInv' /\ RegistryInv'
<1> DEFINE record == [stage : {"idle", "local", "query", "found", "nil", "error", "used"},
                      id : AgentIds \cup {<<>>}, map : MetadataMaps \cup {"none"},
                      listed : BOOLEAN]
           new == [lookup[l] EXCEPT !.stage = "used"]
<1>1. /\ lookup[l].stage \in {"local", "found"}
      /\ Put(lookup[l].id, lookup[l].map)
      /\ lookup' = [lookup EXCEPT ![l].stage = "used"]
      /\ UNCHANGED <<mode, atGateway, regCall, regOwner, metadata, accepted>>
      /\ UNCHANGED directoryVars
  BY DEF RegisterAgentInstance
<1>2. lookup \in [Lookers -> record] /\ lookup[l] \in record
  BY DEF RegistryInv, RegistryTypeOK
<1>3. lookup' = [lookup EXCEPT ![l] = new] /\ new \in record /\ new.stage = "used"
  BY <1>1, <1>2
<1> QED BY <1>1, <1>3, LookupStep

LEMMA RegistryInvStep ==
    DirectoryInv /\ RegistryInv /\ [RegistryNext]_<<directoryVars, registryVars>>
      => DirectoryInv' /\ RegistryInv'
<1> SUFFICES ASSUME DirectoryInv, RegistryInv, [RegistryNext]_<<directoryVars, registryVars>>
             PROVE  DirectoryInv' /\ RegistryInv'
  OBVIOUS
<1>0. /\ RegistryTypeOK /\ CallInv
      /\ regCall \in [RegCallers -> {"idle", "platform", "refused", "done"}]
      /\ "system" \in Owners
  BY DEF RegistryInv, RegistryTypeOK, Owners
<1>1. ASSUME NEW c \in RegCallers, RegisterDirect(c) \/ RegisterAtGateway(c)
      PROVE  DirectoryInv' /\ RegistryInv'
  <2>1. /\ regCall[c] = "idle" /\ c \in Registrars /\ request[c].state = "none"
        /\ UNCHANGED directory
        /\ UNCHANGED <<mode, regOwner, identities, metadata, accepted, lookup>>
    BY <1>0, <1>1, RegistryAssumption DEF RegisterDirect, RegisterAtGateway, CallInv
  <2>2. /\ atGateway \subseteq atGateway' /\ atGateway' \subseteq atGateway \cup {c}
        /\ \/ /\ regCall' = [regCall EXCEPT ![c] = "platform"] /\ SendRegister(c)
              /\ mode = "gateway" => c \in atGateway'
           \/ regCall' = [regCall EXCEPT ![c] = "refused"] /\ UNCHANGED request
    BY <1>1 DEF RegisterDirect, RegisterAtGateway, EnterAtGateway
  <2>3. CASE /\ regCall' = [regCall EXCEPT ![c] = "platform"] /\ SendRegister(c)
             /\ mode = "gateway" => c \in atGateway'
    <3>1. /\ DirectoryInv'
          /\ \A q \in Registrars : q # c => request'[q] = request[q]
          /\ request'[c].state \in {"sending", "answered", "failed"}
          /\ Agents \subseteq Agents' /\ \A n \in Agents : directory'[n] = directory[n]
      BY <1>0, <2>1, <2>3, DirectorySteps
    <3> QED BY <2>1, <2>2, <2>3, <3>1, CallStep
  <2>4. CASE regCall' = [regCall EXCEPT ![c] = "refused"] /\ UNCHANGED request
    <3>1. UNCHANGED directoryVars
      BY <2>1, <2>4 DEF directoryVars
    <3>2. /\ DirectoryInv' /\ directory' = directory /\ request' = request /\ Agents' = Agents
      BY <3>1, StillDirectory
    <3>3. request'[c].state = "none" /\ \A q \in Registrars : q # c => request'[q] = request[q]
      BY <2>1, <3>2
    <3> QED BY <2>1, <2>2, <2>4, <3>2, <3>3, CallStep
  <2> QED BY <2>2, <2>3, <2>4
<1>2. ASSUME NEW c \in RegCallers, RegAttempt(c)
      PROVE  DirectoryInv' /\ RegistryInv'
  <2>1. /\ regCall[c] = "platform" /\ c \in Registrars /\ regOwner[c] \in Owners
        /\ Attempt(c, regOwner[c]) \/ AbandonRegister(c)
        /\ UNCHANGED <<mode, regOwner, identities, metadata, accepted, lookup>>
        /\ regCall' = regCall /\ atGateway' = atGateway
    BY <1>0, <1>2, RegistryAssumption DEF RegAttempt, registryVars, RegistryTypeOK
  <2>2. /\ DirectoryInv'
        /\ \A q \in Registrars : q # c => request'[q] = request[q]
        /\ request'[c].state \in {"sending", "answered", "failed"}
        /\ Agents \subseteq Agents' /\ \A n \in Agents : directory'[n] = directory[n]
    BY <2>1, DirectorySteps
  <2>3. regCall' = [regCall EXCEPT ![c] = "platform"] /\ (mode = "gateway" => c \in atGateway')
    BY <1>0, <2>1 DEF CallInv
  <2> QED BY <2>1, <2>2, <2>3, CallStep
<1>3. CASE UNCHANGED <<directoryVars, registryVars>>
  <2>1. /\ UNCHANGED directoryVars /\ mode' = mode /\ atGateway' = atGateway /\ regCall' = regCall
        /\ regOwner' = regOwner /\ identities' = identities /\ metadata' = metadata
        /\ accepted' = accepted /\ lookup' = lookup
    BY <1>3 DEF registryVars
  <2>2. /\ DirectoryInv' /\ directory' = directory /\ request' = request /\ Agents' = Agents
        /\ \A d : RegisteredId(d)' = RegisteredId(d)
    BY <2>1, StillDirectory
  <2>3. /\ \A id : KnownId(id) => KnownId(id)'
        /\ \A l, id : l \in Lookers /\ Covers(l, id) => Covers(l, id)'
        /\ \A map, id : OwnerOf(map, id) => OwnerOf(map, id)'
    BY <2>1, <2>2, RegistryFrame
  <2>4. RegistryTypeOK'
    BY <1>0, <2>1 DEF RegistryTypeOK
  <2>5. CallInv' /\ TrackedInv'
    BY <2>1, <2>2, <2>3 DEF CallInv, TrackedInv, RegistryInv
  <2>6. LookedInv'
    BY <2>1, <2>2, <2>3 DEF LookedInv, RegistryInv
  <2>7. MapsInv'
    BY <2>1, <2>2, <2>3 DEF MapsInv, RegistryInv
  <2>8. LookupHonest'
    BY <2>1, <2>2, LookupStays
  <2> QED BY <2>2, <2>4, <2>5, <2>6, <2>7, <2>8 DEF RegistryInv
<1> QED BY <1>1, <1>2, <1>3, StoreStep, UpdateStep, GetIdentityStep, QueryStep, InstanceStep
        DEF RegistryNext

\* The invariant says what the registry client's callers are told.
LEMMA RegistryInvImplies ==
    ASSUME DirectoryInv, RegistryInv
    PROVE  RegistrationAccounted /\ LookupHonest /\ UpdatesKept
<1>0. RegistryTypeOK /\ CallInv /\ TrackedInv /\ MapsInv /\ LookupHonest /\ KnownInv
  BY DEF RegistryInv, DirectoryInv
<1>1. \A r \in Registrars : Cardinality(AgentsOf(r) \ {request[r].id}) <= request[r].unanswered
  BY <1>0 DEF KnownInv
<1>2. ASSUME NEW c \in RegCallers, Local(c) \in DOMAIN identities
      PROVE  request[c].state = "failed" \/ request[c].unanswered > 0
  <2>1. regCall[c] = "done" /\ RegisteredId(c) = Local(c)
    BY <1>0, <1>2, IdsDiffer DEF TrackedInv, KnownId
  <2>2. request[c].state # "answered" \/ request[c].unanswered > 0
    BY <2>1, RegisteredIdIs, IdsDiffer
  <2> QED BY <1>0, <2>1, <2>2 DEF CallInv
<1>3. ASSUME NEW c \in RegCallers, mode = "gateway", AgentsOf(c) # {}
      PROVE  c \in atGateway
  <2>1. c \in Registrars /\ request[c].state # "none"
    BY <1>0, <1>3, RegistryAssumption DEF KnownInv
  <2> QED BY <1>0, <1>3, <2>1 DEF CallInv, RegistryTypeOK
<1>4. ASSUME NEW n, Platform(n) \in DOMAIN identities PROVE n \in Agents
  BY <1>0, <1>4, IdsDiffer DEF TrackedInv, KnownId
<1>5. UpdatesKept
  <2>1. ASSUME NEW id \in DOMAIN identities
        PROVE  \/ metadata[identities[id]] = accepted[id]
               \/ \E l \in Lookers : Covers(l, id)
    BY <1>0 DEF MapsInv, OwnerOf
  <2> QED BY <2>1 DEF UpdatesKept, Covers
<1> QED BY <1>0, <1>1, <1>2, <1>3, <1>4, <1>5 DEF RegistrationAccounted

\* Of the registry client: what retries, lost answers and fall-backs leave behind
\* is accounted for, nobody is told of no agent while it was on the page that is
\* read, and an update that was accepted is not lost (RegisterAgent, GetIdentity,
\* UpdateAgentMetadata and RegisterAgentInstance of registry/registry.go), for
\* any number of goroutines, retries, agents per page and updates.
THEOREM RegistryIsHonest ==
    RegistrySpec => [](RegistrationAccounted /\ LookupHonest /\ UpdatesKept)
<1>1. DirectoryInit /\ RegistryInit => DirectoryInv /\ RegistryInv
  BY DirectoryInvInit, RegistryInvInit
<1> QED BY <1>1, RegistryInvStep, RegistryInvImplies, PTL DEF RegistrySpec

=============================================================================
