------------------------------ MODULE MCSdkParts ------------------------------
(***************************************************************************)
(* The instance of the agent service and its clients that TLC checks.  The  *)
(* modules share no state, except for the directory of the host and the     *)
(* registry, so a step of one neither enables nor disables a step of        *)
(* another: each behaviour runs one part and leaves the others at rest.     *)
(***************************************************************************)
EXTENDS AgentHost, AgentRegistry, CardCache, CallChain, CredentialFile, StreamRelay,
        AgentProfile, Readiness, TaskQueries, AgentAnswers

VARIABLE part  \* the part that runs

partVars == <<directoryVars, hostVars, registryVars, cardVars,
              chainVars, fileVars, relayVars, profileVars, waitVars,
              queryVars, answerVars, part>>

AnyCaller == CHOOSE c \in RegCallers : TRUE

\* A part at rest has one initial state.  Of the registering goroutines one, and
\* in gateway mode both, register for "system".
Init ==
    /\ part \in {"host", "registry", "cards", "chain", "file",
                 "relay", "profile", "wait", "queries", "answers"}
    /\ DirectoryInit /\ FileInit /\ QueryInit
    /\ HostInit /\ (part # "host" => options = CHOOSE o \in Options : TRUE)
    /\ RegistryInit
    /\ IF part = "registry"
       THEN \A c \in RegCallers : c = AnyCaller \/ mode = "gateway" => regOwner[c] = "system"
       ELSE mode = "direct" /\ \A c \in RegCallers : regOwner[c] = "user"
    /\ CardInit /\ (part # "cards" => client = "a2a")
    /\ ChainInit /\ (part # "chain" => holder = CHOOSE a \in ChainAgents : TRUE)
    /\ RelayInit /\ (part # "relay" => stream = "task")
    /\ WaitInit
    /\ part # "wait" => up = {} /\ wait.attempts = 0 /\ wait.call = "WaitForReady"
    /\ AnswersInit /\ (part # "answers" => adapter = [streaming |-> FALSE, raw |-> FALSE])
    /\ ProfileInit
    /\ part # "profile" => author = CHOOSE a \in Authors :
                                        a.by = "wrapper" /\ a.form = "typed" /\ ~a.gateway

Next ==
    \/ /\ part = "host"
       /\ HostNext
       /\ UNCHANGED <<registryVars, cardVars, chainVars, fileVars,
                       relayVars, profileVars, waitVars, queryVars,
                       answerVars, part>>
    \/ /\ part = "registry"
       /\ RegistryNext
       /\ UNCHANGED <<hostVars, cardVars, chainVars, fileVars,
                       relayVars, profileVars, waitVars, queryVars,
                       answerVars, part>>
    \/ /\ part = "cards"
       /\ CardNext
       /\ UNCHANGED <<directoryVars, hostVars, registryVars,
                       chainVars, fileVars, relayVars, profileVars,
                       waitVars, queryVars, answerVars, part>>
    \/ /\ part = "chain"
       /\ ChainNext
       /\ UNCHANGED <<directoryVars, hostVars, registryVars, cardVars,
                       fileVars, relayVars, profileVars, waitVars,
                       queryVars, answerVars, part>>
    \/ /\ part = "file"
       /\ FileNext
       /\ UNCHANGED <<directoryVars, hostVars, registryVars, cardVars,
                       chainVars, relayVars, profileVars, waitVars,
                       queryVars, answerVars, part>>
    \/ /\ part = "relay"
       /\ RelayNext
       /\ UNCHANGED <<directoryVars, hostVars, registryVars, cardVars,
                       chainVars, fileVars, profileVars, waitVars,
                       queryVars, answerVars, part>>
    \/ /\ part = "profile"
       /\ ProfileNext
       /\ UNCHANGED <<directoryVars, hostVars, registryVars, cardVars,
                       chainVars, fileVars, relayVars, waitVars,
                       queryVars, answerVars, part>>
    \/ /\ part = "wait"
       /\ WaitNext
       /\ UNCHANGED <<directoryVars, hostVars, registryVars, cardVars,
                       chainVars, fileVars, relayVars, profileVars,
                       queryVars, answerVars, part>>
    \/ /\ part = "queries"
       /\ QueryNext
       /\ UNCHANGED <<directoryVars, hostVars, registryVars, cardVars,
                       chainVars, fileVars, relayVars, profileVars,
                       waitVars, answerVars, part>>
    \/ /\ part = "answers"
       /\ AnswersNext
       /\ UNCHANGED <<directoryVars, hostVars, registryVars, cardVars,
                       chainVars, fileVars, relayVars, profileVars,
                       waitVars, queryVars, part>>

\* The fairness of the host, of the relay and of a call that waits, each when
\* it runs.
Fairness ==
    /\ WF_partVars(part = "host" /\ Next /\ Background)
    /\ WF_partVars(part = "host" /\ Next /\ Shutdown)
    /\ WF_partVars(part = "host" /\ Next /\ shutdown # "waiting" /\ Listen)
    /\ WF_partVars(part = "relay" /\ Next /\ Reader)
    /\ WF_partVars(part = "relay" /\ Next /\ HandOver)
    /\ WF_partVars(part = "relay" /\ Next /\ ConsumerDone)
    /\ WF_partVars(part = "wait" /\ Next /\ Waiting)

Spec == Init /\ [][Next]_partVars /\ Fairness

TypeOK ==
    /\ DirectoryTypeOK /\ HostTypeOK /\ RegistryTypeOK /\ CardTypeOK /\ ChainTypeOK
    /\ FileTypeOK /\ RelayTypeOK /\ ProfileTypeOK /\ WaitTypeOK /\ QueryTypeOK
    /\ AnswersTypeOK

\* What the registry client tells its callers holds: that the services are up,
\* whom it has registered, and what it knows of an agent (WaitForServices,
\* RegisterAgent, GetIdentity and UpdateAgentMetadata of registry/registry.go).
RegistryHonest == WaitHonest /\ RegistrationAccounted /\ LookupHonest /\ UpdatesKept

\* What a server tells those who ask it holds: whose words an answer has, and
\* which tasks, conversations and entries of the platform a list has (AnswersReach
\* and QueriesAgree: server/handlers.go, the endpoints of server/server.go and
\* the paginated lists of platform/client.go).
ServerTellsTruth == QueriesAgree /\ AnswersReach

\* Every goroutine that a service or a stream started, and every call that
\* waits for the services, comes to its end once its context is canceled, its
\* remote side is done or its attempts are made; only a consumer that stopped
\* reading leaves the goroutine behind its stream blocked (server.Run,
\* a2a.Client.StreamTask, A2AClient.PushStream, WaitForServices).
GoroutinesEnd == HostStops /\ RelayEnds /\ WaitEnds
=============================================================================
