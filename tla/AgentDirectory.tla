---------------------------- MODULE AgentDirectory ----------------------------
(***************************************************************************)
(* The platform's list of agents, as the requests of this repository use    *)
(* it, and the request that enters an agent: platform.Client.RegisterAgent  *)
(* over the retry loop of platform/client.go.  An attempt may take effect   *)
(* and its answer be lost, so a repeated request may find the agent it      *)
(* entered itself; whether the platform then answers with that agent, adds  *)
(* another or refuses is the platform's business, and all three happen.     *)
(***************************************************************************)
EXTENDS Naturals, Sequences, FiniteSets

CONSTANTS Registrars,  \* who registers an agent, one agent each
          Retries,     \* MaxRetries: how often the request is repeated
          PageLimit    \* agents on the one page that GetAgent reads (1000)

ASSUME DirectoryAssumption ==
    /\ IsFiniteSet(Registrars)
    /\ Retries \in Nat
    /\ PageLimit \in Nat \ {0}

VARIABLES
    directory,  \* the agents entered, in order; an agent's id is its place
    request     \* per registrar, the state of its request

directoryVars == <<directory, request>>

\* Agents of other owners than "system" are listed under another user.
Owners == {"system", "user"}
Agents == DOMAIN directory
AgentsOf(r) == {n \in Agents : directory[n].by = r}
NoId == 0

DirectoryInit ==
    /\ directory = <<>>
    /\ request = [r \in Registrars |->
                    [state |-> "none", tries |-> 0, id |-> NoId, unanswered |-> 0]]

\* The request is on its way.
SendRegister(r) == request' = [request EXCEPT ![r].state = "sending"]

\* The platform enters the agent and gives it the id n.
Enter(r, owner, n) ==
    \/ /\ n = Len(directory) + 1
       /\ directory' = Append(directory, [by |-> r, owner |-> owner])
    \/ /\ n \in AgentsOf(r)
       /\ UNCHANGED directory

\* The attempt failed in a way that is retried: a network error, 429 or 5xx.
\* The count of tries ends with the loop.
Retried(r, lost) ==
    request' = [request EXCEPT
        ![r].tries = IF @ = Retries THEN 0 ELSE @ + 1,
        ![r].unanswered = @ + lost,
        ![r].state = IF request[r].tries = Retries THEN "failed" ELSE "sending"]

\* Defect: an attempt that was answered is counted as a failed one.
RetriedAlways(r, id, blank) == Retried(r, 0)

Answered(r, id, blank) ==
    request' = [request EXCEPT ![r].state = "answered", ![r].id = id, ![r].tries = 0,
                               ![r].unanswered = @ + blank]

GivenUp(r) == request' = [request EXCEPT ![r].state = "failed", ![r].tries = 0]

-----------------------------------------------------------------------------
\* One attempt.  The answer may carry no agent_id, or never come.
Attempt(r, owner) ==
    /\ request[r].state = "sending"
    /\ \/ \E n \in 1..Len(directory) + 1 :
            /\ Enter(r, owner, n)
            /\ \/ Answered(r, n, 0)
               \/ Answered(r, NoId, 1)
               \/ Retried(r, 1)
       \/ /\ Retried(r, 0)
          /\ UNCHANGED directory
       \/ /\ GivenUp(r)
          /\ UNCHANGED directory

\* The context ends while the loop waits for its next attempt.
AbandonRegister(r) ==
    /\ request[r].state = "sending"
    /\ request[r].tries > 0
    /\ GivenUp(r)
    /\ UNCHANGED directory

-----------------------------------------------------------------------------
\* The first page of a user's agents: PageLimit of them, in an order that is
\* the platform's.
Page(owner) ==
    LET all == {n \in Agents : directory[n].owner = owner}
    IN {p \in SUBSET all :
            Cardinality(p) = IF Cardinality(all) < PageLimit
                             THEN Cardinality(all) ELSE PageLimit}

DirectoryTypeOK ==
    /\ directory \in Seq([by : Registrars, owner : Owners])
    /\ request \in [Registrars ->
            [state : {"none", "sending", "answered", "failed"},
             tries : 0..Retries, id : Nat, unanswered : Nat]]
=============================================================================
