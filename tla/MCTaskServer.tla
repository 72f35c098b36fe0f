---------------------------- MODULE MCTaskServer ----------------------------
(* The instances of TaskServer that TLC checks. *)
EXTENDS TaskServer, TLC

\* Requests and ids are interchangeable: no property distinguishes them.
Symmetry == Permutations(Requests) \cup Permutations(TaskIDs)

\* A handler's status updates: still going, failed, and a state the server
\* does not treat as terminal.
SomeHandlerStates == {"failed", "input-required"}
=============================================================================
