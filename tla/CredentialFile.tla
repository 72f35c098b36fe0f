---------------------------- MODULE CredentialFile ----------------------------
(***************************************************************************)
(* The config file of auth/auth.go and the programs of one user that share  *)
(* it.  A save reads the file, merges its settings and writes the whole file *)
(* back, without a lock; os.WriteFile empties the file before it fills it.   *)
(***************************************************************************)
EXTENDS FiniteSets

CONSTANT Programs  \* each makes one call: EnsureAuth, SaveToken or SavePrivateKey

ASSUME ProgramsAssumption == IsFiniteSet(Programs)

VARIABLES
    file,      \* setting to the program that saved it; readConfig of a file
               \* that is missing, empty or cut short is the same as of {}
    call,      \* where each program is
    loaded,    \* what a save that is under way has read and merged
    \* History, for the properties:
    saved,     \* the settings whose save has completed, with the last to save it
    found,     \* what was in the file for good when the program began
    disturbed  \* whether two calls overlapped a write, or a crash cut one short

fileVars == <<file, call, loaded, saved, found, disturbed>>

Settings == {"token", "key"}
NoSettings == <<>>
\* The settings in f, with one more saved by p.
Merged(setting, p, f) ==
    [s \in {setting} \cup DOMAIN f |-> IF s = setting THEN p ELSE f[s]]

Stages == {"idle", "load", "ask", "merge", "open", "fill", "done", "crashed"}

\* A file that is being filled was emptied when it was opened.
Filling == \E p \in Programs : call[p].stage = "fill"
Saving(p) == call[p].stage \in {"open", "fill"}

Goto(p, stage) == call' = [call EXCEPT ![p].stage = stage]
Forget(p) == loaded' = [loaded EXCEPT ![p] = NoSettings]
Begin(p, stage, setting) ==
    call' = [call EXCEPT ![p] = [stage |-> stage, setting |-> setting]]

FileInit ==
    /\ file = NoSettings
    /\ call = [p \in Programs |-> [stage |-> "idle", setting |-> "none"]]
    /\ loaded = [p \in Programs |-> NoSettings]
    /\ saved = NoSettings
    /\ found = [p \in Programs |-> {}]
    /\ disturbed = FALSE

-----------------------------------------------------------------------------
EnsureAuth(p) ==
    /\ call[p].stage = "idle"
    /\ Begin(p, "load", "token")
    /\ found' = [found EXCEPT ![p] = DOMAIN file]
    /\ UNCHANGED <<file, loaded, saved, disturbed>>

\* LoadToken and LoadPrivateKey: the environment first, then the file; each
\* reads the file anew.
Load(p, setting) ==
    /\ call[p] = [stage |-> "load", setting |-> setting]
    /\ \/ /\ Goto(p, "done")
          /\ UNCHANGED disturbed
       \/ /\ disturbed' = (disturbed \/ Filling)
          /\ IF setting \in DOMAIN file THEN Goto(p, "done")
             ELSE IF setting = "token" THEN Begin(p, "load", "key")
             ELSE Goto(p, "ask")
    /\ UNCHANGED <<file, loaded, saved, found>>

\* InteractiveAuth: the user pastes a token or a key, or aborts.
InteractiveAuth(p) ==
    /\ call[p].stage = "ask"
    /\ \/ \E setting \in Settings : Begin(p, "merge", setting)
       \/ Goto(p, "done")
    /\ UNCHANGED <<file, loaded, saved, found, disturbed>>

\* SaveToken or SavePrivateKey, called by the program itself.
SaveSetting(p) == \E setting \in Settings :
    /\ call[p].stage = "idle"
    /\ Begin(p, "merge", setting)
    /\ UNCHANGED <<file, loaded, saved, found, disturbed>>

\* Defect: the updates are written without what the file held.
MergeNothing(p) ==
    /\ call[p].stage = "merge"
    /\ loaded' = [loaded EXCEPT ![p] = Merged(call[p].setting, p, NoSettings)]
    /\ Goto(p, "open")
    /\ disturbed' = (disturbed \/ \E q \in Programs \ {p} : Saving(q))
    /\ UNCHANGED <<file, saved, found>>

\* writeConfig: read and merge.  A file that cannot be read is an empty one.
MergeSettings(p) ==
    /\ call[p].stage = "merge"
    /\ loaded' = [loaded EXCEPT ![p] = Merged(call[p].setting, p, file)]
    /\ Goto(p, "open")
    /\ disturbed' = (disturbed \/ \E q \in Programs \ {p} : Saving(q))
    /\ UNCHANGED <<file, saved, found>>

\* os.WriteFile: the file is emptied, then filled.  A file that cannot be
\* opened stays as it is; EnsureAuth ignores the error.
OpenFile(p) ==
    /\ call[p].stage = "open"
    /\ \/ /\ file' = NoSettings /\ Goto(p, "fill")
          /\ UNCHANGED loaded
       \/ Forget(p) /\ Goto(p, "done") /\ UNCHANGED file
    /\ UNCHANGED <<saved, found, disturbed>>

FillFile(p) ==
    /\ call[p].stage = "fill"
    /\ file' = loaded[p]
    /\ saved' = Merged(call[p].setting, p, saved)
    /\ Goto(p, "done") /\ Forget(p)
    /\ UNCHANGED <<found, disturbed>>

\* The program is killed, or its disk is full; in the middle of a write the
\* file is left empty.
Crash(p) ==
    /\ call[p].stage \notin {"idle", "done", "crashed"}
    /\ Goto(p, "crashed")
    /\ Forget(p)
    /\ disturbed' = (disturbed \/ call[p].stage = "fill")
    /\ UNCHANGED <<file, saved, found>>

FileNext == \E p \in Programs :
    \/ EnsureAuth(p)
    \/ \E setting \in Settings : Load(p, setting)
    \/ InteractiveAuth(p)
    \/ SaveSetting(p)
    \/ MergeSettings(p)
    \/ OpenFile(p)
    \/ FillFile(p)
    \/ Crash(p)

FileSpec == FileInit /\ [][FileNext]_fileVars

-----------------------------------------------------------------------------
\* What a config file may hold.
PartialSettings == UNION {[D -> Programs] : D \in SUBSET Settings}

FileTypeOK ==
    /\ file \in PartialSettings
    /\ call \in [Programs -> [stage : Stages, setting : Settings \cup {"none"}]]
    /\ loaded \in [Programs -> PartialSettings]
    /\ saved \in PartialSettings
    /\ found \in [Programs -> SUBSET Settings]
    /\ disturbed \in BOOLEAN

\* Unless saves overlap, a file is read while it is written or a crash cuts a
\* write short, no save takes another's setting away, and nobody whose file
\* held a credential when EnsureAuth began is asked for a new one (writeConfig,
\* readConfig, EnsureAuth).
SettingsKept == ~disturbed =>
    /\ ~Filling => file = saved
    /\ \A p \in Programs : call[p].stage = "ask" => found[p] = {}
=============================================================================
