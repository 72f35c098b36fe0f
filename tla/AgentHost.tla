------------------------------ MODULE AgentHost ------------------------------
(***************************************************************************)
(* The life of one agent service: what wrappers/generic.go configures from  *)
(* the credentials it finds, server.Run with its listener, its background   *)
(* goroutine and its shutdown goroutine, and registerWithAIP.  The polling  *)
(* loop itself is PollingAgent; here it only runs or has ended.             *)
(***************************************************************************)
EXTENDS AgentDirectory

CONSTANT Host  \* the service, as a registrar

ASSUME HostAssumption == Host \in Registrars

VARIABLES
    options,     \* what the author asked for, and the credential found
    hostCtx,     \* the context given to Run: "live" or "canceled"
    pollCancel,  \* whether pollCancel was called
    background,  \* the goroutine that registers and polls
    shutdown,    \* the goroutine that waits for the context
    listener,    \* ListenAndServe
    returned,    \* what Run returned, "no" as long as it has not
    agentID,     \* Server.agentID: the id, "fallback" (erc8004:handle) or "unset"
    pollAgent    \* the name the job queue is polled under

hostVars == <<options, hostCtx, pollCancel, background, shutdown, listener,
              returned, agentID, pollAgent>>

\* An owner (a user id or a Privy token) is given or derived from the wallet
\* key; without one there is no registration config.
Options == [owner : BOOLEAN, autoRegister : BOOLEAN, gatewayURL : BOOLEAN,
            endpointURL : BOOLEAN, viaGateway : BOOLEAN]

\* ExposeAsA2A attaches a registration config.
Configured == options.owner /\ (options.autoRegister \/ options.gatewayURL)

\* Run starts the polling loop: private agents and via_gateway agents.
Polls ==
    /\ Configured
    /\ options.gatewayURL
    /\ ~options.endpointURL \/ options.viaGateway

\* Defect: the polling loop gets a context that only pollCancel ends, and
\* nobody calls it.
PollNeverDone == FALSE

\* The context of the polling loop is derived from Run's.
PollDone == pollCancel \/ hostCtx = "canceled"

HostInit ==
    /\ options \in Options
    /\ hostCtx = "live"
    /\ pollCancel = FALSE
    /\ background = "start"
    /\ shutdown = "waiting"
    /\ listener = "starting"
    /\ returned = "no"
    /\ agentID = "unset"
    /\ pollAgent = "unset"

-----------------------------------------------------------------------------
\* The background goroutine: registerWithAIP, if it is configured.
StartBackground ==
    /\ background = "start"
    /\ IF Configured /\ options.autoRegister
         THEN background' = "registering" /\ SendRegister(Host)
         ELSE background' = "deciding" /\ UNCHANGED request
    /\ UNCHANGED <<directory, options, hostCtx, pollCancel, shutdown, listener,
                   returned, agentID, pollAgent>>

HostAttempt ==
    /\ background = "registering"
    /\ \/ Attempt(Host, "user")
       \/ hostCtx = "canceled" /\ AbandonRegister(Host)
    /\ UNCHANGED hostVars

\* The answer becomes the server's id; an answer without one is replaced by
\* the handle, and a failure is only logged.
EndRegistration ==
    /\ background = "registering"
    /\ request[Host].state \in {"answered", "failed"}
    /\ background' = "deciding"
    /\ agentID' = CASE request[Host].state = "failed" -> "unset"
                    [] request[Host].id = NoId        -> "fallback"
                    [] OTHER                          -> "platform"
    /\ UNCHANGED <<directoryVars, options, hostCtx, pollCancel, shutdown,
                   listener, returned, pollAgent>>

\* gatewayPollingLoop reads the id once, before its first poll.
StartPolling ==
    /\ background = "deciding"
    /\ Polls
    /\ background' = "polling"
    /\ pollAgent' = IF agentID = "unset" THEN "handle" ELSE agentID
    /\ UNCHANGED <<directoryVars, options, hostCtx, pollCancel, shutdown,
                   listener, returned, agentID>>

SkipPolling ==
    /\ background = "deciding"
    /\ ~Polls
    /\ background' = "ended"
    /\ pollCancel' = TRUE
    /\ UNCHANGED <<directoryVars, options, hostCtx, shutdown, listener,
                   returned, agentID, pollAgent>>

StopPolling ==
    /\ background = "polling"
    /\ PollDone
    /\ background' = "ended"
    /\ UNCHANGED <<directoryVars, options, hostCtx, pollCancel, shutdown,
                   listener, returned, agentID, pollAgent>>

-----------------------------------------------------------------------------
\* The listener comes up, fails to, or fails later; after Shutdown has begun
\* it only ends.
Listen ==
    /\ listener \in {"starting", "serving"}
    /\ IF shutdown # "waiting"
         THEN listener' = "closed" /\ returned' = "nil"
         ELSE \/ /\ listener = "starting"
                 /\ listener' = "serving"
                 /\ UNCHANGED returned
              \/ listener' = "failed" /\ returned' = "error"
    /\ UNCHANGED <<directoryVars, options, hostCtx, pollCancel, background,
                   shutdown, agentID, pollAgent>>

\* The shutdown goroutine cancels the polling and closes the server.
BeginShutdown ==
    /\ shutdown = "waiting"
    /\ hostCtx = "canceled"
    /\ shutdown' = "draining"
    /\ pollCancel' = TRUE
    /\ UNCHANGED <<directoryVars, options, hostCtx, background, listener,
                   returned, agentID, pollAgent>>

\* The requests in flight end, or the five seconds do.
EndShutdown ==
    /\ shutdown = "draining"
    /\ shutdown' = "done"
    /\ UNCHANGED <<directoryVars, options, hostCtx, pollCancel, background,
                   listener, returned, agentID, pollAgent>>

\* The program cancels the context, whether Run has returned or not.
CancelHost ==
    /\ hostCtx = "live"
    /\ hostCtx' = "canceled"
    /\ UNCHANGED <<directoryVars, options, pollCancel, background, shutdown,
                   listener, returned, agentID, pollAgent>>

Background == StartBackground \/ HostAttempt \/ EndRegistration
              \/ StartPolling \/ SkipPolling \/ StopPolling
Shutdown == BeginShutdown \/ EndShutdown

HostNext == Background \/ Listen \/ Shutdown \/ CancelHost

\* Each goroutine goes on; a listener that serves may do so for ever.  The
\* program may never cancel.
HostFairness ==
    /\ WF_<<directoryVars, hostVars>>(Background)
    /\ WF_<<directoryVars, hostVars>>(Shutdown)
    /\ WF_<<directoryVars, hostVars>>(Listen /\ shutdown # "waiting")

HostSpec == DirectoryInit /\ HostInit
            /\ [][HostNext]_<<directoryVars, hostVars>> /\ HostFairness

-----------------------------------------------------------------------------
HostTypeOK ==
    /\ options \in Options
    /\ hostCtx \in {"live", "canceled"}
    /\ pollCancel \in BOOLEAN
    /\ background \in {"start", "registering", "deciding", "polling", "ended"}
    /\ shutdown \in {"waiting", "draining", "done"}
    /\ listener \in {"starting", "serving", "failed", "closed"}
    /\ returned \in {"no", "nil", "error"}
    /\ agentID \in {"unset", "fallback", "platform"}
    /\ pollAgent \in {"unset", "handle", "fallback", "platform"}

\* Once the program cancels the context, everything Run started ends: Run
\* itself, the registration whatever attempt it is in, the polling loop, and
\* the shutdown goroutine, also after a listener that failed has left the
\* polling loop behind (server.Run).
HostStops ==
    hostCtx = "canceled" ~>
        returned # "no" /\ background = "ended" /\ shutdown = "done"
=============================================================================
