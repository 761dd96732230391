------------------------------- MODULE MCHost -------------------------------
(***************************************************************************)
(* The parts of the Node Host other than its activation, with what they    *)
(* say to the Control Service, and the Reality Console for TLC. The        *)
(* components share no variable, so a behaviour in which one of them moves *)
(* and the others rest shows all that the component can do: the state      *)
(* spaces are added, not multiplied. A week is scaled down to two days of  *)
(* three minutes; one of the two windows crosses midnight and the end of   *)
(* the week.                                                               *)
(* The Console's files are edited from outside, one of them at a time, or  *)
(* its service is started and stopped, in different behaviours; and so do  *)
(* months end and batches fly, of which two are under way at a time, or    *)
(* one when the child was restarted.                                       *)
(***************************************************************************)
EXTENDS Candidates, Subprocess, Policy, Manual, Mapping, Telemetry, Setup, Background,
        ConfigStore, Usage, AccessLog

VARIABLE focus  \* the component that moves in this behaviour

MCPolicies ==
    {[paused |-> FALSE, window |-> {}, capped |-> FALSE, limit |-> 2],
     [paused |-> FALSE, window |-> {}, capped |-> TRUE, limit |-> 1],
     [paused |-> FALSE, capped |-> FALSE, limit |-> 2,
      window |-> {[weekday |-> 2, start |-> 2, end |-> 1], [weekday |-> 1, start |-> 1, end |-> 2]}],
     [paused |-> TRUE, window |-> {}, capped |-> TRUE, limit |-> 2]}

validationVars == <<candidateVars, subprocessVars>>
providerVars == <<policyVars, manualVars, mappingVars>>
consoleVars == <<configVars, usageVars, logVars>>

MCHostVars ==
    <<focus, validationVars, providerVars, telemetryVars, setupVars, backgroundVars, consoleVars>>

\* Every component starts as its own module says; one of them is chosen to move. A
\* component that rests needs only one of its initial states.
MCHostInit ==
    /\ focus \in {"candidates", "command", "policy", "manual", "mapping", "telemetry",
                  "setup", "background", "config", "usage", "log"}
    /\ CandidatesInit /\ SubprocessInit /\ PolicyInit /\ ManualInit /\ MappingInit
    /\ TelemetryInit /\ SetupInit /\ BackgroundInit
    /\ ConfigInit /\ UsageInit /\ LogInit
    /\ focus # "candidates" => binaryFile = CHOOSE b \in Binaries : TRUE
    /\ focus # "mapping" => gateway = CHOOSE g \in Gateways : TRUE
    /\ focus # "background" => enrolled
    /\ focus # "usage" => meter.users = {} /\ \A u \in Clients : ledger[u].legacy = 0
    /\ focus # "log" => known

\* What makes a candidate: the validation, and the bounded commands it runs.
MoveValidation ==
    /\ \/ focus = "candidates" /\ CandidatesNext /\ UNCHANGED subprocessVars
       \/ focus = "command" /\ SubprocessNext /\ UNCHANGED candidateVars
    /\ UNCHANGED <<focus, providerVars, telemetryVars, setupVars, backgroundVars, consoleVars>>

\* What the provider decides: the policy, the manual endpoint and the router mapping.
MoveProvider ==
    /\ \/ focus = "policy" /\ PolicyNext /\ UNCHANGED <<manualVars, mappingVars>>
       \/ focus = "manual" /\ ManualNext /\ UNCHANGED <<policyVars, mappingVars>>
       \/ focus = "mapping" /\ MappingNext /\ UNCHANGED <<policyVars, manualVars>>
    /\ UNCHANGED <<focus, validationVars, telemetryVars, setupVars, backgroundVars, consoleVars>>

MoveTelemetry ==
    /\ focus = "telemetry" /\ TelemetryNext
    /\ usage'.past = 0 \/ (flights' = {} /\ totals'.cursor = 0)
    /\ Cardinality(flights') <= IF child'.generation = 1 /\ ~ child'.fresh THEN 2 ELSE 1
    /\ UNCHANGED <<focus, validationVars, providerVars, setupVars, backgroundVars, consoleVars>>

MoveSetup ==
    /\ focus = "setup" /\ SetupNext
    /\ UNCHANGED <<focus, validationVars, providerVars, telemetryVars, backgroundVars, consoleVars>>

MoveBackground ==
    /\ focus = "background" /\ BackgroundNext
    /\ UNCHANGED <<focus, validationVars, providerVars, telemetryVars, setupVars, consoleVars>>

MoveConsole ==
    /\ \/ /\ focus = "config" /\ ConfigNext
          /\ \/ config'.edit = 0 /\ metadata'.edit = 0
             \/ /\ brewed'.wanted = "none" /\ brewed'.spawned = 0
                /\ config'.edit = 0 \/ metadata'.edit = 0
          /\ UNCHANGED <<usageVars, logVars>>
       \/ focus = "usage" /\ UsageNext /\ UNCHANGED <<configVars, logVars>>
       \/ focus = "log" /\ LogNext /\ UNCHANGED <<configVars, usageVars>>
    /\ UNCHANGED <<focus, validationVars, providerVars, telemetryVars, setupVars, backgroundVars>>

MCHostNext ==
    \/ MoveValidation \/ MoveProvider \/ MoveTelemetry
    \/ MoveSetup \/ MoveBackground \/ MoveConsole

MCHostSpec == MCHostInit /\ [][MCHostNext]_MCHostVars

-----------------------------------------------------------------------------
\* What a heartbeat offers as an endpoint leads to the listener of the applied revision:
\* a router mapping is the node's own and is let go with it (MappingsAreOwned, about
\* mapping.rs), and the provider's own forwarding names the port that the revision
\* listens on (ManualIsForwarded, about policy.rs).
OffersAreOwned == MappingsAreOwned /\ ManualIsForwarded

\* What the Console shows of its users' traffic is what Xray carried and logged: no byte is
\* charged that was not carried (ChargedWasCarried, about the counters that db.rs samples)
\* and no line of the access log is imported twice (LinesImportedOnce).
UsageIsTrue == ChargedWasCarried /\ LinesImportedOnce
=============================================================================
