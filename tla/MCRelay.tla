------------------------------ MODULE MCRelay ------------------------------
(***************************************************************************)
(* The parts of the Relay for TLC. The components share no                 *)
(* variable, so a behaviour in which one of them moves and the others rest *)
(* shows all that the component can do: the state spaces are added, not    *)
(* multiplied.                                                             *)
(***************************************************************************)
EXTENDS Relay, Streams, Tunnels, Quota

VARIABLE focus  \* the component that moves in this behaviour

MCRelayVars == <<focus, relayVars, streamsVars, tunnelsVars, quotaVars>>

\* Every component starts as its own module says; one of them is chosen to move.
MCRelayInit ==
    /\ focus \in {"relay", "streams", "tunnels", "quota"}
    /\ RelayInit /\ StreamsInit /\ TunnelsInit /\ QuotaInit

\* A file operation fails, or a document is written late, or Control refuses the node:
\* one of the three in a behaviour, except that a refusal may come before the others.
MoveRelay ==
    /\ focus = "relay" /\ RelayNext
    /\ Cardinality(overtaken') + ioFaults' <= 1
    /\ (\E n \in RelayNodes : ControllerRefuses(n)) => ioFaults = 0 /\ overtaken = {}
    /\ UNCHANGED <<focus, streamsVars, tunnelsVars, quotaVars>>

MoveStreams ==
    /\ focus = "streams" /\ StreamsNext
    /\ UNCHANGED <<focus, relayVars, tunnelsVars, quotaVars>>

MoveTunnels ==
    /\ focus = "tunnels" /\ TunnelsNext
    /\ UNCHANGED <<focus, relayVars, streamsVars, quotaVars>>

MoveQuota ==
    /\ focus = "quota" /\ QuotaNext
    /\ UNCHANGED <<focus, relayVars, streamsVars, tunnelsVars>>

MCRelayNext ==
    MoveRelay \/ MoveStreams \/ MoveTunnels \/ MoveQuota

MCRelaySpec == MCRelayInit /\ [][MCRelayNext]_MCRelayVars
=============================================================================
