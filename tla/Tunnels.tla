------------------------------- MODULE Tunnels -------------------------------
(***************************************************************************)
(* Registration of node tunnels on one route of the Relay while its        *)
(* configuration is replaced (relay-server/src/relay.rs).  Connections are *)
(* handled by tasks of a multi-threaded runtime: whatever the code does    *)
(* between two locks is a step of its own.  A configuration of the route   *)
(* is the version of its credentials, a runtime is one RouteRuntime, a     *)
(* tunnel one accepted connection.  A cancellation token is cancelled when *)
(* it or its parent is.                                                    *)
(***************************************************************************)
EXTENDS Naturals

CONSTANTS
    MaxConfig,    \* bound: versions of the route's configuration
    MaxRuntime,   \* bound: starts of the route
    MaxTunnel     \* bound: connections of nodes

ASSUME TunnelsAssumption == {MaxConfig, MaxRuntime, MaxTunnel} \subseteq Nat \ {0}

VARIABLES
    configured,  \* configured_routes: version that registrations are checked against, 0 for none
    active,      \* active_routes: the route's runtime, 0 for none
    runtime,     \* every RouteRuntime: its version, its token, its tunnel
    session,     \* every connection: progress, version it presented, runtime, token, replaced tunnel
    update       \* apply_routes: progress, the next version, the runtime removed

tunnelsVars == <<configured, active, runtime, session, update>>

Versions == 1 .. MaxConfig
Runtimes == 1 .. MaxRuntime
Connections == 1 .. MaxTunnel

\* A connection that ended.
Gone == [at |-> "gone", version |-> 0, runtime |-> 0, cancelled |-> TRUE, old |-> 0]

Cancelled(t) == session[t].cancelled \/ runtime[session[t].runtime].cancelled

-----------------------------------------------------------------------------
(* apply_routes, serialised by the route_update lock *)

\* The route is removed from active_routes when its configuration changed.
BeginUpdate(v) ==
    LET stale == active # 0 /\ runtime[active].version # v
    IN /\ update.at = "idle"
       /\ update' = [at |-> IF stale THEN "revoke" ELSE "start", next |-> v, removed |-> IF stale THEN active ELSE 0]
       /\ active' = IF stale THEN 0 ELSE active
       /\ UNCHANGED <<configured, runtime, session>>

\* RouteRuntime::revoke: the runtime's token, then the tunnel taken from its slot.
RevokeRuntime ==
    LET r == update.removed
    IN /\ update.at = "revoke"
       /\ session' = [t \in Connections |-> IF t = runtime[r].slot THEN [session[t] EXCEPT !.cancelled = TRUE] ELSE session[t]]
       /\ runtime' = [runtime EXCEPT ![r].cancelled = TRUE, ![r].slot = 0]
       /\ update' = [update EXCEPT !.at = "start", !.removed = 0]
       /\ UNCHANGED <<configured, active>>

\* start_route: bind the listener and insert a new runtime.
StartRoute(r) ==
    /\ update.at = "start" /\ update.next # 0 /\ active = 0
    /\ runtime[r].version = 0 /\ \A q \in 1 .. r - 1 : runtime[q].version # 0
    /\ runtime' = [runtime EXCEPT ![r].version = update.next]
    /\ active' = r
    /\ UNCHANGED <<configured, session, update>>

\* A listener cannot be bound, here or for a route handled later: apply_routes
\* returns the error, what it did stands and configured_routes keeps its value.
UpdateFails ==
    /\ update.at = "start"
    /\ update' = [update EXCEPT !.at = "idle"]
    /\ UNCHANGED <<configured, active, runtime, session>>

FinishUpdate ==
    /\ update.at = "start" /\ (update.next = 0 \/ active # 0)
    /\ configured' = update.next
    /\ update' = [update EXCEPT !.at = "idle"]
    /\ UNCHANGED <<active, runtime, session>>

-----------------------------------------------------------------------------
(* handle_node_connection and run_tunnel *)

\* The registration's token matches configured_routes; anything else is refused.
Authenticate(t, v) ==
    /\ session[t].at = "new" /\ \A u \in 1 .. t - 1 : session[u].at # "new"
    /\ configured = v
    /\ session' = [session EXCEPT ![t].at = "checked", ![t].version = v]
    /\ UNCHANGED <<configured, active, runtime, update>>

\* The runtime is looked up afterwards; without one the node is told to retry.
LookUpRuntime(t) ==
    /\ session[t].at = "checked"
    /\ session' = [session EXCEPT ![t] = IF active = 0 THEN Gone ELSE [@ EXCEPT !.at = "found", !.runtime = active]]
    /\ UNCHANGED <<configured, active, runtime, update>>

\* register_tunnel: take the slot, then cancel the tunnel that held it.
RegisterTunnel(t) ==
    LET r == session[t].runtime
    IN /\ session[t].at = "found"
       /\ session' = [session EXCEPT ![t].at = "replacing", ![t].old = runtime[r].slot]
       /\ runtime' = [runtime EXCEPT ![r].slot = t]
       /\ UNCHANGED <<configured, active, update>>

CancelReplaced(t) ==
    /\ session[t].at = "replacing"
    /\ session' = [u \in Connections |-> CASE u = t -> [session[t] EXCEPT !.at = "registered", !.old = 0]
                                      [] u = session[t].old -> [session[u] EXCEPT !.cancelled = TRUE]
                                      [] OTHER -> session[u]]
    /\ UNCHANGED <<configured, active, runtime, update>>

\* RegisterOk is queued for the node.
Confirm(t) ==
    /\ session[t].at = "registered"
    /\ session' = [session EXCEPT ![t].at = "serving"]
    /\ UNCHANGED <<configured, active, runtime, update>>

\* The tunnel was cancelled before: run_tunnel returns early and leaves the slot alone.
ConfirmFails(t) ==
    /\ session[t].at = "registered" /\ Cancelled(t)
    /\ session' = [session EXCEPT ![t] = Gone]
    /\ UNCHANGED <<configured, active, runtime, update>>

\* run_heartbeat: the grant expired, or no pong arrived in time.
HeartbeatFails(t) ==
    /\ session[t].at = "serving" /\ ~ Cancelled(t)
    /\ session' = [session EXCEPT ![t].cancelled = TRUE]
    /\ UNCHANGED <<configured, active, runtime, update>>

\* read_tunnel_frames returned: cancelled, end of stream or an error.  Streams end with the token.
StopReading(t) ==
    /\ session[t].at = "serving"
    /\ session' = [session EXCEPT ![t].at = "ending", ![t].cancelled = TRUE]
    /\ UNCHANGED <<configured, active, runtime, update>>

\* Mutant: whatever tunnel is in the slot is removed.
RemoveAnyTunnel(t) ==
    /\ session[t].at = "ending"
    /\ runtime' = [runtime EXCEPT ![session[t].runtime].slot = 0]
    /\ session' = [session EXCEPT ![t] = Gone]
    /\ UNCHANGED <<configured, active, update>>

\* remove_tunnel: only the tunnel that is still in the slot.
RemoveTunnel(t) ==
    /\ session[t].at = "ending"
    /\ runtime' = [runtime EXCEPT ![session[t].runtime].slot = IF @ = t THEN 0 ELSE @]
    /\ session' = [session EXCEPT ![t] = Gone]
    /\ UNCHANGED <<configured, active, update>>

-----------------------------------------------------------------------------
TunnelsInit ==
    /\ configured = 0 /\ active = 0
    /\ runtime = [r \in Runtimes |-> [version |-> 0, cancelled |-> FALSE, slot |-> 0]]
    /\ session = [t \in Connections |-> [at |-> "new", version |-> 0, runtime |-> 0, cancelled |-> FALSE, old |-> 0]]
    /\ update = [at |-> "idle", next |-> 0, removed |-> 0]

TunnelStep(t) ==
    \/ \E v \in Versions : Authenticate(t, v)
    \/ LookUpRuntime(t) \/ RegisterTunnel(t) \/ CancelReplaced(t)
    \/ Confirm(t) \/ ConfirmFails(t) \/ HeartbeatFails(t) \/ StopReading(t) \/ RemoveTunnel(t)

TunnelsNext ==
    \/ \E v \in 0 .. MaxConfig : BeginUpdate(v)
    \/ RevokeRuntime \/ UpdateFails \/ FinishUpdate
    \/ \E r \in Runtimes : StartRoute(r)
    \/ \E t \in Connections : TunnelStep(t)

TunnelsSpec == TunnelsInit /\ [][TunnelsNext]_tunnelsVars

-----------------------------------------------------------------------------
\* A tunnel that is registered and not cancelled is the one its runtime hands to
\* members, or another registration has just taken the slot and is about to
\* cancel it; and its runtime is the route's, or about to be revoked.  So a node
\* that believes it is registered is reachable, two tunnels never serve side by
\* side, and no tunnel outlives the configuration it was registered under,
\* whatever reconnections, tear-downs and reloads overlap.
LiveTunnelIsReachable ==
    \A t \in Connections :
        session[t].at \in {"replacing", "registered", "serving"} /\ ~ Cancelled(t) =>
            /\ \/ runtime[session[t].runtime].slot = t
               \/ \E u \in Connections : session[u].at = "replacing" /\ session[u].old = t
            /\ session[t].runtime \in {active, update.removed}
=============================================================================
