------------------------------- MODULE Manual -------------------------------
(***************************************************************************)
(* The provider's own port forwarding as an endpoint: configured for the   *)
(* applied revision by one process (policy.rs), carried to later revisions *)
(* by the service (service.rs) and offered in its heartbeats (mapping.rs). *)
(* The command reads its target before its transaction, so a revision may  *)
(* be applied, or the endpoint carried or cleared, in between.             *)
(***************************************************************************)
EXTENDS Naturals

CONSTANTS
    ListenPorts,  \* local ports a revision may listen on
    MaxApplied,   \* bound: revisions applied
    MaxEndpoint   \* bound: endpoint identities made

ASSUME ManualAssumption ==
    ListenPorts \subseteq Nat \ {0} /\ {MaxApplied, MaxEndpoint} \subseteq Nat

VARIABLES
    serving,    \* the applied revision and the local port it listens on
    forward,    \* provider_manual_endpoint: {} or its row
    configure,  \* configure_manual_endpoint: {} or the target it has read
    made,       \* endpoint identities made so far
    offers      \* what heartbeats offered: identity, revision, forwarded port and the port listened on

manualVars == <<serving, forward, configure, made, offers>>

\* router_mapping_target: the service's supervisor runs the applied revision.
ApplyRevision(port) ==
    /\ serving.revision < MaxApplied
    /\ serving' = [revision |-> serving.revision + 1, port |-> port]
    /\ UNCHANGED <<forward, configure, made, offers>>

\* current_admission_target, and the provider's port must be the one it names.
ReadAdmissionTarget ==
    /\ configure = {} /\ serving.revision # 0
    /\ configure' = {serving}
    /\ UNCHANGED <<serving, forward, made, offers>>

\* The row is written whole, with an identity of its own.
WriteManualEndpoint ==
    /\ made < MaxEndpoint
    /\ \E read \in configure :
         forward' = {[identity |-> made + 1, revision |-> read.revision, port |-> read.port,
                      expired |-> FALSE]}
    /\ configure' = {} /\ made' = made + 1
    /\ UNCHANGED <<serving, offers>>

\* The command dies, or its transaction fails.
ConfigureFails ==
    /\ configure # {} /\ configure' = {}
    /\ UNCHANGED <<serving, forward, made, offers>>

ClearManualEndpoint ==
    /\ forward # {} /\ forward' = {}
    /\ UNCHANGED <<serving, configure, made, offers>>

\* An endpoint follows to another revision only on the same local port and before it
\* expires, with a new identity and the old expiry.
MayCarry(row) ==
    row.revision # serving.revision /\ row.port = serving.port /\ ~ row.expired

CarryManualEndpointForward ==
    /\ serving.revision # 0 /\ made < MaxEndpoint
    /\ \E row \in forward :
         /\ MayCarry(row)
         /\ forward' = {[row EXCEPT !.identity = made + 1, !.revision = serving.revision]}
    /\ made' = made + 1
    /\ UNCHANGED <<serving, configure, offers>>

EndpointExpires ==
    /\ \E row \in forward : ~ row.expired /\ forward' = {[row EXCEPT !.expired = TRUE]}
    /\ UNCHANGED <<serving, configure, made, offers>>

\* load_manual_candidate: only the row of the applied revision, and only while it lasts.
LoadManualCandidate == {row \in forward : row.revision = serving.revision /\ ~ row.expired}

OfferManualEndpoint ==
    /\ offers' = offers \cup {[identity |-> row.identity, revision |-> row.revision,
                               port |-> row.port, listens |-> serving.port] : row \in LoadManualCandidate}
    /\ offers' # offers
    /\ UNCHANGED <<serving, forward, configure, made>>

ManualInit ==
    /\ serving = [revision |-> 0, port |-> 0]
    /\ forward = {} /\ configure = {} /\ made = 0 /\ offers = {}

ManualNext ==
    \/ \E port \in ListenPorts : ApplyRevision(port)
    \/ ReadAdmissionTarget \/ WriteManualEndpoint \/ ConfigureFails \/ ClearManualEndpoint
    \/ CarryManualEndpointForward \/ EndpointExpires \/ OfferManualEndpoint

ManualSpec == ManualInit /\ [][ManualNext]_manualVars

-----------------------------------------------------------------------------
\* However commands, revisions and heartbeats interleave: every endpoint that was offered
\* forwards to the port its revision listened on (configure_manual_endpoint and
\* carry_manual_endpoint_forward of policy.rs), and no identity is offered for two
\* revisions, so that Control verifies each anew.
ManualIsForwarded ==
    /\ \A o \in offers : o.port = o.listens
    /\ \A o, q \in offers : o.identity = q.identity => o.revision = q.revision
=============================================================================
