------------------------------- MODULE Requests -------------------------------
(***************************************************************************)
(* Signed node requests: the headers a Node Host puts on each request and  *)
(* authenticate_node_request (control-server/src/db.rs), which must handle *)
(* each of them at most once although the network may repeat them and the  *)
(* two clocks disagree.                                                    *)
(***************************************************************************)
EXTENDS Integers, FiniteSets

CONSTANTS
    Skew,        \* NODE_REQUEST_CLOCK_SKEW_SECONDS
    MaxSecond,   \* bound: the controller's clock
    MaxRequest,  \* bound: requests a node signs
    MaxOffset    \* bound: how far the node's clock is ahead or behind

ASSUME RequestsAssumption == {Skew, MaxSecond, MaxRequest, MaxOffset} \subseteq Nat

VARIABLES
    now,        \* the controller's clock
    signed,     \* requests on the wire: number |-> timestamp
    nonces,     \* node_request_nonces: request and expiry
    handled,    \* how often each request reached its handler
    credential  \* node_auth_credentials and the node's status

requestVars == <<now, signed, nonces, handled, credential>>

Wire == DOMAIN signed

\* sign_request: a fresh nonce and the node's own time.
SignRequest(offset) ==
    /\ Cardinality(Wire) < MaxRequest
    /\ now + offset >= 0
    /\ LET r == Cardinality(Wire) + 1
       IN  /\ signed' = [s \in Wire \cup {r} |-> IF s = r THEN now + offset ELSE signed[s]]
           /\ handled' = [s \in Wire \cup {r} |-> IF s = r THEN 0 ELSE handled[s]]
    /\ UNCHANGED <<now, nonces, credential>>

WithinSkew(r) == now - signed[r] \in -Skew .. Skew

\* Mutant: a nonce is purged in its last second.
PurgedEarly == {n \in nonces : n.expires > now}

\* DELETE FROM node_request_nonces WHERE expires_at < now
Purged == {n \in nonces : n.expires >= now}

PassesAuthentication(r) ==
    /\ WithinSkew(r)
    /\ credential = "valid"
    /\ \A n \in Purged : n.request # r

\* A refusal drops the transaction, the purge with it.
AuthenticateNodeRequest(r) ==
    /\ PassesAuthentication(r)
    /\ nonces' = Purged \cup {[request |-> r, expires |-> signed[r] + Skew]}

\* Every node route authenticates first and goes on only then.
AuthenticateNode(r) ==
    /\ AuthenticateNodeRequest(r)
    /\ handled' = [handled EXCEPT ![r] = @ + 1]
    /\ UNCHANGED <<now, signed, credential>>

\* The node is disabled or revoked, or the credential expires.
CredentialEnds ==
    /\ credential = "valid"
    /\ credential' = "ended"
    /\ UNCHANGED <<now, signed, nonces, handled>>

SecondPasses ==
    /\ now < MaxSecond
    /\ now' = now + 1
    /\ UNCHANGED <<signed, nonces, handled, credential>>

RequestsInit ==
    /\ now = 0
    /\ signed = [r \in {} |-> 0]
    /\ nonces = {}
    /\ handled = [r \in {} |-> 0]
    /\ credential = "valid"

RequestsNext ==
    \/ \E offset \in -MaxOffset .. MaxOffset : SignRequest(offset)
    \/ \E r \in Wire : AuthenticateNode(r)
    \/ CredentialEnds
    \/ SecondPasses

RequestsSpec == RequestsInit /\ [][RequestsNext]_requestVars

-----------------------------------------------------------------------------

\* No signed request is handled twice, however often it is delivered: its nonce outlives
\* the window in which its timestamp is accepted, to the second, for a node whose clock
\* is ahead as for one that is behind (authenticate_node_request).
HandledOnce == \A r \in Wire : handled[r] <= 1

==============================================================================
