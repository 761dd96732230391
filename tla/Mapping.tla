------------------------------- MODULE Mapping -------------------------------
(***************************************************************************)
(* The Node Host's automatic router mapping: the lease journal and its     *)
(* supervisor (node-host/src/mapping.rs) and what PCP, NAT-PMP and UPnP    *)
(* requests may do to the router (router_protocol.rs).  The supervisor     *)
(* waits for the router between reading the journal and writing it; the    *)
(* process may die, the network may change and leases may end meanwhile.   *)
(* A renewal keeps the router's mapping and adds a row to the journal.     *)
(***************************************************************************)
EXTENDS Naturals, FiniteSets

CONSTANTS
    Gateways,     \* networks the node may be in
    MaxTarget,    \* bound: applied revisions that want a mapping
    MaxLease,     \* bound: rows of router_mapping_leases
    MaxTrouble    \* bound: router failures, crashes and changes of network

ASSUME MappingAssumption ==
    /\ IsFiniteSet(Gateways) /\ Gateways # {}
    /\ {MaxTarget, MaxLease} \subseteq Nat \ {0} /\ MaxTrouble \in Nat

VARIABLES
    lease,     \* router_mapping_leases: row state, router mapping, revision
    lastError, \* last_mapping_error_code: none, transient or the retry fuse
    gateway,   \* discover_default_route: the network the node is in
    target,    \* router_mapping_target: the revision to map, 0 for none
    request,   \* what the supervisor waits for
    mapped,    \* mappings of this node that routers hold: <<gateway, number>>
    ended,     \* rows past lease_expires_at
    settled,   \* whether a pass ended and nothing has changed since
    troubles   \* troubles so far

mappingVars == <<lease, lastError, gateway, target, request, mapped, ended, settled, troubles>>

Leases == 1 .. MaxLease
NoLease == [state |-> "none", slot |-> <<>>, revision |-> 0]
NoRequest == [at |-> "idle", row |-> 0, revision |-> 0, fused |-> FALSE]

Owned == {l \in Leases : lease[l].state \in {"active", "releasing"}}
Unused == {l \in Leases : lease[l].state = "none"}
NextLease == CHOOSE l \in Unused : \A k \in Unused : l <= k

\* load_heartbeat_candidates: the rows a heartbeat offers.
HeartbeatCandidates ==
    {l \in Leases : lease[l].state = "active" /\ lease[l].revision = target /\ l \notin ended}

\* topology_matches.
AtHome(l) == lease[l].slot[1] = gateway

\* persist_mapping: the predecessor ends, the new row is active, the error is cleared.
Persisted(l, predecessor, slot, revision) ==
    [k \in Leases |-> CASE k = l -> [state |-> "active", slot |-> slot, revision |-> revision]
                        [] k = predecessor -> [lease[k] EXCEPT !.state = "released"]
                        [] OTHER -> lease[k]]

-----------------------------------------------------------------------------
(* reconcile: what a pass decides from the journal it read *)

MustRelease(l) ==
    lease[l].state = "releasing" \/ target # lease[l].revision \/ l \in ended

\* A mapping made in another network is given up without a request to this one.
AbandonForeign(l) ==
    /\ request.at = "idle" /\ l \in Owned /\ ~ AtHome(l)
    /\ lease' = [lease EXCEPT ![l].state = "abandoned"]
    /\ settled' = FALSE
    /\ UNCHANGED <<lastError, gateway, target, request, mapped, ended, troubles>>

\* release_current: marked in the journal before the router is asked.
BeginRelease(l) ==
    /\ request.at = "idle" /\ l \in Owned /\ AtHome(l) /\ MustRelease(l)
    /\ lease' = [lease EXCEPT ![l].state = "releasing"]
    /\ request' = [at |-> "release", row |-> l, revision |-> target, fused |-> lastError = "fuse"]
    /\ settled' = FALSE
    /\ UNCHANGED <<lastError, gateway, target, mapped, ended, troubles>>

BeginRenewal(l) ==
    /\ request.at = "idle" /\ l \in Owned /\ AtHome(l) /\ ~ MustRelease(l)
    /\ Unused # {}
    /\ request' = [at |-> "renew", row |-> l, revision |-> target, fused |-> FALSE]
    /\ UNCHANGED <<lease, lastError, gateway, target, mapped, ended, settled, troubles>>

\* No row is owned: a new mapping, unless the fuse has tripped.
BeginCreate ==
    /\ request.at = "idle" /\ Owned = {} /\ target # 0 /\ lastError # "fuse"
    /\ Unused # {}
    /\ request' = [at |-> "create", row |-> 0, revision |-> target, fused |-> FALSE]
    /\ UNCHANGED <<lease, lastError, gateway, target, mapped, ended, settled, troubles>>

\* A pass with nothing to do.
Rest ==
    /\ request.at = "idle" /\ \A l \in Owned : AtHome(l) /\ ~ MustRelease(l)
    /\ settled' = TRUE
    /\ UNCHANGED <<lease, lastError, gateway, target, request, mapped, ended, troubles>>

\* shutdown: a clean stop asks for the release of what is owned.
BeginShutdown(l) ==
    /\ request.at = "idle" /\ l \in Owned /\ AtHome(l)
    /\ lease' = [lease EXCEPT ![l].state = "releasing"]
    /\ request' = [at |-> "release", row |-> l, revision |-> 0, fused |-> FALSE]
    /\ settled' = FALSE
    /\ UNCHANGED <<lastError, gateway, target, mapped, ended, troubles>>

-----------------------------------------------------------------------------
(* Answers of the router *)

\* The pass goes on after a release: it may create a mapping, on what it read before.
AfterRelease ==
    IF request.revision # 0 /\ ~ request.fused /\ Unused # {}
    THEN [at |-> "create", row |-> 0, revision |-> request.revision, fused |-> FALSE] ELSE NoRequest

\* The router dropped the mapping; mapping_route proved it is the same router.
Released ==
    /\ request.at = "release" /\ AtHome(request.row)
    /\ mapped' = mapped \ {lease[request.row].slot}
    /\ lease' = [lease EXCEPT ![request.row].state = "released"]
    /\ lastError' = "none"
    /\ request' = AfterRelease
    /\ settled' = FALSE
    /\ UNCHANGED <<gateway, target, ended, troubles>>

\* Mutant: an answer that never came is taken for a release.
ReleaseFailsQuietly ==
    /\ request.at = "release" /\ AtHome(request.row) /\ troubles < MaxTrouble
    /\ lease' = [lease EXCEPT ![request.row].state = "released"]
    /\ lastError' = "none" /\ request' = AfterRelease
    /\ settled' = FALSE /\ troubles' = troubles + 1
    /\ UNCHANGED <<gateway, target, mapped, ended>>

\* No proof that the mapping is gone.  A lease that is over is abandoned,
\* another stays releasing and is tried again.
ReleaseFails ==
    /\ request.at = "release" /\ AtHome(request.row) /\ troubles < MaxTrouble
    /\ \E after \in {mapped, mapped \ {lease[request.row].slot}} : mapped' = after
    /\ IF request.row \in ended
       THEN /\ lease' = [lease EXCEPT ![request.row].state = "abandoned"]
            /\ lastError' = "none" /\ request' = AfterRelease
       ELSE /\ lastError' \in {"transient", "fuse"}
            /\ request' = NoRequest /\ UNCHANGED lease
    /\ settled' = FALSE /\ troubles' = troubles + 1
    /\ UNCHANGED <<gateway, target, ended>>

\* The network changed while the release was under way.
ReleaseElsewhere ==
    /\ request.at = "release" /\ ~ AtHome(request.row)
    /\ lease' = [lease EXCEPT ![request.row].state = "abandoned"]
    /\ lastError' = "none" /\ request' = AfterRelease
    /\ settled' = FALSE
    /\ UNCHANGED <<gateway, target, mapped, ended, troubles>>

\* The renewed lease replaces its row in one transaction.
Renewed ==
    /\ request.at = "renew" /\ AtHome(request.row)
    /\ lease' = Persisted(NextLease, request.row, lease[request.row].slot, request.revision)
    /\ mapped' = mapped \cup {lease[request.row].slot}
    /\ lastError' = "none" /\ request' = NoRequest
    /\ settled' = FALSE
    /\ UNCHANGED <<gateway, target, ended, troubles>>

\* The renewal succeeded and could not be committed: the row is withdrawn.
RenewalNotCommitted ==
    /\ request.at = "renew" /\ AtHome(request.row) /\ troubles < MaxTrouble
    /\ lease' = [lease EXCEPT ![request.row].state = "releasing"]
    /\ mapped' = mapped \cup {lease[request.row].slot}
    /\ request' = NoRequest /\ settled' = FALSE /\ troubles' = troubles + 1
    /\ UNCHANGED <<lastError, gateway, target, ended>>

\* A failure that may pass keeps the lease (record_failure).
RenewalPostponed ==
    /\ request.at = "renew" /\ troubles < MaxTrouble
    /\ lastError' = "transient" /\ request' = NoRequest
    /\ settled' = FALSE /\ troubles' = troubles + 1
    /\ UNCHANGED <<lease, gateway, target, mapped, ended>>

\* The mapping is no longer proven to be the node's: the lease is given up.
RenewalLost ==
    /\ request.at = "renew" /\ troubles < MaxTrouble
    /\ lease' = [lease EXCEPT ![request.row].state = "abandoned"]
    /\ request' = NoRequest /\ settled' = FALSE /\ troubles' = troubles + 1
    /\ UNCHANGED <<lastError, gateway, target, mapped, ended>>

\* Mappings that a request of the current network may create.
NewSlot == <<gateway, NextLease>>

Created ==
    /\ request.at = "create"
    /\ lease' = Persisted(NextLease, 0, NewSlot, request.revision)
    /\ mapped' = mapped \cup {NewSlot}
    /\ lastError' = "none" /\ request' = NoRequest
    /\ settled' = FALSE
    /\ UNCHANGED <<gateway, target, ended, troubles>>

\* Nothing was created, or what was created is gone again.
CreateFails ==
    /\ request.at = "create" /\ troubles < MaxTrouble
    /\ lastError' = "transient" /\ request' = NoRequest
    /\ settled' = FALSE /\ troubles' = troubles + 1
    /\ UNCHANGED <<lease, gateway, target, mapped, ended>>

\* A mapping was created and neither its ownership nor its removal could be proven.
CreateUnproven ==
    /\ request.at = "create" /\ troubles < MaxTrouble
    /\ mapped' = mapped \cup {NewSlot}
    /\ lastError' = "fuse" /\ request' = NoRequest
    /\ settled' = FALSE /\ troubles' = troubles + 1
    /\ UNCHANGED <<lease, gateway, target, ended>>

\* The answer to a request that created a mapping did not arrive in time.
CreateTimesOut ==
    /\ request.at = "create" /\ troubles < MaxTrouble
    /\ mapped' = mapped \cup {NewSlot}
    /\ lastError' = "transient" /\ request' = NoRequest
    /\ settled' = FALSE /\ troubles' = troubles + 1
    /\ UNCHANGED <<lease, gateway, target, ended>>

-----------------------------------------------------------------------------
(* The process, the network and time *)

\* The service dies while it waits; the router may have carried out the request.
CrashMapping ==
    /\ request.at # "idle" /\ troubles < MaxTrouble
    /\ CASE request.at = "create" -> mapped' \in {mapped, mapped \cup {NewSlot}}
         [] request.at = "release" /\ AtHome(request.row) -> mapped' \in {mapped, mapped \ {lease[request.row].slot}}
         [] OTHER -> mapped' = mapped
    /\ request' = NoRequest /\ settled' = FALSE /\ troubles' = troubles + 1
    /\ UNCHANGED <<lease, lastError, gateway, target, ended>>

ChangeNetwork(g) ==
    /\ g # gateway /\ troubles < MaxTrouble
    /\ gateway' = g
    /\ settled' = FALSE /\ troubles' = troubles + 1
    /\ UNCHANGED <<lease, lastError, target, request, mapped, ended>>

\* Xray serves another revision, or nothing (pause, failure, retirement).
ChangeTarget(r) ==
    /\ request.at = "idle" /\ r # target
    /\ target' = r /\ settled' = FALSE
    /\ UNCHANGED <<lease, lastError, gateway, request, mapped, ended, troubles>>

\* A lease reaches its expiry, here and on the router, unless a renewal is under way.
LeaseEnds(l) ==
    /\ l \in Owned \ ended /\ request.at # "renew"
    /\ ended' = ended \cup {l}
    /\ mapped' = mapped \ {lease[l].slot}
    /\ settled' = FALSE
    /\ UNCHANGED <<lease, lastError, gateway, target, request, troubles>>

-----------------------------------------------------------------------------
MappingInit ==
    /\ lease = [l \in Leases |-> NoLease] /\ lastError = "none"
    /\ gateway \in Gateways /\ target = 0 /\ request = NoRequest
    /\ mapped = {} /\ ended = {} /\ settled = FALSE /\ troubles = 0

RouterAnswers ==
    \/ Released \/ ReleaseFails \/ ReleaseElsewhere
    \/ Renewed \/ RenewalNotCommitted \/ RenewalPostponed \/ RenewalLost
    \/ Created \/ CreateFails \/ CreateUnproven \/ CreateTimesOut

MappingNext ==
    \/ \E l \in Leases : AbandonForeign(l) \/ BeginRelease(l) \/ BeginRenewal(l) \/ BeginShutdown(l) \/ LeaseEnds(l)
    \/ BeginCreate \/ Rest \/ RouterAnswers \/ CrashMapping
    \/ \E g \in Gateways : ChangeNetwork(g)
    \/ \E r \in 0 .. MaxTarget : ChangeTarget(r)

MappingSpec == MappingInit /\ [][MappingNext]_mappingVars

-----------------------------------------------------------------------------
\* What the journal calls released the router no longer holds, unless a renewal
\* took the mapping over: no time-out, crash, lost answer or change of network
\* lets the node forget a mapping it could still have removed.  There is never
\* more than one row the node acts on.
ReleasedIsGone ==
    /\ Cardinality(Owned) <= 1
    /\ \A l \in Leases :
           lease[l].state = "released" /\ lease[l].slot \in mapped =>
               \E k \in Leases : k > l /\ lease[k].slot = lease[l].slot /\ lease[k].state # "released"

\* Once a pass had nothing left to do, a mapping that is offered in heartbeats
\* belongs to the revision that is served and to the network the node is in.
OfferedFitsTarget ==
    settled => \A l \in Leases : lease[l].state = "active" => AtHome(l) /\ l \in HeartbeatCandidates

\* The router carries exactly what the lease table owns, and what is offered fits the
\* gateway and the revision it was made for (mapping.rs reconcile, release_current).
MappingsAreOwned == ReleasedIsGone /\ OfferedFitsTarget
=============================================================================
