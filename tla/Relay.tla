-------------------------------- MODULE Relay --------------------------------
(***************************************************************************)
(* Relay grants: how the Control Service issues, publishes and revokes     *)
(* them (control-server/src/db.rs, relay.rs) through documents in a shared *)
(* directory (crates/relay-provisioning), how the Relay loads that         *)
(* directory (relay-server/src/registry.rs, relay.rs), and how a Node Host *)
(* installs and acknowledges generations (node-host/src/relay.rs, sync.rs).*)
(* Requests and the periodic reconciliation run concurrently: every        *)
(* transaction and every file operation is a step of a worker.  A grant is *)
(* the pair of its node and its generation; a node's grants all carry the  *)
(* endpoint of its one row in relay_routes.                                *)
(***************************************************************************)
EXTENDS Naturals, FiniteSets, FiniteSetsExt

CONSTANTS
    RelayNodes,   \* nodes that may share through the Relay
    Ports,        \* public_port_start .. public_port_end
    Handlers,     \* handlers of the nodes' requests that run at a time
    Operators,    \* the reconciliation loop and handlers of administrators' requests
    MaxGrant,     \* bound: generations of one node
    MaxIoFault    \* bound: failing file operations and listener binds

ASSUME RelayAssumption ==
    /\ IsFiniteSet(RelayNodes) /\ RelayNodes # {}
    /\ Ports \in SUBSET (Nat \ {0}) /\ IsFiniteSet(Ports)
    /\ IsFiniteSet(Handlers \cup Operators) /\ Handlers \cap Operators = {}
    /\ MaxGrant \in Nat \ {0} /\ MaxIoFault \in Nat

VARIABLES
    grant,      \* relay_grants.state
    port,       \* relay_grants.public_port, 0 before the grant exists
    lapsed,     \* grants past expires_at
    outbox,     \* incomplete relay_outbox rows: <<action, grant>>
    documents,  \* route documents in the managed directory
    worker,     \* what each worker is doing
    host,       \* ManagedRelayState of each node
    routes,     \* the Relay's active routes
    registered, \* grants with a registered tunnel
    ioFaults,   \* failures so far
    overtaken   \* history: grants whose document was written after they had left "pending"

relayVars == <<grant, port, lapsed, outbox, documents, worker, host, routes, registered, ioFaults, overtaken>>

Workers == Handlers \cup Operators
Grants == RelayNodes \X (1 .. MaxGrant)
NodeOf(g) == g[1]
GenerationOf(g) == g[2]
Jobs == {"publish", "revoke"} \X Grants
Resting == [at |-> "idle", for |-> "nothing", heard |-> FALSE, node |-> CHOOSE n \in RelayNodes : TRUE,
         pass |-> 0, jobs |-> {}, job |-> <<>>, draft |-> 0, port |-> 0]

-----------------------------------------------------------------------------
(* The Control Service's tables *)

\* relay_assignment: the generation a node is told to use, 0 for none.
Assignment(n) ==
    LET usable == {k \in 1 .. MaxGrant : grant[<<n, k>>] = "published" /\ <<n, k>> \notin lapsed}
    IN IF usable = {} THEN 0 ELSE Max(usable)

\* expire_relay_grants.
Expired ==
    [g \in Grants |-> IF g \in lapsed /\ grant[g] \in {"pending", "published"} THEN "revoking"
                      ELSE grant[g]]

\* INSERT OR IGNORE of a revoke row for every grant in a set that is being revoked.
QueueRevocations(states, gs) == outbox \cup {<<"revoke", g>> : g \in {x \in gs : states[x] = "revoking"}}

\* due_relay_outbox: rows whose action fits the grant's state.  The backoff only
\* delays a row, so a row may be due at any later time.
DueJobs ==
    {j \in outbox : \/ j[1] = "publish" /\ grant[j[2]] = "pending"
                    \/ j[1] = "revoke" /\ grant[j[2]] = "revoking"}

\* acknowledge_relay_assignment accepts exactly the newest published generation.
Acknowledges(g) ==
    /\ grant[g] = "published" /\ g \notin lapsed
    /\ \A k \in GenerationOf(g) + 1 .. MaxGrant : grant[<<NodeOf(g), k>>] # "published"

\* The public ports that no live grant holds; prepare_relay_grant takes the lowest.
FreePorts == Ports \ {port[g] : g \in {x \in Grants : grant[x] \in {"pending", "published", "revoking"}}}

-----------------------------------------------------------------------------
(* Reconciliation: RelayProvisioner::reconcile, step by step *)

Become(w, next) == worker' = [worker EXCEPT ![w] = next]

\* A reconciliation that a worker is about to run, what the worker does afterwards,
\* and whether node n waits for its answer.
Reconcile(w, for, n, heard) ==
    Become(w, [Resting EXCEPT !.at = "expire", !.for = for, !.node = n, !.heard = heard])

\* A node's calls follow one another (sync.rs).
Waits(n) == \E w \in Workers : worker[w].heard /\ worker[w].node = n

\* A handler that returned an error; its caller gets no answer.
Abort(w) == Become(w, Resting)

\* The end of a reconciliation: the loop sleeps, a request goes on.
Proceed(w, next) ==
    IF next.for = "nothing" THEN Abort(w)
    ELSE Become(w, [next EXCEPT !.at = next.for, !.jobs = {}, !.pass = 0, !.job = <<>>])

StartLoop(w) ==
    /\ worker[w].at = "idle"
    /\ Reconcile(w, "nothing", Resting.node, FALSE)
    /\ UNCHANGED <<grant, port, lapsed, outbox, documents, host, routes, registered, ioFaults, overtaken>>

ExpireGrants(w) ==
    /\ worker[w].at = "expire"
    /\ grant' = Expired
    /\ outbox' = QueueRevocations(Expired, Grants)
    /\ Become(w, [worker[w] EXCEPT !.at = "read", !.pass = 1])
    /\ UNCHANGED <<port, lapsed, documents, host, routes, registered, ioFaults, overtaken>>

ReadJobs(w) ==
    /\ worker[w].at = "read"
    /\ IF DueJobs = {} THEN Proceed(w, worker[w])
       ELSE Become(w, [worker[w] EXCEPT !.at = "work", !.jobs = DueJobs])
    /\ UNCHANGED <<grant, port, lapsed, outbox, documents, host, routes, registered, ioFaults, overtaken>>

\* ManagedRouteStore::publish and revoke, both idempotent.
FileAfter(j) == IF j[1] = "publish" THEN documents \cup {j[2]} ELSE documents \ {j[2]}

\* The file operation of a job takes effect.  The worker has read the job, and with it the
\* state of the grant, earlier.
CarryOut(j) ==
    /\ documents' = FileAfter(j)
    /\ overtaken' = IF j[1] = "publish" /\ grant[j[2]] # "pending" THEN overtaken \cup {j[2]} ELSE overtaken

RunJob(w, j) ==
    /\ worker[w].at = "work" /\ j \in worker[w].jobs
    /\ CarryOut(j)
    /\ Become(w, [worker[w] EXCEPT !.at = "mark", !.jobs = @ \ {j}, !.job = j])
    /\ UNCHANGED <<grant, port, lapsed, outbox, host, routes, registered, ioFaults>>

\* Mutant: the error of the file operation is not looked at.
FailJobIgnored(w, j) ==
    /\ worker[w].at = "work" /\ j \in worker[w].jobs /\ ioFaults < MaxIoFault
    /\ Become(w, [worker[w] EXCEPT !.at = "mark", !.jobs = @ \ {j}, !.job = j])
    /\ ioFaults' = ioFaults + 1
    /\ UNCHANGED <<grant, port, lapsed, outbox, documents, host, routes, registered, overtaken>>

\* The file operation failed, before or after the rename or the removal (the directory is
\* synced last): record_relay_outbox_failure keeps the row for later.
FailJob(w, j) ==
    /\ worker[w].at = "work" /\ j \in worker[w].jobs /\ ioFaults < MaxIoFault
    /\ CarryOut(j) \/ UNCHANGED <<documents, overtaken>>
    /\ Become(w, [worker[w] EXCEPT !.jobs = @ \ {j}])
    /\ ioFaults' = ioFaults + 1
    /\ UNCHANGED <<grant, port, lapsed, outbox, host, routes, registered>>

\* mark_relay_published fails unless the grant is still pending, and the error
\* ends the whole reconciliation.
MarkPublished(w) ==
    LET g == worker[w].job[2]
    IN /\ worker[w].at = "mark" /\ worker[w].job[1] = "publish"
       /\ IF grant[g] = "pending"
          THEN /\ grant' = [grant EXCEPT ![g] = "published"]
               /\ outbox' = outbox \ {worker[w].job}
               /\ Become(w, [worker[w] EXCEPT !.at = "work", !.job = <<>>])
          ELSE Abort(w) /\ UNCHANGED <<grant, outbox>>
       /\ UNCHANGED <<port, lapsed, documents, host, routes, registered, ioFaults, overtaken>>

MarkRevoked(w) ==
    LET g == worker[w].job[2]
    IN /\ worker[w].at = "mark" /\ worker[w].job[1] = "revoke"
       /\ grant' = [grant EXCEPT ![g] = IF @ = "revoking" THEN "revoked" ELSE @]
       /\ outbox' = outbox \ {worker[w].job}
       /\ Become(w, [worker[w] EXCEPT !.at = "work", !.job = <<>>])
       /\ UNCHANGED <<port, lapsed, documents, host, routes, registered, ioFaults, overtaken>>

\* All jobs of a pass are done; there are two passes.
EndPass(w) ==
    /\ worker[w].at = "work" /\ worker[w].jobs = {}
    /\ IF worker[w].pass = 1 THEN Become(w, [worker[w] EXCEPT !.at = "read", !.pass = 2])
       ELSE Proceed(w, worker[w])
    /\ UNCHANGED <<grant, port, lapsed, outbox, documents, host, routes, registered, ioFaults, overtaken>>

-----------------------------------------------------------------------------
(* Requests: RelayProvisioner::ensure_assignment, acknowledge_assignment, revoke *)

\* GET relay-assignment, by a node that consents and may advertise.
Fetch(w, n) ==
    /\ worker[w].at = "idle" /\ ~ Waits(n) /\ host[n].consents
    /\ Become(w, [Resting EXCEPT !.at = "reply", !.for = "fetch", !.node = n, !.heard = TRUE, !.draft = Assignment(n)])
    /\ UNCHANGED <<grant, port, lapsed, outbox, documents, host, routes, registered, ioFaults, overtaken>>

\* POST relay-assignment: managed_ensure_allowed, then ensure_assignment's first reconciliation.
Ensure(w, n) ==
    /\ worker[w].at = "idle" /\ ~ Waits(n) /\ host[n].consents /\ ~ host[n].blocked
    /\ Reconcile(w, "decide", n, TRUE)
    /\ UNCHANGED <<grant, port, lapsed, outbox, documents, host, routes, registered, ioFaults, overtaken>>

\* An assignment that is neither about to expire nor above the provider's limits is returned.
KeepAssignment(w) ==
    /\ worker[w].at = "decide" /\ Assignment(worker[w].node) # 0
    /\ Become(w, [worker[w] EXCEPT !.at = "reply", !.for = "ensure", !.draft = Assignment(worker[w].node)])
    /\ UNCHANGED <<grant, port, lapsed, outbox, documents, host, routes, registered, ioFaults, overtaken>>

\* prepare_relay_grant: the next generation on the lowest free port; without a port it fails.
PrepareGrant(w) ==
    LET n == worker[w].node
        known == {k \in 1 .. MaxGrant : grant[<<n, k>>] # "none"}
        next == IF known = {} THEN 1 ELSE Max(known) + 1
    IN /\ worker[w].at = "decide" /\ next <= MaxGrant
       /\ IF FreePorts = {} THEN Abort(w)
          ELSE Become(w, [worker[w] EXCEPT !.at = "store", !.draft = next, !.port = Min(FreePorts)])
       /\ UNCHANGED <<grant, port, lapsed, outbox, documents, host, routes, registered, ioFaults, overtaken>>

\* store_pending_relay_grant, after the certificate was issued; (route, generation) is unique.
StoreGrant(w) ==
    LET g == <<worker[w].node, worker[w].draft>>
    IN /\ worker[w].at = "store"
       /\ IF grant[g] # "none" THEN Abort(w) /\ UNCHANGED <<grant, port, outbox>>
          ELSE /\ grant' = [grant EXCEPT ![g] = "pending"]
               /\ port' = [port EXCEPT ![g] = worker[w].port]
               /\ outbox' = outbox \cup {<<"publish", g>>}
               /\ Reconcile(w, "answer", worker[w].node, worker[w].heard)
       /\ UNCHANGED <<lapsed, documents, host, routes, registered, ioFaults, overtaken>>

\* The assignment an ensure answers with after its second reconciliation.
Answer(w) ==
    /\ worker[w].at = "answer"
    /\ Become(w, [worker[w] EXCEPT !.at = "reply", !.for = "ensure", !.draft = Assignment(worker[w].node)])
    /\ UNCHANGED <<grant, port, lapsed, outbox, documents, host, routes, registered, ioFaults, overtaken>>

\* acknowledgement_candidate, then acknowledge_relay_assignment and its reconciliation.
Acknowledge(w, n) ==
    LET g == <<n, host[n].successor>>
        states == [x \in Grants |-> IF /\ NodeOf(x) = n /\ GenerationOf(x) < GenerationOf(g)
                                       /\ grant[x] = "published"
                                    THEN "revoking" ELSE grant[x]]
    IN /\ worker[w].at = "idle" /\ ~ Waits(n)
       /\ host[n].successor # 0 /\ g \notin lapsed /\ g \in registered
       /\ Acknowledges(g)
       /\ grant' = states
       /\ outbox' = QueueRevocations(states, {n} \X (1 .. MaxGrant))
       /\ Become(w, [Resting EXCEPT !.at = "expire", !.for = "acknowledged", !.node = n, !.heard = TRUE,
                                  !.draft = GenerationOf(g)])
       /\ UNCHANGED <<port, lapsed, documents, host, routes, registered, ioFaults, overtaken>>

\* revoke_relay_grant by an administrator, and its reconciliation.
Revoke(w, g) ==
    LET states == [grant EXCEPT ![g] = IF @ \in {"pending", "published"} THEN "revoking" ELSE @]
    IN /\ worker[w].at = "idle" /\ grant[g] \in {"pending", "published", "revoking"}
       /\ grant' = states
       /\ outbox' = QueueRevocations(states, {g})
       /\ Reconcile(w, "nothing", NodeOf(g), FALSE)
       /\ UNCHANGED <<port, lapsed, documents, host, routes, registered, ioFaults, overtaken>>

\* A grant reaches its expires_at.
Lapse(g) ==
    /\ grant[g] # "none" /\ g \notin lapsed
    /\ lapsed' = lapsed \cup {g}
    /\ UNCHANGED <<grant, port, outbox, documents, worker, host, routes, registered, ioFaults, overtaken>>

-----------------------------------------------------------------------------
(* The Node Host *)

Slots(n) == {host[n].current, host[n].successor} \ {0}

\* install_controller_assignment and reconcile_existing_controller_assignment.
Installed(h, k) ==
    IF k = h.current /\ k # 0 THEN [h EXCEPT !.successor = IF @ > k THEN 0 ELSE @]
    ELSE IF (k = h.successor /\ k # 0) \/ k < Max({h.current, h.successor}) THEN h
    ELSE [h EXCEPT !.successor = k, !.blocked = FALSE]

\* withdraw_managed_assignments.
Withdrawn(h, block) == [h EXCEPT !.current = 0, !.successor = 0, !.blocked = @ \/ block]

\* The node receives the answer it waits for.
DeliverAnswer(w) ==
    LET n == worker[w].node
        k == worker[w].draft
        h == host[n]
    IN /\ worker[w].at = "reply" /\ worker[w].heard
       /\ host' = [host EXCEPT ![n] =
              IF k # 0 THEN Installed(h, k)
              ELSE IF worker[w].for = "fetch" /\ Slots(n) # {} THEN Withdrawn(h, TRUE) ELSE h]
       /\ Abort(w)
       /\ UNCHANGED <<grant, port, lapsed, outbox, documents, routes, registered, ioFaults, overtaken>>

\* Control answers a fetch, an ensure or an acknowledgement with 401 or 403, and keeps
\* nothing of it: controller_withdrew_assignment takes both slots and blocks the consent.
ControllerRefuses(n) ==
    /\ ~ Waits(n) /\ host[n].consents
    /\ host' = [host EXCEPT ![n] = Withdrawn(@, TRUE)]
    /\ UNCHANGED <<grant, port, lapsed, outbox, documents, worker, routes, registered, ioFaults, overtaken>>

\* promote_managed_successor, when the acknowledgement is confirmed.
Promote(w) ==
    LET n == worker[w].node
        k == host[n].successor
    IN /\ worker[w].at = "acknowledged" /\ worker[w].heard
       /\ host' = IF k # 0 /\ k = worker[w].draft
                  THEN [host EXCEPT ![n].current = k, ![n].successor = 0] ELSE host
       /\ Abort(w)
       /\ UNCHANGED <<grant, port, lapsed, outbox, documents, routes, registered, ioFaults, overtaken>>

\* The node times out; the handler goes on.
GiveUp(w) ==
    /\ worker[w].heard
    /\ Become(w, [worker[w] EXCEPT !.heard = FALSE])
    /\ UNCHANGED <<grant, port, lapsed, outbox, documents, host, routes, registered, ioFaults, overtaken>>

\* An answer nobody waits for.
Unheard(w) ==
    /\ worker[w].at \in {"reply", "acknowledged"} /\ ~ worker[w].heard
    /\ Abort(w)
    /\ UNCHANGED <<grant, port, lapsed, outbox, documents, host, routes, registered, ioFaults, overtaken>>

\* load_runtime_assignments drops slots whose grant has expired.
DropExpired(n) ==
    /\ \E k \in Slots(n) : <<n, k>> \in lapsed
    /\ host' = [host EXCEPT ![n].current = IF <<n, @>> \in lapsed THEN 0 ELSE @,
                            ![n].successor = IF <<n, @>> \in lapsed THEN 0 ELSE @]
    /\ UNCHANGED <<grant, port, lapsed, outbox, documents, worker, routes, registered, ioFaults, overtaken>>

\* The provider withdraws relay consent (revoke_relay), or gives it anew.
SetConsent(n) ==
    /\ ~ Waits(n)
    /\ host' = [host EXCEPT ![n] = IF @.consents
                                   THEN [Withdrawn(@, FALSE) EXCEPT !.consents = FALSE, !.blocked = FALSE]
                                   ELSE [@ EXCEPT !.consents = TRUE]]
    /\ UNCHANGED <<grant, port, lapsed, outbox, documents, worker, routes, registered, ioFaults, overtaken>>

-----------------------------------------------------------------------------
(* The Relay *)

\* load_managed_routes refuses a directory in which two current documents share
\* an endpoint or a public port.
Loads(gs) ==
    \A g, h \in gs : g # h => NodeOf(g) # NodeOf(h) /\ port[g] # port[h]

\* run_managed_routes_watcher reads the directory and apply_routes replaces the
\* route map: removed routes lose their tunnels, missing ones are started.  A
\* directory that does not load keeps the last good map.
ApplyRoutes ==
    /\ Loads(documents \ lapsed) /\ routes # documents \ lapsed
    /\ routes' = documents \ lapsed
    /\ registered' = registered \cap routes'
    /\ UNCHANGED <<grant, port, lapsed, outbox, documents, worker, host, ioFaults, overtaken>>

\* start_route fails for some route: the removals stand, the poll is repeated.
ApplyFails ==
    /\ Loads(documents \ lapsed) /\ ~ documents \ lapsed \subseteq routes /\ ioFaults < MaxIoFault
    /\ routes' = routes \cap (documents \ lapsed)
    /\ registered' = registered \cap routes'
    /\ ioFaults' = ioFaults + 1
    /\ UNCHANGED <<grant, port, lapsed, outbox, documents, worker, host, overtaken>>

\* A connector registers the grant it was installed for.
Register(n, k) ==
    /\ k \in Slots(n) /\ <<n, k>> \in routes \ (lapsed \cup registered)
    /\ registered' = registered \cup {<<n, k>>}
    /\ UNCHANGED <<grant, port, lapsed, outbox, documents, worker, host, routes, ioFaults, overtaken>>

\* The tunnel breaks, expires, or is stopped because its slot is gone.
TunnelEnds(g) ==
    /\ g \in registered
    /\ registered' = registered \ {g}
    /\ UNCHANGED <<grant, port, lapsed, outbox, documents, worker, host, routes, ioFaults, overtaken>>

-----------------------------------------------------------------------------
\* relay_routes, relay_grants and relay_outbox.
EmptyRelayTables ==
    grant = [g \in Grants |-> "none"] /\ port = [g \in Grants |-> 0] /\ lapsed = {} /\ outbox = {}

\* StoredAssignment and ManagedRelayState: the provider consented, nothing is assigned.
NoAssignment == [consents |-> TRUE, blocked |-> FALSE, current |-> 0, successor |-> 0]

\* Nothing is published, loaded or registered.
NoRoutes == documents = {} /\ routes = {} /\ registered = {}

RelayInit ==
    /\ EmptyRelayTables /\ NoRoutes
    /\ worker = [w \in Workers |-> Resting]
    /\ host = [n \in RelayNodes |-> NoAssignment]
    /\ ioFaults = 0 /\ overtaken = {}

ReconcileStep(w) ==
    \/ ExpireGrants(w) \/ ReadJobs(w) \/ EndPass(w)
    \/ \E j \in Jobs : RunJob(w, j) \/ FailJob(w, j)
    \/ MarkPublished(w) \/ MarkRevoked(w)

OperatorStep(w) == StartLoop(w) \/ \E g \in Grants : Revoke(w, g)

RequestStep(w) ==
    \/ \E n \in RelayNodes : Fetch(w, n) \/ Ensure(w, n) \/ Acknowledge(w, n)
    \/ KeepAssignment(w) \/ PrepareGrant(w) \/ StoreGrant(w) \/ Answer(w)
    \/ DeliverAnswer(w) \/ Promote(w) \/ GiveUp(w) \/ Unheard(w)

NodeStep(n) ==
    DropExpired(n) \/ SetConsent(n) \/ ControllerRefuses(n) \/ \E k \in 1 .. MaxGrant : Register(n, k)

RelayNext ==
    \/ \E w \in Workers : ReconcileStep(w)
    \/ \E w \in Handlers : RequestStep(w)
    \/ \E w \in Operators : OperatorStep(w)
    \/ \E n \in RelayNodes : NodeStep(n)
    \/ \E g \in Grants : Lapse(g) \/ TunnelEnds(g)
    \/ ApplyRoutes \/ ApplyFails

RelaySpec == RelayInit /\ [][RelayNext]_relayVars

-----------------------------------------------------------------------------
(* Properties *)

\* Whatever reconciliations overlap, a published grant's document is in the
\* managed directory: mark_relay_published follows the file, and no revoke job
\* that was read earlier can remove it.
PublishedIsOnDisk == \A g \in Grants : grant[g] = "published" => g \in documents

\* The outbox never loses work: a pending grant has its publish row and a
\* revoking one its revoke row until a worker that carried it out has recorded it.
OutboxCoversGrants ==
    \A g \in Grants : /\ grant[g] = "pending" => <<"publish", g>> \in outbox
                      /\ grant[g] = "revoking" => <<"revoke", g>> \in outbox

\* A grant that is recorded as revoked has no document in the managed directory, with one
\* exception: a worker wrote the document after the grant had ceased to be pending.  Its
\* job was read before the revocation, by a reconciliation that overlapped the one that
\* revoked (relay.rs reconcile holds no lock), and no outbox row is left to remove it.
RevokedIsOffDisk ==
    \A g \in Grants : grant[g] = "revoked" /\ g \in documents => g \in overtaken

\* The generations a node keeps are strictly ordered, whatever answers arrive
\* late: load_managed_state refuses a state in which they are not, and the
\* node could then neither run nor replace its relay assignment.
ManagedStateLoads ==
    \A n \in RelayNodes : host[n].current # 0 /\ host[n].successor # 0 => host[n].current < host[n].successor

\* RELAY_PROVISIONING.md: generations N and N+1 coexist on distinct public
\* ports while the new path is registered.  Whenever the Relay reads the
\* directory, the documents it finds can be loaded.
CoexistingGenerations == Loads(documents \ lapsed)

\* A grant's row and the Relay's disk, wherever the workers are: published is on disk,
\* pending and revoking have the outbox row that will carry them out, revoked is off disk
\* unless an overlapping worker wrote the document late; and a node's own slots stay in
\* order (db.rs, control-server relay.rs, node-host relay.rs).
GrantsAreCarriedOut == PublishedIsOnDisk /\ OutboxCoversGrants /\ RevokedIsOffDisk /\ ManagedStateLoads
=============================================================================
