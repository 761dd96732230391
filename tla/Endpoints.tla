------------------------------ MODULE Endpoints ------------------------------
(***************************************************************************)
(* Where a node can be reached: the candidates its heartbeats report, the  *)
(* TCP probes and protocol canaries the Control Service runs against them, *)
(* and the verifications that members' bundles rest on (record_heartbeat,  *)
(* claim_* and complete_* of control-server/src/db.rs, probe.rs,           *)
(* protocol_canary.rs).  One active node: heartbeats may be lost, repeated *)
(* or overtaken; runners may be late or die with their claim.              *)
(***************************************************************************)
EXTENDS Naturals, Sequences, FiniteSets

CONSTANTS
    Routes,         \* ways to reach a node (a mapping, a manual endpoint, a relay grant)
    MaxRevision,    \* bound: revisions published for the node
    MaxHeartbeat,  \* bound: heartbeats sent
    MaxAttempt      \* bound: rows of endpoint_probe_attempts

ASSUME EndpointsAssumption ==
    /\ IsFiniteSet(Routes)
    /\ {MaxRevision, MaxHeartbeat, MaxAttempt} \subseteq Nat \ {0}

VARIABLES
    snapshots,     \* node_revision_canary_credentials: each revision's canary, in order
    canary,        \* endpoint_canary_credentials: the generation that is active
    host,          \* the node: applied revision and persisted heartbeat generation
    heartbeats,    \* heartbeats that were sent and may arrive, once, often or never
    row,           \* the node's row: last generation, applied revision, state
    candidate,     \* node_endpoint_candidates
    verification,  \* node_endpoint_verifications: status; lapsed: verified and past its expiry
    attempt,       \* endpoint_probe_attempts; overdue: claimed and past its lease
    running        \* attempts whose runner has yet to answer

endpointVars ==
    <<snapshots, canary, host, heartbeats, row, candidate, verification, attempt, running>>

\* An endpoint identity belongs to one revision: a new lease or revision has a new one.
EndpointIds == (1 .. MaxRevision) \X Routes
Attempts == 1 .. MaxAttempt

NoCandidate == [reported |-> 0, since |-> 0, withdrawn |-> FALSE]
NoAttempt == [phase |-> "none", endpoint |-> <<>>, generation |-> 0, canary |-> 0, status |-> "none"]

Stored(e) == candidate[e].reported # 0
Current(e) == Stored(e) /\ ~ candidate[e].withdrawn

-----------------------------------------------------------------------------
(* The node *)

\* The first publication of a node generates its canary.
EnsureEndpointCanaryCredential == IF canary = 0 THEN 1 ELSE canary

\* The canary that is active is compiled into every revision that is published.
PublishForNode ==
    /\ Len(snapshots) < MaxRevision
    /\ canary' = EnsureEndpointCanaryCredential
    /\ snapshots' = Append(snapshots, canary')
    /\ UNCHANGED <<host, heartbeats, row, candidate, verification, attempt, running>>

ApplyForNode(r) ==
    /\ host.applied < r
    /\ host' = [host EXCEPT !.applied = r]
    /\ UNCHANGED <<snapshots, canary, heartbeats, row, candidate, verification, attempt, running>>

\* record_revision_result: the result, not the heartbeat, moves the applied revision.
ReportApplied ==
    /\ row.applied < host.applied
    /\ row' = [row EXCEPT !.applied = host.applied]
    /\ UNCHANGED <<snapshots, canary, host, heartbeats, candidate, verification, attempt, running>>

\* The generation is committed before the request; only a serving node offers endpoints.
SendHeartbeat(state, offered) ==
    /\ host.applied # 0 /\ host.generation < MaxHeartbeat
    /\ state # "serving" => offered = {}
    /\ host' = [host EXCEPT !.generation = @ + 1]
    /\ heartbeats' = heartbeats \cup
           {[generation |-> host.generation + 1, applied |-> host.applied, state |-> state,
             offered |-> {host.applied} \X offered]}
    /\ UNCHANGED <<snapshots, canary, row, candidate, verification, attempt, running>>

-----------------------------------------------------------------------------
(* record_heartbeat *)

\* An older generation is refused, the same one is answered again.
IsNewest(h) == h.generation > row.generation

\* ensure_authoritative_progress: a heartbeat must agree with the revision results.
AgreesOnProgress(h) == h.applied = row.applied

\* insert_endpoint_candidate.
Inserted(generation) == [reported |-> generation, since |-> generation, withdrawn |-> FALSE]

\* refresh_endpoint_candidate: one that comes back after a withdrawal starts anew.
Refreshed(e, generation) ==
    IF Current(e) THEN [candidate[e] EXCEPT !.reported = generation] ELSE Inserted(generation)

\* withdraw_missing_candidates.
Withdrawn(e) == IF Current(e) THEN [candidate[e] EXCEPT !.withdrawn = TRUE] ELSE candidate[e]

VerificationAfter(e, h) ==
    CASE e \in h.offered /\ ~ Current(e) -> "pending"
      [] e \notin h.offered /\ Stored(e) -> "withdrawn"
      [] OTHER -> verification[e]

\* Claims on an endpoint that was withdrawn are cancelled when it comes back.
CancelledByReturn(a, h) ==
    /\ attempt[a].status \in {"claimed", "overdue"}
    /\ attempt[a].endpoint \in {e \in h.offered : Stored(e) /\ ~ Current(e)}

RecordEndpointCandidates(h) ==
    /\ candidate' = [e \in EndpointIds |->
           IF e \in h.offered THEN Refreshed(e, h.generation) ELSE Withdrawn(e)]
    /\ verification' = [e \in EndpointIds |-> VerificationAfter(e, h)]
    /\ attempt' = [a \in Attempts |->
           IF CancelledByReturn(a, h) THEN [attempt[a] EXCEPT !.status = "cancelled"] ELSE attempt[a]]

StoreHeartbeat(h) ==
    /\ IsNewest(h) /\ AgreesOnProgress(h)
    /\ row' = [row EXCEPT !.generation = h.generation, !.state = h.state]
    /\ RecordEndpointCandidates(h)
    /\ UNCHANGED <<snapshots, canary, host, heartbeats, running>>

-----------------------------------------------------------------------------
(* Probes and canaries *)

Unclaimed == {a \in Attempts : attempt[a].status = "none"}

\* expire_stale_probe_claims, at the start of every claim.
ExpireStale == [a \in Attempts |->
    IF attempt[a].status = "overdue" THEN [attempt[a] EXCEPT !.status = "expired"] ELSE attempt[a]]

\* SELECT_DUE_TCP_PROBE_SQL.
MayProbe(e) ==
    /\ row.state = "serving" /\ e[1] = row.applied
    /\ Current(e) /\ candidate[e].reported = row.generation /\ verification[e] # "withdrawn"

Succeeded(phase, e) == {a \in Attempts :
    attempt[a].phase = phase /\ attempt[a].status = "succeeded" /\ attempt[a].endpoint = e}

\* claim_protocol_canary: a TCP success of this offer, and the canary of the revision is active.
MayRunCanary(e) ==
    /\ MayProbe(e) /\ snapshots[e[1]] = canary
    /\ \E a \in Succeeded("tcp", e) : attempt[a].generation >= candidate[e].since

\* insert_tcp_probe_claim, and what claim_protocol_canary inserts.
TcpClaim(e) ==
    [phase |-> "tcp", endpoint |-> e, generation |-> candidate[e].reported, canary |-> 0, status |-> "claimed"]

CanaryClaim(e) == [TcpClaim(e) EXCEPT !.phase = "protocol", !.canary = snapshots[e[1]]]

\* At most one claim of a node at a time.
Claim(phase, e) ==
    /\ Unclaimed # {} /\ \A a \in Attempts : attempt[a].status # "claimed"
    /\ IF phase = "tcp" THEN MayProbe(e) ELSE MayRunCanary(e)
    /\ LET a == CHOOSE a \in Unclaimed : \A b \in Unclaimed : a <= b
       IN /\ attempt' = [ExpireStale EXCEPT ![a] =
                 IF phase = "tcp" THEN TcpClaim(e) ELSE CanaryClaim(e)]
          /\ running' = running \cup {a}
    /\ UNCHANGED <<snapshots, canary, host, heartbeats, row, candidate, verification>>

\* probe_candidate_is_current.
CandidateIsCurrent(job) ==
    MayProbe(job.endpoint) /\ candidate[job.endpoint].reported = job.generation

\* Mutant: the credential is not looked up again when the answer arrives.
CredentialIsTrusted(job) == TRUE

\* protocol_canary_credential_is_current.
CredentialIsCurrent(job) == job.phase = "protocol" =>
    snapshots[job.endpoint[1]] = canary /\ job.canary = canary

\* What complete_tcp_probe and complete_protocol_canary make of an answer.
Outcome(job, result) ==
    CASE job.status = "claimed" ->
             IF CandidateIsCurrent(job) /\ CredentialIsCurrent(job) THEN result ELSE "cancelled"
      [] job.status = "overdue" -> "expired"
      [] OTHER -> job.status

\* The probe worker's executeProbe: whatever it races, one of four results, or no answer.
WorkerAnswers == {"connected", "unreachable", "timed_out", "executor_failed", "none"}

\* probe_remote_http and probe_public_tcp keep the difference between connected and not.
RemoteResults == {IF w = "connected" THEN "succeeded" ELSE "failed" : w \in WorkerAnswers}
LocalResults == {"succeeded", "failed"}

\* execute_xray_canary: a SOCKS connection through a client with the canary, or an error code.
CanaryResults == {"succeeded", "failed"}

Results(phase) == IF phase = "tcp" THEN RemoteResults \cup LocalResults ELSE CanaryResults

\* update_protocol_verification.
VerificationBy(e, result) ==
    [verification EXCEPT ![e] = IF result = "succeeded" THEN "verified" ELSE "failed"]

\* A canary whose answer counts decides the verification in the same transaction.
Complete(a, result) ==
    /\ a \in running
    /\ running' = running \ {a}
    /\ attempt' = [attempt EXCEPT ![a].status = Outcome(attempt[a], result)]
    /\ verification' =
           IF attempt[a].phase = "protocol" /\ attempt[a].status = "claimed" /\ Outcome(attempt[a], result) = result
           THEN VerificationBy(attempt[a].endpoint, result) ELSE verification
    /\ UNCHANGED <<snapshots, canary, host, heartbeats, row, candidate>>

RunnerDies(a) ==
    /\ a \in running
    /\ running' = running \ {a}
    /\ UNCHANGED <<snapshots, canary, host, heartbeats, row, candidate, verification, attempt>>

ClaimLapses(a) ==
    /\ attempt[a].status = "claimed"
    /\ attempt' = [attempt EXCEPT ![a].status = "overdue"]
    /\ UNCHANGED <<snapshots, canary, host, heartbeats, row, candidate, verification, running>>

VerificationLapses(e) ==
    /\ verification[e] = "verified"
    /\ verification' = [verification EXCEPT ![e] = "lapsed"]
    /\ UNCHANGED <<snapshots, canary, host, heartbeats, row, candidate, attempt, running>>

\* rotate_protocol_canary: a new credential, every verification starts anew and a
\* revision with the new canary is published.
RotateCanary ==
    /\ snapshots # <<>> /\ Len(snapshots) < MaxRevision
    /\ canary' = canary + 1
    /\ snapshots' = Append(snapshots, canary + 1)
    /\ verification' = [e \in EndpointIds |->
           IF Stored(e) /\ verification[e] # "withdrawn" THEN "pending" ELSE verification[e]]
    /\ UNCHANGED <<host, heartbeats, row, candidate, attempt, running>>

-----------------------------------------------------------------------------
\* node_endpoint_candidates, node_endpoint_verifications and endpoint_probe_attempts.
EmptyEndpointTables ==
    /\ candidate = [e \in EndpointIds |-> NoCandidate]
    /\ verification = [e \in EndpointIds |-> "none"]
    /\ attempt = [a \in Attempts |-> NoAttempt]

EndpointsInit ==
    /\ snapshots = <<>> /\ canary = 0 /\ heartbeats = {} /\ running = {}
    /\ host = [applied |-> 0, generation |-> 0]
    /\ row = [generation |-> 0, applied |-> 0, state |-> "starting"]
    /\ EmptyEndpointTables

EndpointsNext ==
    \/ PublishForNode \/ RotateCanary \/ ReportApplied
    \/ \E r \in 1 .. Len(snapshots) : ApplyForNode(r)
    \/ \E state \in {"serving", "paused"}, offered \in SUBSET Routes : SendHeartbeat(state, offered)
    \/ \E h \in heartbeats : StoreHeartbeat(h)
    \/ \E phase \in {"tcp", "protocol"}, e \in EndpointIds : Claim(phase, e)
    \/ \E a \in Attempts : RunnerDies(a) \/ ClaimLapses(a)
                           \/ \E result \in Results(attempt[a].phase) : Complete(a, result)
    \/ \E e \in EndpointIds : VerificationLapses(e)

EndpointsSpec == EndpointsInit /\ [][EndpointsNext]_endpointVars

-----------------------------------------------------------------------------
\* decode_node_endpoint_status: what the answer to a heartbeat tells the node.
Readiness(e) ==
    LET Tcp == {a \in Attempts : attempt[a].phase = "tcp" /\ attempt[a].endpoint = e}
        Latest == CHOOSE a \in Tcp : \A b \in Tcp : a >= b
        OfThisOffer == attempt[Latest].generation >= candidate[e].since
    IN  IF verification[e] = "verified" THEN "verified"
        ELSE IF Tcp = {} THEN "pending"
        ELSE IF attempt[Latest].status = "claimed" /\ attempt[Latest].generation = candidate[e].reported
          THEN "checking"
        ELSE IF attempt[Latest].status = "succeeded" /\ OfThisOffer THEN "tcp_reachable"
        ELSE IF attempt[Latest].status = "failed" /\ OfThisOffer THEN "tcp_unreachable"
        ELSE "pending"

\* derive_node_onboarding_state, of an approved node: what the administrator is told.
Onboarding ==
    LET OfApplied == {e \in EndpointIds : Current(e) /\ e[1] = row.applied}
    IN  IF row.state = "paused" THEN "paused"
        ELSE IF row.generation = 0 THEN "awaitingHeartbeat"
        ELSE IF snapshots = <<>> THEN "awaitingConfiguration"
        ELSE IF row.applied # Len(snapshots) \/ row.state # "serving" THEN "applyingConfiguration"
        ELSE IF \E e \in OfApplied : verification[e] = "verified" THEN "ready"
        ELSE IF OfApplied # {} THEN "checkingEndpoint"
        ELSE "awaitingEndpoint"

\* The endpoint is offered in the newest heartbeat, was reached through Xray since it was
\* last offered anew, with the canary that is active now, after a TCP probe of the same offer.
Evidenced(e) ==
    /\ Current(e) /\ snapshots[e[1]] = canary
    /\ \E p \in Succeeded("protocol", e) :
           /\ attempt[p].generation >= candidate[e].since /\ attempt[p].canary = canary
           /\ \E t \in Succeeded("tcp", e) : t < p /\ attempt[t].generation >= candidate[e].since

\* What the node, the console and members' bundles are told is verified has its evidence:
\* no late answer, expired claim, rotation or withdrawal leaves an endpoint verified; and
\* a node that is called ready was reached on the newest revision published for it.
VerifiedIsEvidenced ==
    /\ \A e \in EndpointIds : Readiness(e) = "verified" => Evidenced(e)
    /\ Onboarding = "ready" =>
           \E r \in Routes : Evidenced(<<Len(snapshots), r>>)

\* Whatever order heartbeats arrive in, what is stored is the newest one that was
\* accepted: its endpoints are live, all others withdrawn, and no two probes of the
\* node are claimed at once.
StoredIsNewest ==
    /\ \A h \in heartbeats : h.generation = row.generation =>
           {e \in EndpointIds : Current(e)} = h.offered /\ row.state = h.state
    /\ \A e \in EndpointIds : candidate[e].reported <= row.generation /\ (verification[e] = "withdrawn" <=> Stored(e) /\ ~ Current(e))
    /\ Cardinality({a \in Attempts : attempt[a].status = "claimed"}) <= 1

\* What the controller tells members of an endpoint rests on the newest heartbeat and on
\* probes of exactly what that heartbeat offered (db.rs record_heartbeat, complete_tcp_probe).
EndpointsAreTrue == VerifiedIsEvidenced /\ StoredIsNewest
=============================================================================
