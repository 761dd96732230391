------------------------------- MODULE Control -------------------------------
(***************************************************************************)
(* The Control Service's record of who may use which node, and of how far  *)
(* each node has come (control-server/src/db.rs): accounts, assignments,   *)
(* member credentials, node lifecycle, published revisions with their      *)
(* member snapshots, revision results and the progress cache.              *)
(*                                                                         *)
(* Every handler is one IMMEDIATE transaction of a single SQLite writer,   *)
(* so each is one action.  A refused request changes nothing that is       *)
(* modelled (it may write an audit event) and is not an action.  The nodes *)
(* are not trusted here: any authenticated request that passes the checks  *)
(* of the handler may arrive at any time.  Module Rollout connects the     *)
(* handlers to what a Node Host really sends.                              *)
(***************************************************************************)
EXTENDS Revisions

CONSTANTS
    Nodes,
    Members,
    MaxVersion       \* bound: credential versions of one assignment

ASSUME ControlAssumption ==
    /\ IsFiniteSet(Nodes) /\ 0 \notin Nodes
    /\ IsFiniteSet(Members)
    /\ MaxVersion \in Nat \ {0}

VARIABLES
    account,      \* users.status
    nodeStatus,   \* nodes.status
    assignment,   \* user_node_assignments.status, "none" = no row
    cred,         \* user_node_credentials.status, "none" = not issued yet
    lastRevision, \* networks.last_revision
    target,       \* node_revision_targets: the node a revision was published for, 0 = unused
    snapshot,     \* node_revision_member_credentials: the credentials of a revision
    desired,      \* nodes.desired_revision
    results,      \* node_revision_results: the states recorded for a revision
    restored,     \* rollback_revision of the rolledBack result
    progress      \* received_, validated_, applied_ and reported_desired_revision

access == <<account, assignment, cred>>
publication == <<lastRevision, target, snapshot, desired>>
progressed == <<results, restored, progress>>
controlVars == <<access, nodeStatus, publication, progressed>>

Versions == 1 .. MaxVersion
Pairs == Members \X Nodes
Creds == Pairs \X Versions

Larger(a, b) == IF a > b THEN a ELSE b

-----------------------------------------------------------------------------
(* Publication *)

\* compile_desired_users, for given contents of the three tables.
CompileDesiredUsers(n, users, assignments, creds) ==
    {c \in Creds : /\ c[1][2] = n /\ creds[c] \in {"pending", "active"}
                   /\ assignments[c[1]] = "enabled" /\ users[c[1][1]] = "active"}

\* publish_compiled_desired_state: each revision r of `order` is compiled, with its
\* snapshot, for the node order[r] and becomes that node's desired revision.
PublishCompiled(N, last, order) ==
    LET New == lastRevision + 1 .. last IN
    /\ \A n \in N : \E r \in New : order[r] = n
    /\ \A q, r \in New : order[q] = order[r] => q = r
    /\ lastRevision' = last
    /\ target' = [r \in Revs |-> IF r \in New THEN order[r] ELSE target[r]]
    /\ snapshot' = [r \in Revs |->
          IF r \in New THEN CompileDesiredUsers(order[r], account', assignment', cred')
          ELSE snapshot[r]]
    /\ desired' = [n \in Nodes |->
          IF n \in N THEN CHOOSE r \in New : order[r] = n ELSE desired[n]]

\* The nodes of N, one after the other, take the next revisions of the network.
Publish(N) ==
    /\ \A n \in N : nodeStatus[n] = "active"
    /\ \E last \in lastRevision .. MaxRev : \E order \in [lastRevision + 1 .. last -> N] :
         PublishCompiled(N, last, order)

\* publish_account_revisions takes over the node's latest configuration.
PublishAccountRevisions(N) ==
    /\ \A n \in N : desired[n] # 0
    /\ Publish(N)

-----------------------------------------------------------------------------
(* Credentials.  Each operator gives the new status of every credential.   *)

\* Mutant: the new credential is issued and the old one keeps working.
ReissuedKeepsOld(P) ==
    [c \in Creds |->
        IF c[1] \in P /\ cred[c] = "none"
                    /\ \A v \in Versions : v < c[2] => cred[<<c[1], v>>] # "none"
        THEN "pending" ELSE cred[c]]

\* revoke_assignment_credentials, then issue_assignment_credential, on each pair of P.
Reissued(P) ==
    [c \in Creds |->
        IF c[1] \notin P THEN cred[c]
        ELSE IF cred[c] # "none" THEN "revoked"
        ELSE IF \A v \in Versions : v < c[2] => cred[<<c[1], v>>] # "none" THEN "pending"
        ELSE "none"]

CanReissue(P) == \A pair \in P : cred[<<pair, MaxVersion>>] = "none"

\* disable_assignment: what was never applied is revoked at once, the rest retires.
Retired(P) ==
    [c \in Creds |->
        IF c[1] \notin P THEN cred[c]
        ELSE IF cred[c] = "pending" THEN "revoked"
        ELSE IF cred[c] = "active" THEN "retiring"
        ELSE cred[c]]

Revoked(P) ==
    [c \in Creds |-> IF c[1] \in P /\ cred[c] # "none" THEN "revoked" ELSE cred[c]]

Both(old, P, new) == [c \in Creds |-> IF c[1] \in P THEN new[c] ELSE old[c]]

\* Mutant: applying a revision only promotes credentials.
ReconcileAppliedPromotesOnly(n, r) ==
    [c \in Creds |->
        IF c[1][2] = n /\ cred[c] = "pending" /\ c \in snapshot[r] THEN "active" ELSE cred[c]]

\* Mutant: every credential of the applied snapshot becomes active.
ReconcileAppliedPromotesAll(n, r) ==
    [c \in Creds |->
        IF c[1][2] # n THEN cred[c]
        ELSE IF c \in snapshot[r] THEN "active"
        ELSE IF cred[c] \in {"active", "retiring"} THEN "revoked"
        ELSE cred[c]]

\* Mutant: a pending credential becomes active whichever revision was applied.
ReconcileAppliedPromotesPending(n, r) ==
    [c \in Creds |->
        IF c[1][2] # n THEN cred[c]
        ELSE IF cred[c] = "pending" THEN "active"
        ELSE IF cred[c] \in {"active", "retiring"} /\ c \notin snapshot[r] THEN "revoked"
        ELSE cred[c]]

\* reconcile_applied_member_credentials for node n whose applied revision is now r.
ReconcileApplied(n, r) ==
    [c \in Creds |->
        IF c[1][2] # n THEN cred[c]
        ELSE IF cred[c] = "pending" /\ c \in snapshot[r] THEN "active"
        ELSE IF cred[c] \in {"active", "retiring"} /\ c \notin snapshot[r] THEN "revoked"
        ELSE cred[c]]

-----------------------------------------------------------------------------
(* Administration *)

Enabled(m) == {pair \in Pairs : pair[1] = m /\ assignment[pair] = "enabled"}
NodesOf(P) == {pair[2] : pair \in P}

\* replace_account_nodes
ReplaceAccountNodes(m, S) ==
    LET add == {pair \in Pairs : pair[1] = m /\ pair[2] \in S /\ assignment[pair] # "enabled"}
        drop == {pair \in Enabled(m) : pair[2] \notin S}
    IN  /\ account[m] = "active"
        /\ \A n \in S : nodeStatus[n] = "active"
        /\ \A pair \in add : assignment[pair] # "deleted"
        /\ add \cup drop # {} /\ CanReissue(add)
        /\ assignment' = [pair \in Pairs |-> IF pair \in add THEN "enabled"
                                             ELSE IF pair \in drop THEN "disabled"
                                             ELSE assignment[pair]]
        /\ cred' = Both(Retired(drop), add, Reissued(add))
        /\ UNCHANGED <<account, nodeStatus, progressed>>
        /\ PublishAccountRevisions(NodesOf(add \cup drop))

\* set_account_status; only nodes that are active get a revision.
SetAccountStatus(m, status) ==
    /\ account[m] # status /\ account[m] # "deleted"
    /\ account' = [account EXCEPT ![m] = status]
    /\ CASE status = "active" ->
              /\ CanReissue(Enabled(m))
              /\ cred' = Reissued(Enabled(m)) /\ UNCHANGED assignment
         [] status = "disabled" ->
              cred' = Retired(Enabled(m)) /\ UNCHANGED assignment
         [] status = "deleted" ->
              /\ cred' = Revoked({pair \in Pairs : pair[1] = m})
              /\ assignment' = [pair \in Pairs |->
                    IF pair[1] = m /\ assignment[pair] # "none" THEN "deleted"
                    ELSE assignment[pair]]
    /\ UNCHANGED <<nodeStatus, progressed>>
    /\ PublishAccountRevisions({n \in NodesOf(Enabled(m)) : nodeStatus[n] = "active"})

\* Mutant: the new credentials are issued and no revision carries them.
RotateAccountCredentialsUnpublished(m) ==
    /\ account[m] # "deleted" /\ Enabled(m) # {} /\ CanReissue(Enabled(m))
    /\ cred' = Reissued(Enabled(m))
    /\ UNCHANGED <<account, assignment, nodeStatus, publication, progressed>>

\* rotate_account_credentials after a password change, a session reset or the
\* revocation of a device; an account that is disabled gets new ones too.
RotateAccountCredentials(m) ==
    /\ account[m] # "deleted" /\ Enabled(m) # {} /\ CanReissue(Enabled(m))
    /\ cred' = Reissued(Enabled(m))
    /\ UNCHANGED <<account, assignment, nodeStatus, progressed>>
    /\ PublishAccountRevisions(NodesOf(Enabled(m)))

\* publish_desired_state, reconcile_node_desired_state, rotate_protocol_canary,
\* operator_rollback and the bootstrap of an invitation publish for one node.
PublishDesiredState(n) ==
    /\ UNCHANGED <<access, nodeStatus, progressed>>
    /\ Publish({n})

ApproveNode(n) ==
    /\ nodeStatus[n] \in {"pending", "disabled"}
    /\ nodeStatus' = [nodeStatus EXCEPT ![n] = "active"]
    /\ UNCHANGED <<access, publication, progressed>>

\* transition_node with close_node_member_access; no revision is published.
CloseNode(n, status, closed) ==
    /\ nodeStatus' = [nodeStatus EXCEPT ![n] = status]
    /\ assignment' = [pair \in Pairs |->
          IF pair[2] = n /\ assignment[pair] \in closed THEN
             IF status = "revoked" THEN "deleted" ELSE "disabled"
          ELSE assignment[pair]]
    /\ cred' = Revoked({pair \in Pairs : pair[2] = n})
    /\ UNCHANGED <<account, publication, progressed>>

DisableNode(n) ==
    /\ nodeStatus[n] \in {"pending", "active"}
    /\ CloseNode(n, "disabled", {"enabled"})

RevokeNode(n) ==
    /\ nodeStatus[n] # "revoked"
    /\ CloseNode(n, "revoked", {"enabled", "disabled"})

-----------------------------------------------------------------------------
(* Requests of an authenticated node *)

Authenticated(n) == nodeStatus[n] \in {"pending", "active"}

\* Mutant: a rollback may name a revision that was never applied.
ResultAcceptedAnyTarget(n, r, s, p) ==
    /\ target[r] = n /\ r <= desired[n]
    /\ \A q \in results[r] : Rank(q) < Rank(s)
    /\ s \in {"applied", "rolledBack"} => "validated" \in results[r]
    /\ s = "rolledBack" => p \in Revs /\ p < r /\ target[p] = n

\* validate_result_target, validate_transition_from and validate_result_dependencies.
\* (A digest that does not match is refused as well.)
ResultAccepted(n, r, s, p) ==
    /\ target[r] = n /\ r <= desired[n]
    /\ \A q \in results[r] : Rank(q) < Rank(s)
    /\ s \in {"applied", "rolledBack"} => "validated" \in results[r]
    /\ s = "rolledBack" => p \in Revs /\ p < r /\ target[p] = n /\ "applied" \in results[p]

\* The same report again is acknowledged and changes nothing.
ResultRepeated(n, r, s, p) ==
    /\ target[r] = n /\ s \in results[r] /\ restored[r] = p
    /\ \A q \in results[r] : Rank(q) <= Rank(s)

\* update_revision_progress_cache
AppliedAfter(n, r, s, p) ==
    IF s = "applied" THEN Larger(progress[n].applied, r)
    ELSE IF s = "rolledBack" THEN p
    ELSE progress[n].applied

\* record_revision_result; p is the revision a rolledBack result restored.
RecordRevisionResult(n, r, s, p) ==
    /\ Authenticated(n) /\ ResultAccepted(n, r, s, p)
    /\ results' = [results EXCEPT ![r] = @ \cup {s}]
    /\ restored' = [restored EXCEPT ![r] = p]
    /\ progress' = [progress EXCEPT ![n] =
          [reportedDesired |-> Larger(@.reportedDesired, r),
           received |-> Larger(@.received, r),
           validated |-> IF s \in {"validated", "applied", "rolledBack"}
                         THEN Larger(@.validated, r) ELSE @.validated,
           applied |-> AppliedAfter(n, r, s, p)]]
    /\ cred' = IF s \in {"applied", "rolledBack"}
               THEN ReconcileApplied(n, AppliedAfter(n, r, s, p)) ELSE cred
    /\ UNCHANGED <<account, assignment, nodeStatus, publication>>

\* validate_reported_progress: the desired cursor is a target of the node that does not
\* go back, and the other cursors are exactly the ones the results established.
HeartbeatFits(n, hb) ==
    /\ hb.desired >= progress[n].reportedDesired
    /\ hb.desired # 0 => hb.desired <= desired[n] /\ target[hb.desired] = n
    /\ hb.received = progress[n].received
    /\ hb.validated = progress[n].validated
    /\ hb.applied = progress[n].applied

\* record_heartbeat.  Its generation (an older one is refused as stale), health and
\* endpoint candidates are not part of this module.
RecordHeartbeat(n, hb) ==
    /\ Authenticated(n) /\ HeartbeatFits(n, hb)
    /\ progress' = [progress EXCEPT ![n].reportedDesired = hb.desired]
    /\ UNCHANGED <<access, nodeStatus, publication, results, restored>>

-----------------------------------------------------------------------------
Init ==
    /\ account = [m \in Members |-> "active"]
    /\ nodeStatus = [n \in Nodes |-> "pending"]
    /\ assignment = [pair \in Pairs |-> "none"]
    /\ cred = [c \in Creds |-> "none"]
    /\ lastRevision = 0
    /\ target = [r \in Revs |-> 0]
    /\ snapshot = [r \in Revs |-> {}]
    /\ desired = [n \in Nodes |-> 0]
    /\ results = [r \in Revs |-> {}]
    /\ restored = [r \in Revs |-> 0]
    /\ progress = [n \in Nodes |->
          [reportedDesired |-> 0, received |-> 0, validated |-> 0, applied |-> 0]]

AdminStep ==
    \/ \E m \in Members, S \in SUBSET Nodes : ReplaceAccountNodes(m, S)
    \/ \E m \in Members, status \in {"active", "disabled", "deleted"} :
         SetAccountStatus(m, status)
    \/ \E m \in Members : RotateAccountCredentials(m)
    \/ \E n \in Nodes : PublishDesiredState(n)
    \/ \E n \in Nodes : ApproveNode(n) \/ DisableNode(n) \/ RevokeNode(n)

NodeStep ==
    \/ \E n \in Nodes, r \in Revs, s \in ResultStates :
         \E p \in IF s = "rolledBack" THEN Revs ELSE {0} : RecordRevisionResult(n, r, s, p)
    \/ \E n \in Nodes, d \in Revs0 :
         RecordHeartbeat(n, [desired |-> d, received |-> progress[n].received,
                             validated |-> progress[n].validated,
                             applied |-> progress[n].applied])

Next == AdminStep \/ NodeStep

Spec == Init /\ [][Next]_controlVars

-----------------------------------------------------------------------------
(* Properties *)

\* Every column holds a value of its domain.
TypeOK ==
    /\ account \in [Members -> {"active", "disabled", "deleted"}]
    /\ nodeStatus \in [Nodes -> {"pending", "active", "disabled", "revoked"}]
    /\ assignment \in [Pairs -> {"none", "enabled", "disabled", "deleted"}]
    /\ cred \in [Creds -> {"none", "pending", "active", "retiring", "revoked"}]
    /\ lastRevision \in Revs0
    /\ target \in [Revs -> Nodes \cup {0}]
    /\ snapshot \in [Revs -> SUBSET Creds]
    /\ desired \in [Nodes -> Revs0]
    /\ results \in [Revs -> SUBSET ResultStates]
    /\ restored \in [Revs -> Revs0]
    /\ progress \in [Nodes -> [reportedDesired : Revs0, received : Revs0,
                               validated : Revs0, applied : Revs0]]

\* An assignment is enabled only on an active node that has a configuration: otherwise
\* publish_account_revisions would refuse every password reset and every status change
\* of that account, the security-urgent disable included.
EnabledIsPublishable ==
    \A pair \in Pairs : assignment[pair] = "enabled" =>
        nodeStatus[pair[2]] = "active" /\ desired[pair[2]] # 0

\* Each assignment has at most one credential that is pending or active; with a second
\* one compile_desired_users fails and the node can never be published to again.
OneCurrentCredential ==
    \A c, d \in Creds :
        c[1] = d[1] /\ {cred[c], cred[d]} \subseteq {"pending", "active"} => c = d

\* The tables that every handler reads make sense together: statuses and ledgers are
\* typed, nothing is enabled that could not be published, nobody has two credentials
\* (db.rs enable_requested_assignments, close_node_member_access, rotate_account_credentials).
TablesAreSound == TypeOK /\ EnabledIsPublishable /\ OneCurrentCredential

\* Nobody is forgotten: whatever mix of assignment, rotation, disabling, node lifecycle
\* and node reports came before, the newest revision of an active node carries every
\* credential its entitled members hold.
EntitledIsDesired ==
    \A n \in Nodes : nodeStatus[n] = "active" /\ desired[n] # 0 =>
        CompileDesiredUsers(n, account, assignment, cred) \subseteq snapshot[desired[n]]

\* A credential that bundles may carry is in the snapshot of the revision the node last
\* reported applied, even after a rollback moved applied_revision to an older one.
ActiveIsApplied ==
    \A c \in Creds : cred[c] \in {"active", "retiring"} =>
        LET r == progress[c[1][2]].applied IN r # 0 /\ c \in snapshot[r]

\* The cursors stay in lifecycle order and the applied one has its evidence, whatever
\* order the results arrive in; a heartbeat with the node's own cursors would otherwise
\* be refused for good, and load_bundle_profiles would find no applied result.
ProgressHasEvidence ==
    \A n \in Nodes :
        LET p == progress[n] IN
        /\ p.applied <= p.validated /\ p.validated <= p.received
        /\ p.received <= p.reportedDesired /\ p.reportedDesired <= desired[n]
        /\ p.applied # 0 => target[p.applied] = n /\ "applied" \in results[p.applied]

\* A credential never regains access: revoked is final and a retiring one is only ever
\* revoked, whichever snapshot a later report makes current.
AccessIsNeverRegained ==
    [][\A c \in Creds :
         /\ cred[c] = "revoked" => cred'[c] = "revoked"
         /\ cred[c] = "retiring" => cred'[c] \in {"retiring", "revoked"}
         /\ cred[c] = "active" => cred'[c] # "pending"]_controlVars

\* docs/ROLLOUT_AND_RECOVERY.md: a disabled assignment or credential "is a hard deny":
\* the desired state an active node may fetch and run carries no revoked credential.
HardDeny ==
    \A n \in Nodes : nodeStatus[n] = "active" /\ desired[n] # 0 =>
        \A c \in snapshot[desired[n]] : cred[c] # "revoked"
=============================================================================
