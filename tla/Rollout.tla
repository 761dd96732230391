------------------------------ MODULE Rollout ------------------------------
(***************************************************************************)
(* One Node Host and the Control Service: module Activation, whose         *)
(* synchronization steps are left open, driven by the exchange that        *)
(* node-host/src/sync.rs really performs, against the handlers of module   *)
(* Control.                                                                *)
(*                                                                         *)
(* A synchronization is a fixed sequence of signed requests: report the    *)
(* receipt, validate, report the current revision, report everything else, *)
(* heartbeat, fetch the next desired state and go through the reports once *)
(* more.  The first error ends it.  It runs inside a service cycle, or as  *)
(* sync-once, which the data directory lock keeps apart from the service.  *)
(* A request and its answer are one step, because until the node has the   *)
(* answer it does nothing else; a request that times out may still reach   *)
(* Control later, at most once because of its nonce.                       *)
(***************************************************************************)
EXTENDS Activation

CONSTANTS
    Node,
    Members,
    MaxVersion,      \* bound of module Control
    MaxLate          \* bound: timed-out requests that may still arrive

ASSUME RolloutAssumption ==
    /\ Node # 0 /\ IsFiniteSet(Members)
    /\ MaxVersion \in Nat \ {0} /\ MaxLate \in Nat

VARIABLES
    account, nodeStatus, assignment, cred, lastRevision, target, snapshot, desired,
    results, restored, progress,     \* the variables of module Control
    step,            \* where the running synchronization is, "off" = none runs
    fetched,         \* whether this synchronization has fetched a revision already
    late             \* timed-out result reports that have not reached Control

C == INSTANCE Control WITH Nodes <- {Node}

controlState == <<account, nodeStatus, assignment, cred, lastRevision, target, snapshot,
                  desired, results, restored, progress>>
syncVars == <<step, fetched, late>>
rolloutVars == <<vars, controlState, syncVars>>

Reporting == {"received", "revision", "all"}
Steps == {"off", "validate", "heartbeat", "fetch", "done"} \cup Reporting

\* A row of local_revision_results as it is sent.
Report(r, s) ==
    [rev |-> r, state |-> s, restored |-> IF s = "rolledBack" THEN rollbackTo[r] ELSE 0]

\* load_unreported_results
Unreported(scope) ==
    {row \in Revs \X ResultStates :
        /\ row[2] \in rows[row[1]] \ reported[row[1]]
        /\ scope # "all" => row[1] = cursor
        /\ scope = "received" => row[2] = "received"}

Before(a, b) == a[1] < b[1] \/ (a[1] = b[1] /\ Rank(a[2]) < Rank(b[2]))

\* The result that is sent next: ascending revisions, each in lifecycle order.
IsNext(r, s) ==
    /\ <<r, s>> \in Unreported(step)
    /\ \A other \in Unreported(step) \ {<<r, s>>} : Before(<<r, s>>, other)

-----------------------------------------------------------------------------
(* The node's side *)

\* Where a step goes on; a sync-once leaves the service position alone.
At(l) == step' = l /\ UNCHANGED <<fetched, late>>

\* An error: the service backs off, a sync-once exits.
Abandon ==
    /\ step' = "off" /\ fetched' = FALSE
    /\ IF pc = "sync" THEN EndCycle ELSE UNCHANGED <<pc, ret, cand>>

NodeFrame == UNCHANGED <<durable, runtime, pc, ret, cand, paused, faults>>

\* Mutant: resuming goes straight to the validation.
BeginSyncUnacknowledged ==
    /\ SyncAllowed /\ step = "off"
    /\ step' = (IF cursor = 0 THEN "heartbeat" ELSE "validate")
    /\ fetched' = FALSE /\ UNCHANGED late
    /\ NodeFrame /\ UNCHANGED controlState

BeginSync ==
    /\ SyncAllowed /\ step = "off"
    /\ step' = (IF cursor = 0 THEN "heartbeat" ELSE "received")
    /\ fetched' = FALSE /\ UNCHANGED late
    /\ NodeFrame /\ UNCHANGED controlState

\* Mutant: the status of the answer is not looked at.
ReportAcknowledgedBlindly(r, s) ==
    /\ step \in Reporting /\ IsNext(r, s)
    /\ UNCHANGED controlState
    /\ reported' = [reported EXCEPT ![r] = @ \cup {s}]
    /\ UNCHANGED <<cursor, rows>> /\ SyncFrame /\ UNCHANGED syncVars

\* Control records the report, or acknowledges it once more, and the node marks it.
ReportAcknowledged(r, s) ==
    /\ step \in Reporting /\ IsNext(r, s)
    /\ LET p == Report(r, s).restored IN
       \/ C!RecordRevisionResult(Node, r, s, p)
       \/ /\ C!Authenticated(Node) /\ C!ResultRepeated(Node, r, s, p)
          /\ UNCHANGED controlState
    /\ reported' = [reported EXCEPT ![r] = @ \cup {s}]
    /\ UNCHANGED <<cursor, rows>> /\ SyncFrame /\ UNCHANGED syncVars

\* No answer in time: the report may be lost, on its way, or already recorded.
ReportTimesOut(r, s) ==
    /\ step \in Reporting /\ IsNext(r, s)
    /\ Cardinality(late) < MaxLate /\ late' = late \cup {Report(r, s)}
    /\ Abandon
    /\ UNCHANGED <<durable, runtime, paused, faults>> /\ UNCHANGED controlState

ReportRefused(r, s) ==
    /\ step \in Reporting /\ IsNext(r, s)
    /\ LET p == Report(r, s).restored IN
       ~(C!Authenticated(Node) /\ (C!ResultAccepted(Node, r, s, p)
                                   \/ C!ResultRepeated(Node, r, s, p)))
    /\ Abandon /\ UNCHANGED late
    /\ UNCHANGED <<durable, runtime, paused, faults>> /\ UNCHANGED controlState

\* Everything of the scope is acknowledged.
ReportsDone ==
    /\ step \in Reporting /\ Unreported(step) = {}
    /\ At(CASE step = "received" -> "validate"
            [] step = "revision" -> "all"
            [] step = "all" -> IF fetched THEN "done" ELSE "heartbeat")
    /\ NodeFrame /\ UNCHANGED controlState

\* Mutant: the heartbeat goes out before the validation is reported.
ValidateUnreported ==
    /\ step = "validate" /\ At("heartbeat")
    /\ \/ rows' = rows
       \/ /\ rows[cursor] = {"received"}
          /\ \E s \in {"validated", "rejected"} : rows' = [rows EXCEPT ![cursor] = @ \cup {s}]
    /\ UNCHANGED <<cursor, reported>> /\ SyncFrame /\ UNCHANGED controlState

\* validate_desired_state; a node without an Xray binary leaves the revision received.
Validate ==
    /\ step = "validate" /\ At("revision")
    /\ \/ rows' = rows
       \/ /\ rows[cursor] = {"received"}
          /\ \E s \in {"validated", "rejected"} : rows' = [rows EXCEPT ![cursor] = @ \cup {s}]
    /\ UNCHANGED <<cursor, reported>> /\ SyncFrame /\ UNCHANGED controlState

\* current_heartbeat_with_relay
Heartbeat ==
    [desired |-> cursor,
     received |-> CHOOSE r \in Revs0 :
        /\ r # 0 => rows[r] # {}
        /\ \A q \in Revs : q > r => rows[q] = {},
     validated |-> CHOOSE r \in Revs0 :
        /\ r # 0 => "validated" \in rows[r]
        /\ \A q \in Revs : q > r => "validated" \notin rows[q],
     applied |-> active]

SendHeartbeat ==
    /\ step = "heartbeat" /\ C!RecordHeartbeat(Node, Heartbeat)
    /\ At("fetch") /\ NodeFrame

HeartbeatRefused ==
    /\ step = "heartbeat" /\ ~(C!Authenticated(Node) /\ C!HeartbeatFits(Node, Heartbeat))
    /\ Abandon /\ UNCHANGED late
    /\ UNCHANGED <<durable, runtime, paused, faults>> /\ UNCHANGED controlState

\* desired_state_after has nothing newer than the cursor.
FetchNothing ==
    /\ step = "fetch" /\ C!Authenticated(Node) /\ desired[Node] <= cursor
    /\ At("done") /\ NodeFrame /\ UNCHANGED controlState

\* desired_state_after, then persist_verified_desired_state.
FetchDesired ==
    /\ step = "fetch" /\ C!Authenticated(Node) /\ desired[Node] > cursor
    /\ cursor' = desired[Node]
    /\ rows' = [rows EXCEPT ![desired[Node]] = @ \cup {"received"}]
    /\ step' = "received" /\ fetched' = TRUE /\ UNCHANGED late
    /\ UNCHANGED reported /\ SyncFrame /\ UNCHANGED controlState

\* Validation, the heartbeat, the fetch or a local write fails, or there is no answer;
\* a heartbeat that Control got without the node knowing changes nothing modelled.
SyncStepFails ==
    /\ step \notin {"off", "done"}
    /\ Abandon /\ UNCHANGED late
    /\ UNCHANGED <<durable, runtime, paused, faults>> /\ UNCHANGED controlState

EndSync ==
    /\ step = "done"
    /\ step' = "off" /\ fetched' = FALSE /\ UNCHANGED late
    /\ IF pc = "sync" THEN Return ELSE UNCHANGED <<pc, ret, cand>>
    /\ UNCHANGED <<durable, runtime, paused, faults>> /\ UNCHANGED controlState

-----------------------------------------------------------------------------
(* Late requests, the operator of the network, and the rest of the node *)

LateReportArrives(m) ==
    /\ m \in late /\ late' = late \ {m}
    /\ \/ C!RecordRevisionResult(Node, m.rev, m.state, m.restored)
       \/ /\ ~(C!Authenticated(Node) /\ C!ResultAccepted(Node, m.rev, m.state, m.restored))
          /\ UNCHANGED controlState
    /\ UNCHANGED <<vars, step, fetched>>

Administration == C!AdminStep /\ UNCHANGED <<vars, syncVars>>

\* The service and its faults; nothing but sync-once runs while that holds the lock.
ServiceRuns ==
    /\ step = "off" /\ ServiceStep
    /\ UNCHANGED syncVars /\ UNCHANGED controlState

ServiceDisturbed ==
    /\ pc = "down" => step = "off"
    /\ FaultStep
    /\ IF pc' = "down" THEN step' = "off" /\ fetched' = FALSE ELSE UNCHANGED <<step, fetched>>
    /\ UNCHANGED late /\ UNCHANGED controlState

RolloutInit ==
    /\ Init /\ C!Init
    /\ step = "off" /\ fetched = FALSE /\ late = {}

SyncRuns ==
    \/ BeginSync \/ ReportsDone \/ Validate
    \/ \E r \in Revs, s \in ResultStates :
         ReportAcknowledged(r, s) \/ ReportTimesOut(r, s) \/ ReportRefused(r, s)
    \/ SendHeartbeat \/ HeartbeatRefused \/ FetchNothing \/ FetchDesired
    \/ SyncStepFails \/ EndSync

RolloutNext ==
    \/ SyncRuns \/ ServiceRuns \/ ServiceDisturbed
    \/ \E m \in late : LateReportArrives(m)
    \/ Administration

RolloutSpec == RolloutInit /\ [][RolloutNext]_rolloutVars

-----------------------------------------------------------------------------
(* Properties *)

\* The positions and messages of the exchange have their types.
RolloutTypeOK ==
    /\ step \in Steps /\ fetched \in BOOLEAN
    /\ late \subseteq [rev : Revs, state : ResultStates, restored : Revs0]

\* What the node believes acknowledged is recorded at Control, and Control has recorded
\* nothing the node did not, however requests are lost, repeated or late.
LedgersAgree ==
    \A r \in Revs : reported[r] \subseteq results[r] /\ results[r] \subseteq rows[r]

\* A switch of the runtime has Control's record of the validation behind it, for a
\* revision Control published for this node.
SwitchIsAuthorized ==
    pc \in Switching => target[cand] = Node /\ "validated" \in results[cand]

\* A report an active node owes is never in conflict: validate_transition_from and
\* validate_result_dependencies would refuse it in every later synchronization too,
\* and the node could never fetch again.
ReportsAreWelcome ==
    C!Authenticated(Node) /\ step \in Reporting =>
        \A r \in Revs, s \in ResultStates : IsNext(r, s) =>
            LET p == Report(r, s).restored IN
            C!ResultAccepted(Node, r, s, p) \/ C!ResultRepeated(Node, r, s, p)

\* When the node sends its heartbeat the two sides agree on what was received and
\* validated, and they disagree on what is applied only after a rollback whose report
\* followed that of a newer applied revision.
HeartbeatAgrees ==
    step = "heartbeat" =>
        /\ Heartbeat.received = cursor /\ progress[Node].received = cursor
        /\ progress[Node].validated = Heartbeat.validated
        /\ \/ progress[Node].applied = active
           \/ \E r \in Revs : /\ "rolledBack" \in rows[r] /\ r < active
                              /\ rollbackTo[r] = progress[Node].applied

\* A credential that bundles hand out as active is one the node's active revision
\* knows, even while the node is ahead of what it has reported.
ActiveIsServed ==
    \A c \in C!Creds : cred[c] = "active" => active # 0 /\ c \in snapshot[active]

\* With the real exchange in place the node still behaves as module Activation says, so
\* every invariant of that module holds of the composed system: a revision is validated
\* only once its receipt is acknowledged, the cursor only moves forward, and nothing a
\* synchronization does overlaps with the service.
NodeImplementsActivation == Spec

\* What links the position of a synchronization to the node's tables.
SyncConsistent ==
    /\ step # "off" => SyncAllowed
    /\ step \in Reporting \cup {"validate"} => cursor # 0
    /\ step = "validate" => "received" \in reported[cursor]
    /\ cursor # 0 => "received" \in rows[cursor]
    /\ \A m \in late : m.state \in rows[m.rev]

\* What links the node's tables to what Control published: the node is never ahead of
\* its desired revision, and every revision so far is one of its own.
PublicationConsistent ==
    /\ lastRevision \in Revs0 /\ desired \in [{Node} -> Revs0]
    /\ target \in [Revs -> {Node, 0}] /\ results \in [Revs -> SUBSET ResultStates]
    /\ cursor <= desired[Node] /\ desired[Node] <= lastRevision
    /\ \A r \in Revs : r <= lastRevision => target[r] = Node

\* The inductive invariant of the composed system: with it every step of the exchange
\* is one that module Activation allows, and the two ledgers stay in step.
RolloutInv ==
    /\ ActivationInv /\ RolloutTypeOK
    /\ SyncConsistent /\ PublicationConsistent /\ LedgersAgree

\* docs/NODE_HOST.md: an activation that fails "rolls back automatically and leaves
\* `applied_revision` unchanged"; on a process failure the node reports the candidate as
\* failed "while leaving `applied_revision` unchanged".
RollbackLeavesApplied ==
    [][\A r \in Revs : "rolledBack" \in results'[r] \ results[r] =>
         progress'[Node].applied = progress[Node].applied]_rolloutVars
=============================================================================
