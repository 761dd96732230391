----------------------------- MODULE Activation -----------------------------
(***************************************************************************)
(* The Node Host activation journal and the Xray supervisor that drives    *)
(* it (node-host/src/activation.rs), inside the service cycle that calls   *)
(* it (node-host/src/service.rs).                                          *)
(*                                                                         *)
(* Durable state is what the node keeps in SQLite: the desired cursor, the *)
(* append-only revision results with their reported_at marks, the active   *)
(* pointer and the activation journal.  Volatile state is what a process   *)
(* death destroys: the supervisor's position, its Xray child, its          *)
(* admission gate and its running_revision marker.  Every action performs  *)
(* at most one durable transaction, so a Crash between two actions covers  *)
(* every crash point of the code.                                          *)
(*                                                                         *)
(* Control synchronization appears here only through what it may do to the *)
(* node's tables; module Rollout puts the real exchange in its place.      *)
(***************************************************************************)
EXTENDS Revisions

CONSTANTS
    Gated,       \* revisions that sign a public port (schema 2); others are loopback only
    MaxFaults    \* bound: faults, crashes and policy changes in one behaviour

ASSUME ConstantsAssumption ==
    /\ Gated \subseteq 1 .. MaxRev
    /\ MaxFaults \in Nat

VARIABLES
    cursor,      \* control_sync_state.desired_revision_cursor, 0 = none
    rows,        \* local_revision_results: the states recorded for each revision
    reported,    \* the recorded states whose reported_at is set
    rollbackTo,  \* rollback_revision of a rolledBack result, 0 = none
    active,      \* xray_active_state.applied_revision, 0 = none
    journal,     \* xray_activation_journal, one row per revision
    pc,          \* where the service task is
    ret,         \* where the cycle goes on when the current call returns Ok
    cand,        \* the revision reconcile is switching to
    child,       \* the revision the owned Xray child was spawned with, 0 = no child
    alive,       \* whether that child is still running
    gate,        \* the revision whose admission gate is listening, 0 = closed
    marked,      \* running_revision, 0 = none
    paused,      \* the provider policy is not Available
    faults       \* faults spent so far

durable == <<cursor, rows, reported, rollbackTo, active, journal>>
runtime == <<child, alive, gate, marked>>
vars == <<durable, runtime, pc, ret, cand, paused, faults>>

Working == {"activating", "stabilizing", "retryPending", "rollingBack"}
TerminalPhases == {"applied", "rolledBack", "rejected", "recoveryRequired"}

MaxAttemptsWithoutPredecessor == 3

Locations == {"down", "idle", "policy", "sync", "resume", "reconcile", "begin",
              "switch", "journal", "prove", "commit", "failing", "rollback"}

-----------------------------------------------------------------------------
(* Reads of the tables *)

Terminal(r) == rows[r] \cap TerminalResults # {}

\* load_validated_candidate: the latest result must be validated or applied.
Eligible(r) == "validated" \in rows[r] /\ rows[r] \cap {"rejected", "rolledBack"} = {}

\* Mutant: an activation that was begun once is never taken up again.
PendingOnlyOnce ==
    IF cursor # 0 /\ "validated" \in rows[cursor] /\ ~Terminal(cursor)
                  /\ "validated" \in reported[cursor] /\ journal[cursor].phase = "none"
    THEN cursor ELSE 0

\* Mutant: the acknowledgement of the validation is not awaited.
PendingUnacknowledged ==
    IF cursor # 0 /\ "validated" \in rows[cursor] /\ ~Terminal(cursor) THEN cursor ELSE 0

\* load_pending_revision: the cursor's latest result is validated and acknowledged.
Pending ==
    IF cursor # 0 /\ "validated" \in rows[cursor] /\ ~Terminal(cursor)
                  /\ "validated" \in reported[cursor]
    THEN cursor ELSE 0

\* load_incomplete_journal; the callers go on only when there is at most one.
Incomplete == {r \in Revs : journal[r].phase \in Working}

-----------------------------------------------------------------------------
(* Durable transitions *)

SetPhase(r, p) == journal' = [journal EXCEPT ![r].phase = p]

\* A terminal result and the end of its journal are one transaction.
FinalizeApplied(r) ==
    /\ ~Terminal(r)
    /\ rows' = [rows EXCEPT ![r] = @ \cup {"applied"}]
    /\ active' = r
    /\ SetPhase(r, "applied")
    /\ UNCHANGED <<cursor, reported, rollbackTo>>

FinalizeRolledBack(r) ==
    /\ ~Terminal(r)
    /\ rows' = [rows EXCEPT ![r] = @ \cup {"rolledBack"}]
    /\ rollbackTo' = [rollbackTo EXCEPT ![r] = journal[r].prev]
    /\ SetPhase(r, "rolledBack")
    /\ UNCHANGED <<cursor, reported, active>>

FinalizeRejected(r) ==
    /\ ~Terminal(r)
    /\ rows' = [rows EXCEPT ![r] = @ \cup {"rejected"}]
    /\ SetPhase(r, "rejected")
    /\ UNCHANGED <<cursor, reported, rollbackTo, active>>

UpdateJournalPhase(r, p) ==
    SetPhase(r, p) /\ UNCHANGED <<cursor, rows, reported, rollbackTo, active>>

\* mark_recovery_required; the write itself may fail, which leaves the journal open.
MarkRecoveryRequired(r) ==
    UpdateJournalPhase(r, "recoveryRequired") \/ UNCHANGED durable

\* begin_activation writes the first attempt or counts another one.
WriteAttempt(r) ==
    /\ journal' = [journal EXCEPT ![r] =
         [phase |-> "activating", prev |-> active, attempts |-> @.attempts + 1]]
    /\ UNCHANGED <<cursor, rows, reported, rollbackTo, active>>

-----------------------------------------------------------------------------
(* The managed runtime *)

GateOf(r) == IF r \in Gated THEN r ELSE 0

\* observe_runtime_state = Serving or Degraded on revision r.
Running(r) == r # 0 /\ marked = r /\ child # 0 /\ alive /\ gate = GateOf(r)

StopOk == child' = 0 /\ alive' = FALSE /\ gate' = 0 /\ marked' = 0

\* stop_runtime closes the gate and clears the marker before it can fail:
\* either the child survives the kill, or only the gate's shutdown failed.
StopFails ==
    /\ gate' = 0 /\ marked' = 0
    /\ \/ child # 0 /\ UNCHANGED <<child, alive>>
       \/ gate # 0 /\ child' = 0 /\ alive' = FALSE

\* start_proven_candidate: spawn, prove healthy, open the gate, mark running.
Started(r) ==
    /\ Eligible(r)
    /\ child' = r /\ alive' = TRUE /\ gate' = GateOf(r) /\ marked' = r

\* It fails with the runtime stopped, or with a child that resisted the kill.
StartFails(r) ==
    /\ gate' = 0 /\ marked' = 0
    /\ child' \in {0, r} /\ alive' = (child' # 0)

EnsureActiveRunning ==
    \/ active = 0 /\ StopOk
    \/ active # 0 /\ Running(active) /\ UNCHANGED runtime
    \/ active # 0 /\ ~Running(active) /\ Started(active)

\* Stopping, loading or starting fails, or record_active_restart fails afterwards.
EnsureActiveRunningFails ==
    /\ active = 0 \/ ~Running(active)
    /\ \/ StopFails
       \/ active # 0 /\ StartFails(active)
       \/ active # 0 /\ Started(active)

\* restore_after_commit_failure for predecessor p.
Restored(p) == IF p = 0 THEN StopOk ELSE Started(p)
RestoreFails(p) == StopFails \/ (p # 0 /\ StartFails(p))

-----------------------------------------------------------------------------
(* Bookkeeping of the model *)

Fault == faults < MaxFaults /\ faults' = faults + 1

Goto(l) == pc' = l /\ UNCHANGED <<ret, cand>>

Return == Goto(ret)

\* An error ends the cycle; the service loop backs off and starts another.
EndCycle == Goto("idle")

-----------------------------------------------------------------------------
(* Faults of the environment *)

\* The process dies or is shut down: the runtime it owns goes with it.
Crash ==
    /\ pc # "down" /\ Fault
    /\ pc' = "down" /\ ret' = "idle" /\ cand' = 0 /\ StopOk
    /\ UNCHANGED <<durable, paused>>

ChildExits ==
    /\ child # 0 /\ alive /\ Fault
    /\ alive' = FALSE
    /\ UNCHANGED <<durable, child, gate, marked, pc, ret, cand, paused>>

GateFails ==
    /\ gate # 0 /\ Fault
    /\ gate' = 0
    /\ UNCHANGED <<durable, child, alive, marked, pc, ret, cand, paused>>

\* Schedule, quota, pause or resume changes availability between two evaluations.
PolicyChanges ==
    /\ Fault
    /\ paused' = ~paused
    /\ UNCHANGED <<durable, runtime, pc, ret, cand>>

-----------------------------------------------------------------------------
(* Service start: recover, unless the provider policy is unavailable *)

StartPaused ==
    /\ pc = "down" /\ paused
    /\ EndCycle
    /\ UNCHANGED <<durable, runtime, paused, faults>>

RecoverClean ==
    /\ pc = "down" /\ ~paused /\ Incomplete = {}
    /\ EnsureActiveRunning /\ EndCycle
    /\ UNCHANGED <<durable, paused, faults>>

\* Mutant: recovery does not ask whether there is a predecessor.
RecoverRollbackAlways(j) ==
    /\ pc = "down" /\ ~paused /\ Incomplete = {j} /\ active = journal[j].prev
    /\ EnsureActiveRunning /\ FinalizeRolledBack(j) /\ EndCycle
    /\ UNCHANGED <<paused, faults>>

RecoverRollback(j) ==
    /\ pc = "down" /\ ~paused /\ Incomplete = {j}
    /\ journal[j].prev # 0 /\ active = journal[j].prev
    /\ EnsureActiveRunning /\ FinalizeRolledBack(j) /\ EndCycle
    /\ UNCHANGED <<paused, faults>>

\* No predecessor: another attempt, or a stable rejection after the last one.
RecoverUnstarted(j) ==
    /\ pc = "down" /\ ~paused /\ Incomplete = {j} /\ journal[j].prev = 0
    /\ IF journal[j].attempts >= MaxAttemptsWithoutPredecessor
       THEN FinalizeRejected(j)
       ELSE UpdateJournalPhase(j, "retryPending")
    /\ EnsureActiveRunning /\ EndCycle
    /\ UNCHANGED <<paused, faults>>

\* The predecessor cannot be restored: the service exits and is started again.
RecoverGivesUp(j) ==
    /\ pc = "down" /\ ~paused /\ Incomplete = {j} /\ journal[j].prev # 0
    /\ IF active = journal[j].prev THEN Fault ELSE UNCHANGED faults
    /\ UpdateJournalPhase(j, "recoveryRequired")
    /\ UNCHANGED <<runtime, pc, ret, cand, paused>>

\* Any other failure of recover leaves the database as it was.
RecoverAborts ==
    /\ pc = "down" /\ ~paused /\ Fault
    /\ UNCHANGED <<durable, runtime, pc, ret, cand, paused>>

-----------------------------------------------------------------------------
(* run_cycle *)

\* Mutant: a paused cycle synchronizes without withdrawing the data paths.
BeginPausedCycleServing ==
    /\ pc = "idle" /\ paused
    /\ UNCHANGED runtime /\ pc' = "sync" /\ ret' = "idle" /\ UNCHANGED cand
    /\ UNCHANGED <<durable, paused, faults>>

\* The policy is unavailable: withdraw the data paths, then only synchronize.
BeginPausedCycle ==
    /\ pc = "idle" /\ paused
    /\ StopOk /\ pc' = "sync" /\ ret' = "idle" /\ UNCHANGED cand
    /\ UNCHANGED <<durable, paused, faults>>

\* poll has found or made the runtime healthy.
BeginCycle ==
    /\ pc = "idle" /\ ~paused
    /\ EnsureActiveRunning /\ pc' = "reconcile" /\ ret' = "policy" /\ UNCHANGED cand
    /\ UNCHANGED <<durable, paused, faults>>

\* Between two cycles poll restarts an active revision that stopped running.
PollRuntime ==
    /\ pc = "idle" /\ ~paused /\ active # 0 /\ ~Running(active)
    /\ Started(active)
    /\ UNCHANGED <<durable, pc, ret, cand, paused, faults>>

\* The policy cannot be evaluated and the runtime is withdrawn, withdrawing fails, the
\* active revision does not restart, or its admission probe failed and it is stopped.
CycleFails ==
    /\ pc = "idle" /\ Fault
    /\ StopOk \/ StopFails \/ (~paused /\ EnsureActiveRunningFails)
    /\ EndCycle
    /\ UNCHANGED <<durable, paused>>

\* The second evaluation of the policy, between reconcile and synchronization.
CheckPolicy ==
    /\ pc = "policy"
    /\ pc' = "sync" /\ UNCHANGED cand
    /\ \/ paused /\ StopOk /\ ret' = "idle"
       \/ ~paused /\ UNCHANGED runtime /\ ret' = "resume"
    /\ UNCHANGED <<durable, paused, faults>>

\* The third one, after synchronization: activate what was just validated.
ResumeAfterSync ==
    /\ pc = "resume"
    /\ ret' = "idle" /\ UNCHANGED cand
    /\ \/ paused /\ StopOk /\ pc' = "idle"
       \/ ~paused /\ UNCHANGED runtime /\ pc' = "reconcile"
    /\ UNCHANGED <<durable, paused, faults>>

\* Evaluating the policy or acknowledging the relay fails, or withdrawing does.
PolicyStepFails ==
    /\ pc \in {"policy", "resume"} /\ Fault
    /\ UNCHANGED runtime \/ (paused /\ (StopOk \/ StopFails))
    /\ EndCycle
    /\ UNCHANGED <<durable, paused>>

-----------------------------------------------------------------------------
(* reconcile *)

ReconcileNothing ==
    /\ pc = "reconcile" /\ Pending \in {0, active}
    /\ EnsureActiveRunning /\ Return
    /\ UNCHANGED <<durable, paused, faults>>

\* A pending revision; a journal left open for another one is closed first.
ReconcilePending ==
    /\ pc = "reconcile" /\ Pending \notin {0, active}
    /\ EnsureActiveRunning
    /\ \/ Incomplete \subseteq {Pending} /\ UNCHANGED durable
       \/ \E j \in Revs \ {Pending} :
            /\ Incomplete = {j}
            /\ IF journal[j].prev = 0
               THEN FinalizeRejected(j)
               ELSE active = journal[j].prev /\ FinalizeRolledBack(j)
    /\ pc' = "begin" /\ cand' = Pending /\ UNCHANGED <<ret, paused, faults>>

\* The runtime does not come up, or closing the superseded journal fails.
ReconcileFails ==
    /\ pc = "reconcile" /\ Fault
    /\ EnsureActiveRunningFails \/ EnsureActiveRunning
    /\ EndCycle
    /\ UNCHANGED <<durable, paused>>

\* Mutant: the terminal check of begin_activation is dropped.
BeginActivationAgain ==
    /\ pc = "begin" /\ Eligible(cand)
    /\ WriteAttempt(cand) /\ Goto("switch")
    /\ UNCHANGED <<runtime, paused, faults>>

BeginActivation ==
    /\ pc = "begin"
    /\ \/ journal[cand].phase = "none"
       \/ journal[cand].phase \in Working /\ journal[cand].prev = active
    /\ Eligible(cand)
    /\ WriteAttempt(cand) /\ Goto("switch")
    /\ UNCHANGED <<runtime, paused, faults>>

\* A terminal journal cannot be retried, whatever its result says.
BeginRefused ==
    /\ pc = "begin" /\ journal[cand].phase \in TerminalPhases
    /\ EndCycle
    /\ UNCHANGED <<durable, runtime, paused, faults>>

BeginFails ==
    /\ pc = "begin" /\ Fault
    /\ EndCycle
    /\ UNCHANGED <<durable, runtime, paused>>

\* Mutant: stopping the old revision leaves running_revision behind.
SwitchRuntimeKeepsMarker ==
    /\ pc = "switch"
    /\ child' = cand /\ alive' = TRUE /\ gate' = 0 /\ UNCHANGED marked
    /\ Goto("journal")
    /\ UNCHANGED <<durable, paused, faults>>

\* Stop the running revision and spawn the candidate.
SwitchRuntime ==
    /\ pc = "switch"
    /\ child' = cand /\ alive' = TRUE /\ gate' = 0 /\ marked' = 0
    /\ Goto("journal")
    /\ UNCHANGED <<durable, paused, faults>>

SwitchStopFails ==
    /\ pc = "switch" /\ Fault
    /\ StopFails /\ MarkRecoveryRequired(cand) /\ EndCycle
    /\ UNCHANGED paused

SpawnFails ==
    /\ pc = "switch" /\ Fault
    /\ StopOk /\ Goto("failing")
    /\ UNCHANGED <<durable, paused>>

JournalStabilizing ==
    /\ pc = "journal"
    /\ UpdateJournalPhase(cand, "stabilizing") /\ Goto("prove")
    /\ UNCHANGED <<runtime, paused, faults>>

\* The journal write fails: the predecessor comes back, or recovery is required.
JournalStabilizingFails ==
    /\ pc = "journal" /\ Fault
    /\ \/ Restored(journal[cand].prev) /\ UNCHANGED durable
       \/ RestoreFails(journal[cand].prev) /\ MarkRecoveryRequired(cand)
    /\ EndCycle
    /\ UNCHANGED paused

ProveHealthy ==
    /\ pc = "prove" /\ alive
    /\ gate' = GateOf(cand) /\ UNCHANGED <<child, alive, marked>>
    /\ Goto("commit")
    /\ UNCHANGED <<durable, paused, faults>>

\* The child exited before it was proven, or while the gate was starting.
ProveFindsExit ==
    /\ pc = "prove" /\ ~alive
    /\ child' = 0 /\ gate' \in {0, GateOf(cand)} /\ UNCHANGED <<alive, marked>>
    /\ Goto("failing")
    /\ UNCHANGED <<durable, paused, faults>>

\* The listener or the gate is not ready in time; the gate may still be open and
\* the child may have resisted the kill.
ProveFails ==
    /\ pc = "prove" /\ alive /\ Fault
    /\ gate' \in {0, GateOf(cand)} /\ UNCHANGED marked
    /\ child' \in {0, child} /\ alive' = (child' # 0)
    /\ Goto("failing")
    /\ UNCHANGED <<durable, paused>>

Commit ==
    /\ pc = "commit"
    /\ FinalizeApplied(cand) /\ marked' = cand /\ Return
    /\ UNCHANGED <<child, alive, gate, paused, faults>>

\* The commit reported an error although it is durable.
CommitUnconfirmed ==
    /\ pc = "commit" /\ Fault
    /\ FinalizeApplied(cand) /\ marked' = cand /\ EndCycle
    /\ UNCHANGED <<child, alive, gate, paused>>

\* Mutant: a failed commit leaves the candidate serving.
CommitFailsServing ==
    /\ pc = "commit" /\ Fault
    /\ EndCycle
    /\ UNCHANGED <<durable, runtime, paused>>

\* The commit is not durable: restore the predecessor, require recovery when it
\* does not start, or just stop when the active pointer cannot be read.
CommitFails ==
    /\ pc = "commit" /\ Fault
    /\ \/ Restored(journal[cand].prev) /\ UNCHANGED durable
       \/ RestoreFails(journal[cand].prev) /\ MarkRecoveryRequired(cand)
       \/ (StopOk \/ StopFails) /\ UNCHANGED durable
    /\ EndCycle
    /\ UNCHANGED paused

-----------------------------------------------------------------------------
(* handle_activation_failure *)

RestorePredecessor ==
    /\ pc = "failing" /\ journal[cand].prev # 0
    /\ Started(journal[cand].prev)
    /\ UpdateJournalPhase(cand, "rollingBack") /\ Goto("rollback")
    /\ UNCHANGED <<paused, faults>>

\* The failed runtime cannot be stopped, or the predecessor does not start.
RestorePredecessorFails ==
    /\ pc = "failing" /\ Fault
    /\ RestoreFails(journal[cand].prev) /\ MarkRecoveryRequired(cand)
    /\ EndCycle
    /\ UNCHANGED paused

\* The last attempt was used up: a stable rejection, and reconcile returns Ok.
RejectCandidate ==
    /\ pc = "failing" /\ journal[cand].prev = 0
    /\ journal[cand].attempts >= MaxAttemptsWithoutPredecessor
    /\ StopOk /\ FinalizeRejected(cand) /\ Return
    /\ UNCHANGED <<paused, faults>>

ScheduleRetry ==
    /\ pc = "failing" /\ journal[cand].prev = 0
    /\ journal[cand].attempts < MaxAttemptsWithoutPredecessor
    /\ StopOk /\ UpdateJournalPhase(cand, "retryPending") /\ EndCycle
    /\ UNCHANGED <<paused, faults>>

\* The runtime is settled and the journal write that records it fails.
FailureUnrecorded ==
    /\ pc = "failing" /\ Fault
    /\ Restored(journal[cand].prev) /\ EndCycle
    /\ UNCHANGED <<durable, paused>>

FinishRollback ==
    /\ pc = "rollback"
    /\ FinalizeRolledBack(cand) /\ Return
    /\ UNCHANGED <<runtime, paused, faults>>

\* The result is not written, or only the restart counter after it is not.
FinishRollbackFails ==
    /\ pc = "rollback" /\ Fault
    /\ FinalizeRolledBack(cand) \/ UNCHANGED durable
    /\ EndCycle
    /\ UNCHANGED <<runtime, paused>>

-----------------------------------------------------------------------------
(* Control synchronization, as far as it touches the node's tables.  It    *)
(* runs inside a service cycle, or as sync-once while no service runs.     *)

SyncAllowed == pc \in {"sync", "down"}

SyncFrame == UNCHANGED <<runtime, active, journal, rollbackTo, pc, ret, cand, paused, faults>>

\* Mutant: any revision but the current one is accepted.
ReceiveDesiredUnordered(r) ==
    /\ SyncAllowed /\ r # cursor
    /\ cursor' = r
    /\ rows' = [rows EXCEPT ![r] = @ \cup {"received"}]
    /\ UNCHANGED reported /\ SyncFrame

\* persist_verified_desired_state: artifact, received result and cursor at once.
ReceiveDesired(r) ==
    /\ SyncAllowed /\ r > cursor
    /\ cursor' = r
    /\ rows' = [rows EXCEPT ![r] = @ \cup {"received"}]
    /\ UNCHANGED reported /\ SyncFrame

\* validate_desired_state runs only when received is acknowledged and nothing follows it.
ValidateDesired(s) ==
    /\ SyncAllowed /\ cursor # 0
    /\ rows[cursor] = {"received"} /\ reported[cursor] = {"received"}
    /\ rows' = [rows EXCEPT ![cursor] = @ \cup {s}]
    /\ UNCHANGED <<cursor, reported>> /\ SyncFrame

\* Control has acknowledged one recorded result.
ReportResult(r, s) ==
    /\ SyncAllowed /\ s \in rows[r] \ reported[r]
    /\ reported' = [reported EXCEPT ![r] = @ \cup {s}]
    /\ UNCHANGED <<cursor, rows>> /\ SyncFrame

SyncDone ==
    /\ pc = "sync" /\ Return
    /\ UNCHANGED <<durable, runtime, paused, faults>>

\* Control may refuse or be out of reach for any length of time.
SyncFails ==
    /\ pc = "sync" /\ EndCycle
    /\ UNCHANGED <<durable, runtime, paused, faults>>

-----------------------------------------------------------------------------
Init ==
    /\ cursor = 0 /\ active = 0
    /\ rows = [r \in Revs |-> {}]
    /\ reported = [r \in Revs |-> {}]
    /\ rollbackTo = [r \in Revs |-> 0]
    /\ journal = [r \in Revs |-> [phase |-> "none", prev |-> 0, attempts |-> 0]]
    /\ pc = "down" /\ ret = "idle" /\ cand = 0
    /\ child = 0 /\ alive = FALSE /\ gate = 0 /\ marked = 0
    /\ paused \in BOOLEAN /\ faults = 0

\* Steps of the service itself that no fault interferes with.
ServiceStep ==
    \/ StartPaused \/ RecoverClean
    \/ \E j \in Revs : RecoverRollback(j) \/ RecoverUnstarted(j)
    \/ PollRuntime \/ BeginPausedCycle \/ BeginCycle \/ CheckPolicy \/ ResumeAfterSync
    \/ ReconcileNothing \/ ReconcilePending
    \/ BeginActivation \/ BeginRefused \/ SwitchRuntime \/ JournalStabilizing
    \/ ProveHealthy \/ ProveFindsExit \/ Commit
    \/ RestorePredecessor \/ RejectCandidate \/ ScheduleRetry \/ FinishRollback

FaultStep ==
    \/ Crash \/ ChildExits \/ GateFails \/ PolicyChanges
    \/ \E j \in Revs : RecoverGivesUp(j)
    \/ RecoverAborts \/ CycleFails \/ PolicyStepFails \/ ReconcileFails
    \/ BeginFails \/ SwitchStopFails \/ SpawnFails \/ JournalStabilizingFails
    \/ ProveFails \/ CommitUnconfirmed \/ CommitFails
    \/ RestorePredecessorFails \/ FailureUnrecorded \/ FinishRollbackFails

SyncStep ==
    \/ \E r \in Revs : ReceiveDesired(r)
    \/ \E s \in {"validated", "rejected"} : ValidateDesired(s)
    \/ \E r \in Revs, s \in ResultStates : ReportResult(r, s)
    \/ SyncDone \/ SyncFails

Next == ServiceStep \/ FaultStep \/ SyncStep

Spec == Init /\ [][Next]_vars

\* The service manager restarts the service and its loop never stops cycling;
\* every request has a timeout, so a synchronization comes to an end.
FairSpec == Spec /\ WF_vars(ServiceStep) /\ WF_vars(SyncDone)

-----------------------------------------------------------------------------
(* Properties *)

\* The tables and the supervisor's fields hold values of their columns' types.
TypeOK ==
    /\ cursor \in Revs0 /\ active \in Revs0
    /\ rows \in [Revs -> SUBSET ResultStates]
    /\ reported \in [Revs -> SUBSET ResultStates]
    /\ rollbackTo \in [Revs -> Revs0]
    /\ journal \in [Revs -> [phase : {"none"} \cup Working \cup TerminalPhases,
                             prev : Revs0, attempts : Nat]]
    /\ pc \in Locations /\ ret \in {"policy", "resume", "idle"} /\ cand \in Revs0
    /\ child \in Revs0 /\ alive \in BOOLEAN /\ gate \in Revs0 /\ marked \in Revs0
    /\ paused \in BOOLEAN /\ faults \in Nat

\* At most one activation is open, and the predecessor it would go back to is the
\* durable active revision: the bail-outs of recover_interrupted ("predecessor does
\* not match active state"), load_incomplete_journal ("multiple incomplete"),
\* resolve_superseded_journal and begin_activation ("predecessor changed across
\* retries") are never taken, whatever crashes, pauses and failed writes come between.
OpenJournalMatchesActive ==
    \A r, q \in Incomplete : r = q /\ journal[r].prev = active

\* The journal and the revision results never disagree, because each terminal pair is
\* one transaction: a journal ends in applied, rolledBack or rejected exactly when the
\* result table says so, and an open one still has validated as its latest result.
JournalMatchesResults ==
    \A r \in Revs :
        /\ journal[r].phase = "applied" <=> "applied" \in rows[r]
        /\ journal[r].phase = "rolledBack" <=> "rolledBack" \in rows[r]
        /\ journal[r].phase = "rejected" <=> {"validated", "rejected"} \subseteq rows[r]
        /\ r \in Incomplete => "validated" \in rows[r] /\ ~Terminal(r)

\* A rolledBack result names an earlier revision this node did apply, which is what
\* Control's validate_result_dependencies demands before it accepts the report.
RollbackNamesApplied ==
    \A r \in Revs : "rolledBack" \in rows[r] =>
        /\ rollbackTo[r] \in Revs /\ rollbackTo[r] < r
        /\ "applied" \in rows[rollbackTo[r]]

\* Members reach only the committed revision: an open admission gate belongs to the
\* active revision, or to the candidate between its health proof and its commit or stop.
ServedIsCommitted ==
    gate # 0 => gate = active \/ (gate = cand /\ pc \in {"commit", "failing"})

\* running_revision, which the heartbeat and the router mapping trust, never names
\* anything but the durable active revision.
MarkedIsActive == marked \in {0, active}

\* What links the tables to each other: nothing is recorded beyond the cursor, the
\* active revision is one that was applied, and predecessors are earlier revisions.
TablesConsistent ==
    /\ \A r \in Revs : r > cursor => rows[r] = {}
    /\ active # 0 => "applied" \in rows[active]
    /\ \A r \in Revs : journal[r].phase # "none" => journal[r].prev < r

Switching == {"switch", "journal", "prove", "commit", "failing", "rollback"}

\* What links reconcile's position to the tables while it switches revisions.
SwitchConsistent ==
    /\ pc = "begin" => Incomplete \subseteq {cand} /\ Eligible(cand) /\ ~Terminal(cand)
    /\ pc \in Switching => cand \in Incomplete
    /\ pc \in Switching \cup {"begin"} =>
         cand # 0 /\ cand = cursor /\ "validated" \in reported[cand]
    /\ pc \in {"prove", "commit"} => journal[cand].phase = "stabilizing"
    /\ pc = "rollback" => journal[cand].prev # 0

\* What links reconcile's position to the runtime it owns.
RuntimeConsistent ==
    /\ pc \in {"journal", "prove", "commit"} => child = cand
    /\ pc \in {"journal", "prove"} => gate = 0
    /\ pc \in {"commit", "failing"} => gate \in {0, cand}
    /\ pc \in {"journal", "prove", "commit", "failing"} => marked = 0

\* The inductive invariant: every invariant above holds because all of these do
\* together, after any prefix of activation, recovery, superseding and crash.
ActivationInv ==
    /\ TypeOK
    /\ OpenJournalMatchesActive /\ JournalMatchesResults /\ RollbackNamesApplied
    /\ ServedIsCommitted /\ MarkedIsActive
    /\ TablesConsistent /\ SwitchConsistent /\ RuntimeConsistent

\* The active pointer only moves forward, to a revision whose validation Control has
\* acknowledged and whose journal was stabilizing while its child was owned.
ActiveMovesForward ==
    [][active' # active =>
         /\ active' > active
         /\ "validated" \in reported[active']
         /\ journal[active'].phase = "stabilizing" /\ child = active']_vars

\* Results are append-only, nothing follows a terminal result, and a finished journal
\* row never changes again.
HistoryIsFinal ==
    [][\A r \in Revs :
         /\ rows[r] \subseteq rows'[r] /\ (Terminal(r) => rows'[r] = rows[r])
         /\ journal[r].phase \in TerminalPhases => journal'[r] = journal[r]]_vars

\* A pending revision is eventually settled, superseded by a newer one, or held back
\* because the provider paused, once faults cease.
PendingSettles ==
    \A r \in Revs :
        Pending = r ~> (journal[r].phase \in TerminalPhases \/ cursor > r \/ paused)

\* A lasting provider pause closes the admission gate, even in the middle of a switch.
PauseWithdraws == paused ~> (gate = 0 \/ ~paused)

\* docs/NODE_HOST.md: "With no predecessor, startup is retried at most three times".
StartupRetriesBounded ==
    \A r \in Revs : journal[r].prev = 0 => journal[r].attempts <= 1 + 3

\* docs/ROLLOUT_AND_RECOVERY.md: "If the restored predecessor also fails, the node
\* reports `rollback_failed`": a journal in recovery_required that has a predecessor
\* leads to a terminal result, without which there is nothing to report.
RecoveryIsReported ==
    \A r \in Revs :
        journal[r].phase = "recoveryRequired" /\ journal[r].prev # 0 ~> Terminal(r)
=============================================================================
