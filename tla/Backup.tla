-------------------------------- MODULE Backup --------------------------------
(***************************************************************************)
(* Backups of the Control Service's database and their recovery            *)
(* (control-server/src/backup.rs), seen through the counters that nodes    *)
(* and devices have already acted upon.  The service keeps running while a *)
(* snapshot is taken; artifacts may be damaged at rest; any command may    *)
(* die before its final rename.                                            *)
(***************************************************************************)
EXTENDS Naturals, FiniteSets

CONSTANTS
    Artifacts,   \* backup destinations
    Counters,    \* the keyed marks: telemetry cursors, session, bundle and canary generations
    MaxMark,     \* bound: values of the counters
    MaxRestore   \* bound: generation directories that are created

ASSUME BackupAssumption ==
    /\ IsFiniteSet(Artifacts) /\ IsFiniteSet(Counters)
    /\ {MaxMark, MaxRestore} \subseteq Nat

VARIABLES
    marks,       \* load_high_water of the database the service is configured for
    service,     \* whether it runs, and so holds the database's lock
    observed,    \* the marks that nodes and devices have seen of the history in force
    artifact,    \* each destination: absent, or a manifest over a snapshot
    staging,     \* the snapshot a create command is working on
    restoring,   \* the restore command in progress, which holds the lock of a baseline it was given
    waived,      \* whether that restore, or the generation it made, was compared with no baseline
    generation,  \* the generation directory that was restored and not yet switched to
    restores     \* generations created so far

backupVars == <<marks, service, observed, artifact, staging, restoring, waived, generation, restores>>

Marks == Counters \cup {"revision", "audit"}
Zero == [m \in Marks |-> 0]
Absent == [state |-> "absent", damaged |-> {}, marks |-> Zero]
Parts == {"layout", "files", "manifest"}
NoCommand == [at |-> "idle", source |-> "none", marks |-> Zero]

AtLeast(a, b) == \A m \in Marks : a[m] >= b[m]
Newest(a, b) == [m \in Marks |-> IF a[m] >= b[m] THEN a[m] ELSE b[m]]
Oldest(a, b) == [m \in Marks |-> IF a[m] >= b[m] THEN b[m] ELSE a[m]]

-----------------------------------------------------------------------------
(* The running service *)

\* A publication takes the next revision and writes an audit event.
CommitRevision ==
    /\ service = "up" /\ marks["revision"] < MaxMark
    /\ marks' = [marks EXCEPT !["revision"] = @ + 1, !["audit"] = @ + 1]
    /\ observed' \in {observed, Newest(observed, marks')}
    /\ UNCHANGED <<service, artifact, staging, restoring, waived, generation, restores>>

\* A telemetry batch, a refresh, a bundle or a canary rotation moves its own counter, some without an audit event.
CommitCounter(c) ==
    /\ service = "up" /\ marks[c] < MaxMark
    /\ marks' = [marks EXCEPT ![c] = @ + 1]
    /\ observed' \in {observed, Newest(observed, marks')}
    /\ UNCHANGED <<service, artifact, staging, restoring, waived, generation, restores>>

StopService ==
    /\ service = "up"
    /\ service' = "down"
    /\ UNCHANGED <<marks, observed, artifact, staging, restoring, waived, generation, restores>>

\* The service and a restore against its database hold the same lock.
OperationLockIsFree == service = "down" /\ (restoring.at = "idle" \/ waived)

\* OPERATIONS.md: once a restore succeeded the configuration is pointed at its generation.
\* Where the comparison was waived, the history ends at what the generation knows.
StartService ==
    /\ OperationLockIsFree
    /\ service' = "up"
    /\ IF generation.state = "absent"
         THEN UNCHANGED <<marks, observed, generation>>
         ELSE /\ marks' = generation.marks /\ generation' = Absent
              /\ observed' = IF waived THEN Oldest(observed, generation.marks) ELSE observed
    /\ UNCHANGED <<artifact, staging, restoring, waived, restores>>

-----------------------------------------------------------------------------
(* backup create *)

\* create_sqlite_snapshot starts over when the database changes under it.
CreateSqliteSnapshot(a) ==
    /\ staging.at = "idle" /\ artifact[a].state = "absent"
    /\ staging' = [at |-> "staged", source |-> a, marks |-> marks]
    /\ UNCHANGED <<marks, service, observed, artifact, restoring, waived, generation, restores>>

\* BackupManifest: the digests of what was staged and its high-water marks.
Sealed(m) == [state |-> "sealed", damaged |-> {}, marks |-> m]

\* The manifest is computed from the staged copy, verified, and renamed into place.
PersistBackup ==
    /\ staging.at = "staged"
    /\ artifact' = [artifact EXCEPT ![staging.source] = Sealed(staging.marks)]
    /\ staging' = NoCommand
    /\ UNCHANGED <<marks, service, observed, restoring, waived, generation, restores>>

CreateFails ==
    /\ staging.at = "staged"
    /\ staging' = NoCommand
    /\ UNCHANGED <<marks, service, observed, artifact, restoring, waived, generation, restores>>

\* A part of it no longer is what was written: another file, other contents, another manifest.
\* At most one artifact is damaged, a bound.
DamageArtifact(a, part) ==
    /\ artifact[a].state = "sealed" /\ \A b \in Artifacts : artifact[b].damaged = {}
    /\ artifact' = [artifact EXCEPT ![a].damaged = {part}]
    /\ UNCHANGED <<marks, service, observed, staging, restoring, waived, generation, restores>>

-----------------------------------------------------------------------------
(* restore *)

EnsureExactBackupLayout(a) == artifact[a].state = "sealed" /\ "layout" \notin artifact[a].damaged

\* The digests of the manifest are those of the files.
EnsureDigest(a) == "files" \notin artifact[a].damaged

\* The digest and the controller's signature over the manifest.
VerifyManifest(a) == "manifest" \notin artifact[a].damaged

VerifyBackup(a) == EnsureExactBackupLayout(a) /\ EnsureDigest(a) /\ VerifyManifest(a)

\* Mutant: only the desired revision is compared.
EnsureNotRollbackOfRevision(candidate, baseline) == candidate["revision"] >= baseline["revision"]

EnsureNotRollback(candidate, baseline) == AtLeast(candidate, baseline)

\* The marks of the controller that the backup holds, and of the one it would replace.
InspectController(a) == artifact[a].marks
LoadHighWater == marks

\* A restore into an absent destination, of a backup that was verified.
RestoreBackup(a) ==
    /\ restoring.at = "idle" /\ generation.state = "absent" /\ restores < MaxRestore
    /\ VerifyBackup(a)
    /\ restoring' = [at |-> "verified", source |-> a, marks |-> Zero]
    /\ UNCHANGED <<marks, service, observed, artifact, staging, generation, restores>>

\* CurrentDatabase: the baseline is locked, so the service is down and stays down.
BeginRestore(a) ==
    /\ OperationLockIsFree /\ RestoreBackup(a)
    /\ EnsureNotRollback(InspectController(a), LoadHighWater)
    /\ waived' = FALSE

\* NoLocalHistory: nothing is locked and nothing compared, whether the service runs or not.
BeginRestoreWithoutHistory(a) ==
    /\ RestoreBackup(a)
    /\ waived' = TRUE

\* Copied into a sibling directory; whatever happened to the artifact is copied too.
CopyToStaging ==
    /\ restoring.at = "verified"
    /\ restoring' = IF VerifyBackup(restoring.source)
                      THEN [restoring EXCEPT !.at = "copied", !.marks = artifact[restoring.source].marks]
                      ELSE NoCommand
    /\ UNCHANGED <<marks, service, observed, artifact, staging, waived, generation, restores>>

PersistGeneration ==
    /\ restoring.at = "copied"
    /\ generation' = Sealed(restoring.marks)
    /\ restoring' = NoCommand
    /\ restores' = restores + 1
    /\ UNCHANGED <<marks, service, observed, artifact, staging, waived>>

RestoreFails ==
    /\ restoring.at # "idle"
    /\ restoring' = NoCommand
    /\ UNCHANGED <<marks, service, observed, artifact, staging, waived, generation, restores>>

-----------------------------------------------------------------------------

BackupInit ==
    /\ marks = Zero /\ observed = Zero
    /\ service = "up"
    /\ artifact = [a \in Artifacts |-> Absent]
    /\ staging = NoCommand /\ restoring = NoCommand
    /\ generation = Absent /\ waived = FALSE
    /\ restores = 0

BackupNext ==
    \/ CommitRevision
    \/ \E c \in Counters : CommitCounter(c)
    \/ StopService
    \/ StartService
    \/ \E a \in Artifacts : CreateSqliteSnapshot(a)
    \/ PersistBackup
    \/ CreateFails
    \/ \E a \in Artifacts, part \in Parts : DamageArtifact(a, part)
    \/ \E a \in Artifacts : BeginRestore(a)
    \/ \E a \in Artifacts : BeginRestoreWithoutHistory(a)
    \/ CopyToStaging
    \/ PersistGeneration
    \/ RestoreFails

BackupSpec == BackupInit /\ [][BackupNext]_backupVars

-----------------------------------------------------------------------------

\* A service that runs, on its own database or on a restored one, is never behind what a
\* node or a device has already seen of it: no revision number is given out twice, no
\* acknowledged telemetry, no refresh, bundle or canary generation is forgotten
\* (ensure_not_rollback, and the lock that keeps the baseline still). The one exception is
\* the switch to a generation whose restore waived the comparison (--no-local-history,
\* OPERATIONS.md:63): it gives up what was seen beyond the backup, and what is seen of the
\* history that follows is kept again, under restores of older backups too.
NothingSeenIsForgotten == service = "up" => AtLeast(marks, observed)

==============================================================================
