-------------------------------- MODULE Setup --------------------------------
(***************************************************************************)
(* The packaged Node Host daemon (node-host/src/system_setup_macos.rs):    *)
(* the desktop application's setup sessions, the executor of privileged    *)
(* requests, which runs one mutation at a time, and the supervisor of the  *)
(* data plane, with which unpairing synchronises.  The daemon may die at   *)
(* any point; files, the marker and the invitations' use survive it.       *)
(***************************************************************************)
EXTENDS Naturals, FiniteSets

CONSTANTS
    Invitations,  \* setup codes; the node an invitation enrolls bears its name
    MaxInstall,   \* bound: installation identities that are created
    MaxGiveUp,    \* bound: requests and handshakes that time out
    MaxDeath      \* bound: deaths of the daemon

NoNode == "none"
ASSUME SetupAssumption ==
    /\ IsFiniteSet(Invitations) /\ NoNode \notin Invitations
    /\ {MaxInstall, MaxGiveUp, MaxDeath} \subseteq Nat

VARIABLES
    draft,     \* NodeSetupSessionStore: the code that is pending or checked out
    package,   \* whether PackageVerifier accepts the installed release
    files,     \* state and identity directories
    installs,  \* installation identities created so far
    used,      \* invitation |-> the identity that consumed it, at the controller
    marker,    \* the unpair marker
    task,      \* the mutation in progress, under mutation_lock
    plane,     \* what supervise_data_plane is doing
    changed,   \* a service generation it has not seen
    quiesce,   \* its command queue: a live request, and abandoned ones before it
    giveUps,
    deaths

setupVars ==
    <<draft, package, files, installs, used, marker, task, plane, changed, quiesce, giveUps, deaths>>

NoDraft == [at |-> "none", code |-> NoNode]
NoFiles == [db |-> FALSE, node |-> NoNode, identity |-> 0]
NoMarker == [state |-> "none", node |-> NoNode]
NoTask == [kind |-> "none", at |-> "idle", node |-> NoNode]
NoCommands == [abandoned |-> 0, live |-> FALSE]

Idle == task = NoTask
At(kind, at) == task.kind = kind /\ task.at = at
Step(at) == task' = [task EXCEPT !.at = at]

\* DataDirLock: held by a running data plane, by a join that waits for the controller
\* and by uninstall_local.
Locked ==
    \/ plane = "running"
    \/ task.at \in {"joining", "detaching"}

\* status: needs the lock, the database and the identity bound to it.
StatusReads == ~ Locked /\ files.db /\ files.identity > 0
Enrolled == StatusReads /\ files.node # NoNode

-----------------------------------------------------------------------------
(* The desktop application *)

BeginSetup(i) ==
    /\ draft = NoDraft
    /\ draft' = [at |-> "pending", code |-> i]
    /\ UNCHANGED <<package, files, installs, used, marker, task, plane, changed, quiesce, giveUps, deaths>>

\* A session that is checked out is not found and stays as it is.
CancelSetup ==
    /\ draft.at = "pending"
    /\ draft' = NoDraft
    /\ UNCHANGED <<package, files, installs, used, marker, task, plane, changed, quiesce, giveUps, deaths>>

\* restore: back in the store unless it expired meanwhile.
Restored == {NoDraft, [draft EXCEPT !.at = "pending"]}

\* The application stops waiting after OPERATION_TIMEOUT; the daemon does not notice.
GiveUp ==
    /\ giveUps < MaxGiveUp /\ draft.at = "out" /\ task.kind = "confirm"
    /\ giveUps' = giveUps + 1
    /\ draft' \in Restored
    /\ UNCHANGED <<package, files, installs, used, marker, task, plane, changed, quiesce, deaths>>

-----------------------------------------------------------------------------
(* confirm_setup *)

\* Receipt, signature, manifest and files of the installed package.
PackageVerifies == package

\* checkout, then the request: a package that fails verification is not retryable.
ConfirmSetup ==
    /\ Idle /\ draft.at = "pending"
    /\ IF PackageVerifies
       THEN /\ task' = [kind |-> "confirm", at |-> "verified", node |-> draft.code]
            /\ draft' = [draft EXCEPT !.at = "out"]
       ELSE draft' = NoDraft /\ UNCHANGED task
    /\ UNCHANGED <<package, files, installs, used, marker, plane, changed, quiesce, giveUps, deaths>>

\* Any stage may fail: the error is retryable and the application restores the code.
TaskFails ==
    /\ task' = NoTask
    /\ draft' \in IF task.kind = "confirm" /\ draft.at = "out" THEN Restored ELSE {draft}

ConfirmFails ==
    /\ task.kind = "confirm"
    /\ TaskFails
    /\ UNCHANGED <<package, files, installs, used, marker, plane, changed, quiesce, giveUps, deaths>>

\* initialize_with_identity_dir: an identity that is bound and missing is never recreated.
InitializeState ==
    /\ At("confirm", "verified") /\ ~ Locked
    /\ files.db => files.identity > 0
    /\ IF files.identity > 0 THEN UNCHANGED installs
       ELSE installs < MaxInstall /\ installs' = installs + 1
    /\ files' = [files EXCEPT !.db = TRUE, !.identity = IF @ > 0 THEN @ ELSE installs']
    /\ Step("initialized")
    /\ UNCHANGED <<draft, package, used, marker, plane, changed, quiesce, giveUps, deaths>>

\* configure_xray and configure_bootstrap_policy.
ConfigureStages ==
    /\ At("confirm", "initialized") /\ ~ Locked
    /\ Step("configured")
    /\ UNCHANGED <<draft, package, files, installs, used, marker, plane, changed, quiesce, giveUps, deaths>>

\* join_invitation takes the lock; a host that is enrolled answers from its registration.
BeginJoin ==
    /\ At("confirm", "configured") /\ ~ Locked
    /\ files.node \in {NoNode, task.node}
    /\ Step(IF files.node = NoNode THEN "joining" ELSE "joined")
    /\ UNCHANGED <<draft, package, files, installs, used, marker, plane, changed, quiesce, giveUps, deaths>>

\* The controller commits; its answer may be lost.
ControllerEnrolls ==
    /\ At("confirm", "joining") /\ used[task.node] = 0
    /\ used' = [used EXCEPT ![task.node] = files.identity]
    /\ UNCHANGED <<draft, package, files, installs, marker, task, plane, changed, quiesce, giveUps, deaths>>

\* A retry by the same identity is answered as the first was.
PersistRegistration ==
    /\ At("confirm", "joining") /\ used[task.node] = files.identity
    /\ files' = [files EXCEPT !.node = task.node]
    /\ Step("joined")
    /\ UNCHANGED <<draft, package, installs, used, marker, plane, changed, quiesce, giveUps, deaths>>

\* The provider's limits and the relay consent, which need no lock.
PersistPreferences ==
    /\ At("confirm", "joined")
    /\ Step("consented")
    /\ UNCHANGED <<draft, package, files, installs, used, marker, plane, changed, quiesce, giveUps, deaths>>

\* remove_unpair_marker, then notify_service.
FinishConfirm ==
    /\ At("confirm", "consented")
    /\ marker' = NoMarker /\ changed' = TRUE
    /\ task' = NoTask
    /\ draft' = IF draft.at = "out" THEN NoDraft ELSE draft
    /\ UNCHANGED <<package, files, installs, used, plane, quiesce, giveUps, deaths>>

\* A limit, a pause or a manual endpoint: written without the lock, then notified.
UpdatePolicy ==
    /\ Idle /\ files.db
    /\ changed' = TRUE
    /\ UNCHANGED <<draft, package, files, installs, used, marker, task, plane, quiesce, giveUps, deaths>>

-----------------------------------------------------------------------------
(* unpair *)

\* The node that is enrolled: a running data plane says so, or status does.
Confirmed(n) == files.node = n /\ (plane = "running" \/ Enrolled)

MarkerAllows(n) == marker.node \in {NoNode, n} /\ marker.state # "complete"

\* A pending marker and no database: the directories were removed before a crash.
RecoverUnpair(n) ==
    /\ Idle /\ MarkerAllows(n) /\ marker.state = "pending"
    /\ ~ files.db /\ files.identity = 0
    /\ marker' = [marker EXCEPT !.state = "complete"]
    /\ UNCHANGED <<draft, package, files, installs, used, task, plane, changed, quiesce, giveUps, deaths>>

\* The pending marker is written before the data plane is asked to stop.
BeginUnpair(n) ==
    /\ Idle /\ MarkerAllows(n)
    /\ Confirmed(n)
    /\ marker' = [state |-> "pending", node |-> n]
    /\ task' = [kind |-> "unpair", at |-> "asked", node |-> n]
    /\ quiesce' = [quiesce EXCEPT !.live = TRUE]
    /\ UNCHANGED <<draft, package, files, installs, used, plane, changed, giveUps, deaths>>

\* The handshake times out; the command stays in the queue with nobody behind it.
QuiesceTimesOut ==
    /\ At("unpair", "asked") /\ giveUps < MaxGiveUp
    /\ giveUps' = giveUps + 1
    /\ quiesce' = [abandoned |-> quiesce.abandoned + (IF quiesce.live THEN 1 ELSE 0), live |-> FALSE]
    /\ task' = NoTask
    /\ UNCHANGED <<draft, package, files, installs, used, marker, plane, changed, deaths>>

\* uninstall_local detaches the identity first ...
DetachIdentity ==
    /\ At("unpair", "ready")
    /\ Enrolled /\ files.node = task.node
    /\ files' = [files EXCEPT !.identity = 0]
    /\ Step("detaching")
    /\ UNCHANGED <<draft, package, installs, used, marker, plane, changed, quiesce, giveUps, deaths>>

\* ... and then the data, or puts the identity back.
DetachData ==
    /\ At("unpair", "detaching")
    /\ files' = NoFiles
    /\ Step("detached")
    /\ UNCHANGED <<draft, package, installs, used, marker, plane, changed, quiesce, giveUps, deaths>>

DetachFails ==
    /\ At("unpair", "detaching")
    /\ files' = [files EXCEPT !.identity = installs]
    /\ task' = NoTask
    /\ UNCHANGED <<draft, package, installs, used, marker, plane, changed, quiesce, giveUps, deaths>>

\* An error before or after: the lease is dropped with the task.
UnpairFails ==
    /\ At("unpair", "ready") \/ At("unpair", "detached")
    /\ task' = NoTask
    /\ UNCHANGED <<draft, package, files, installs, used, marker, plane, changed, quiesce, giveUps, deaths>>

\* The removed trees, the empty directories, the complete marker.
FinishUnpair ==
    /\ At("unpair", "detached")
    /\ marker' = [marker EXCEPT !.state = "complete"]
    /\ task' = NoTask /\ changed' = TRUE
    /\ UNCHANGED <<draft, package, files, installs, used, plane, quiesce, giveUps, deaths>>

-----------------------------------------------------------------------------
(* supervise_data_plane *)

StartPlane ==
    /\ plane = "waiting" /\ PackageVerifies /\ Enrolled
    /\ plane' = "running"
    /\ UNCHANGED <<draft, package, files, installs, used, marker, task, changed, quiesce, giveUps, deaths>>

WakeSupervisor ==
    /\ plane = "waiting" /\ changed
    /\ changed' = FALSE
    /\ UNCHANGED <<draft, package, files, installs, used, marker, task, plane, quiesce, giveUps, deaths>>

RestartPlane ==
    /\ plane = "running" /\ changed
    /\ changed' = FALSE /\ plane' = "waiting"
    /\ UNCHANGED <<draft, package, files, installs, used, marker, task, quiesce, giveUps, deaths>>

PlaneEnds ==
    /\ plane = "running"
    /\ plane' = "resting"
    /\ UNCHANGED <<draft, package, files, installs, used, marker, task, changed, quiesce, giveUps, deaths>>

PlaneRested ==
    /\ plane = "resting"
    /\ plane' = "waiting"
    /\ UNCHANGED <<draft, package, files, installs, used, marker, task, changed, quiesce, giveUps, deaths>>

\* A command whose requester is gone: stopped, released at once.
ServeAbandoned ==
    /\ plane \in {"waiting", "running"} /\ quiesce.abandoned > 0
    /\ quiesce' = [quiesce EXCEPT !.abandoned = @ - 1]
    /\ plane' = "waiting"
    /\ UNCHANGED <<draft, package, files, installs, used, marker, task, changed, giveUps, deaths>>

\* Mutant: the supervisor acknowledges and goes on without waiting for the release.
HoldQuiescedNotWaiting == "waiting"

\* hold_data_plane_quiesced: until the lease is dropped.
HoldQuiesced == "held"

\* The service is stopped before the acknowledgement.
ServeQuiesce ==
    /\ plane \in {"waiting", "running"} /\ quiesce.abandoned = 0 /\ quiesce.live
    /\ quiesce' = NoCommands
    /\ plane' = HoldQuiesced
    /\ Step("ready")
    /\ UNCHANGED <<draft, package, files, installs, used, marker, changed, giveUps, deaths>>

\* A data plane that does not stop cleanly rejects the request.
RefuseQuiesce ==
    /\ plane = "running" /\ quiesce.abandoned = 0 /\ quiesce.live
    /\ quiesce' = NoCommands
    /\ plane' = "waiting" /\ task' = NoTask
    /\ UNCHANGED <<draft, package, files, installs, used, marker, changed, giveUps, deaths>>

ReleasePlane ==
    /\ plane = "held" /\ task.at \notin {"ready", "detaching", "detached"}
    /\ plane' = "waiting"
    /\ UNCHANGED <<draft, package, files, installs, used, marker, task, changed, quiesce, giveUps, deaths>>

-----------------------------------------------------------------------------

\* The daemon dies, or ends because the data plane failed to stop for a new generation;
\* launchd starts it again.
DaemonDies ==
    /\ deaths < MaxDeath
    /\ deaths' = deaths + 1
    /\ TaskFails
    /\ plane' = "waiting" /\ changed' = FALSE /\ quiesce' = NoCommands
    /\ UNCHANGED <<package, files, installs, used, marker, giveUps>>

\* An upgrade replaces the release.
PackageChanges ==
    /\ package' = ~ package
    /\ UNCHANGED <<draft, files, installs, used, marker, task, plane, changed, quiesce, giveUps, deaths>>

SetupInit ==
    /\ draft = NoDraft /\ package = TRUE /\ files = NoFiles /\ installs = 0
    /\ used = [i \in Invitations |-> 0]
    /\ marker = NoMarker /\ task = NoTask /\ plane = "waiting" /\ changed = FALSE
    /\ quiesce = NoCommands /\ giveUps = 0 /\ deaths = 0

SetupNext ==
    \/ \E i \in Invitations : BeginSetup(i) \/ RecoverUnpair(i) \/ BeginUnpair(i)
    \/ CancelSetup \/ GiveUp
    \/ ConfirmSetup \/ ConfirmFails \/ InitializeState \/ ConfigureStages \/ BeginJoin
    \/ ControllerEnrolls \/ PersistRegistration \/ PersistPreferences \/ FinishConfirm
    \/ UpdatePolicy
    \/ QuiesceTimesOut \/ DetachIdentity \/ DetachData \/ DetachFails \/ UnpairFails \/ FinishUnpair
    \/ StartPlane \/ WakeSupervisor \/ RestartPlane \/ PlaneEnds \/ PlaneRested
    \/ ServeAbandoned \/ ServeQuiesce \/ RefuseQuiesce \/ ReleasePlane
    \/ DaemonDies \/ PackageChanges

SetupSpec == SetupInit /\ [][SetupNext]_setupVars

-----------------------------------------------------------------------------

\* From the acknowledgement until the complete marker is written the supervisor stays
\* quiesced, although requests time out, leave their commands behind and are repeated: the
\* data plane never runs over, and never locks, state that is being removed. A complete
\* marker is the truth: nothing of the node it names is left, whatever died in between
\* (unpair, hold_data_plane_quiesced, DataPlaneLease).
UnpairBarrier ==
    /\ At("unpair", "ready") \/ At("unpair", "detaching") \/ At("unpair", "detached") => plane = "held"
    /\ marker.state = "complete" => files.node # marker.node
==============================================================================
