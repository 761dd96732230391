----------------------------- MODULE HostProofs -----------------------------
(***************************************************************************)
(* Proofs about the Node Host beside its activation (the per-user          *)
(* background service, the packaged daemon's setup and unpairing, the      *)
(* candidates that Xray may run and the commands that make them, the       *)
(* endpoints that heartbeats offer, the provider's limits, the telemetry   *)
(* spool) and about the Console's files and usage database.  The           *)
(* components share no variable; their theorems are about the component    *)
(* specifications, with constants of any value.                            *)
(***************************************************************************)
EXTENDS MCHost, Integers, FiniteSetTheorems, WellFoundedInduction, TLAPS

-----------------------------------------------------------------------------
(* Background: the per-user service *)

ManagementSteps ==
    {"idle"} \cup Outcomes \cup InstallSteps \cup RollbackSteps \cup RemoveSteps

BackgroundTypeOK ==
    /\ manifest \in Nat /\ registered \in Nat /\ rendered \in Nat /\ failures \in Nat
    /\ holder \in BOOLEAN /\ enrolled \in BOOLEAN
    /\ management \in [kind : {"none", "install", "remove"}, at : ManagementSteps,
                       manifest : Nat, previous : Nat, wasLoaded : BOOLEAN]

\* From the step that stopped the service to the one that loads it again launchd runs nothing.
StoppedStays ==
    management.at \in {"status", "write", "enable", "bootstrap", "rewrite", "restore", "delete", "confirm"} =>
        registered = 0

\* The definition on disk is the command's own once it has written it.
WrittenStays ==
    /\ management.at \in {"enable", "bootstrap", "kickstart", "verify"} => manifest = management.manifest
    /\ management.at \in {"restore", "restart"} => manifest = management.previous /\ management.wasLoaded
    /\ management.at = "confirm" => manifest = 0

\* What was loaded is the definition on disk.
LoadedIsWritten ==
    management.at \in {"kickstart", "verify", "restart"} => registered = manifest

BackgroundInv ==
    BackgroundTypeOK /\ StoppedStays /\ WrittenStays /\ LoadedIsWritten /\ AnswersTellTheState

\* A command's step leaves the rest of its record as it was.
LEMMA ManagementMoves ==
    ASSUME BackgroundTypeOK, NEW at \in ManagementSteps
    PROVE  /\ To(at) \in [kind : {"none", "install", "remove"}, at : ManagementSteps,
                          manifest : Nat, previous : Nat, wasLoaded : BOOLEAN]
           /\ To(at).at = at /\ To(at).manifest = management.manifest
           /\ To(at).previous = management.previous /\ To(at).wasLoaded = management.wasLoaded
           /\ Ends(at) = To(at)
  BY DEF BackgroundTypeOK, To, Ends

\* All that an invariant says of a command is by its step: a move to a step under which
\* nothing is claimed keeps it.
LEMMA InstallSide ==
    ASSUME BackgroundInv,
           \/ InstallBegins \/ InstallStops \/ WaitForHostStatus \/ InstallWrites
           \/ InstallEnables \/ InstallBootstraps \/ InstallKickstarts \/ InstallVerifies
    PROVE  BackgroundInv'
<1> USE DEF BackgroundInv, StoppedStays, WrittenStays, LoadedIsWritten, AnswersTellTheState,
            BackgroundTypeOK, ManagementSteps, Outcomes, InstallSteps, RollbackSteps, RemoveSteps
<1>1. CASE InstallBegins BY <1>1 DEF InstallBegins, ServiceManagementLock, Unmanaged
<1>2. CASE InstallStops BY <1>2 DEF InstallStops, RunRequired, Bootout, To, Ends
<1>3. CASE WaitForHostStatus BY <1>3 DEF WaitForHostStatus, To
<1>4. CASE InstallWrites BY <1>4 DEF InstallWrites, WriteManifestAtomically, To
<1>5. CASE InstallEnables BY <1>5 DEF InstallEnables, RunRequired, To
<1>6. CASE InstallBootstraps
  <2>1. /\ holder' \in BOOLEAN /\ registered' \in Nat /\ failures' \in Nat
        /\ UNCHANGED <<manifest, enrolled, rendered>>
    <3>1. holder' \in BOOLEAN
      BY <1>6, Zenon DEF InstallBootstraps, RunRequired, Bootstrap
    <3>2. registered' \in Nat /\ failures' \in Nat
      BY <1>6 DEF InstallBootstraps, RunRequired, Bootstrap
    <3> QED BY <3>1, <3>2, <1>6 DEF InstallBootstraps
  <2>2. \/ management' = To("kickstart") /\ registered' = manifest
        \/ management' = To("inspect") /\ registered' \in {registered, manifest}
    BY <1>6 DEF InstallBootstraps, RunRequired, Bootstrap, Ends, To
  <2>3. management.at = "bootstrap"
    BY <1>6 DEF InstallBootstraps
  <2> QED BY <2>1, <2>2, <2>3, ManagementMoves
<1>7. CASE InstallKickstarts
  <2>1. /\ holder' \in BOOLEAN /\ registered' \in Nat /\ failures' \in Nat
        /\ UNCHANGED <<manifest, enrolled, rendered>>
    <3>1. holder' \in BOOLEAN
      BY <1>7, Zenon DEF InstallKickstarts, RunRequired, Kickstart
    <3>2. registered' \in Nat /\ failures' \in Nat
      BY <1>7 DEF InstallKickstarts, RunRequired, Kickstart
    <3> QED BY <3>1, <3>2, <1>7 DEF InstallKickstarts
  <2>2. \/ management' = To("verify") /\ registered' = registered
        \/ management' = To("inspect") /\ registered' \in {registered, registered}
    BY <1>7 DEF InstallKickstarts, RunRequired, Kickstart, Ends, To
  <2>3. management.at = "kickstart"
    BY <1>7 DEF InstallKickstarts
  <2> QED BY <2>1, <2>2, <2>3, ManagementMoves
<1>8. CASE InstallVerifies BY <1>8 DEF InstallVerifies, IsLoaded, To, Ends
<1> QED BY <1>1, <1>2, <1>3, <1>4, <1>5, <1>6, <1>7, <1>8

LEMMA RollbackSide ==
    ASSUME BackgroundInv,
           RollbackStops \/ RollbackRewrites \/ RollbackBootstraps \/ RollbackKickstarts
    PROVE  BackgroundInv'
<1> USE DEF BackgroundInv, StoppedStays, WrittenStays, LoadedIsWritten, AnswersTellTheState,
            BackgroundTypeOK, ManagementSteps, Outcomes, InstallSteps, RollbackSteps, RemoveSteps
<1>1. CASE RollbackStops BY <1>1 DEF RollbackStops, RunRequired, IsLoaded, Bootout, To, Ends
<1>2. CASE RollbackRewrites BY <1>2 DEF RollbackRewrites, WriteManifestAtomically, To, Ends
<1>3. CASE RollbackBootstraps
  <2>1. /\ holder' \in BOOLEAN /\ registered' \in Nat /\ failures' \in Nat
        /\ UNCHANGED <<manifest, enrolled, rendered>>
    <3>1. holder' \in BOOLEAN
      BY <1>3, Zenon DEF RollbackBootstraps, RunRequired, Bootstrap
    <3>2. registered' \in Nat /\ failures' \in Nat
      BY <1>3 DEF RollbackBootstraps, RunRequired, Bootstrap
    <3> QED BY <3>1, <3>2, <1>3 DEF RollbackBootstraps
  <2>2. \/ management' = To("restart") /\ registered' = manifest
        \/ management' = To("failed") /\ registered' \in {registered, manifest}
    BY <1>3 DEF RollbackBootstraps, RunRequired, Bootstrap, Ends, To
  <2>3. management.at = "restore"
    BY <1>3 DEF RollbackBootstraps
  <2> QED BY <2>1, <2>2, <2>3, ManagementMoves
<1>4. CASE RollbackKickstarts
  <2>1. /\ holder' \in BOOLEAN /\ registered' \in Nat /\ failures' \in Nat
        /\ UNCHANGED <<manifest, enrolled, rendered>>
    <3>1. holder' \in BOOLEAN
      BY <1>4, Zenon DEF RollbackKickstarts, RunRequired, Kickstart
    <3>2. registered' \in Nat /\ failures' \in Nat
      BY <1>4 DEF RollbackKickstarts, RunRequired, Kickstart
    <3> QED BY <3>1, <3>2, <1>4 DEF RollbackKickstarts
  <2>2. \/ management' = To("restored") /\ registered' = registered
        \/ management' = To("failed") /\ registered' \in {registered, registered}
    BY <1>4 DEF RollbackKickstarts, RunRequired, Kickstart, Ends, To
  <2>3. management.at = "restart"
    BY <1>4 DEF RollbackKickstarts
  <2> QED BY <2>1, <2>2, <2>3, ManagementMoves
<1> QED BY <1>1, <1>2, <1>3, <1>4

LEMMA RemoveSide ==
    ASSUME BackgroundInv, RemoveBegins \/ RemoveStops \/ RemoveManifest \/ RemoveVerifies
    PROVE  BackgroundInv'
<1> USE DEF BackgroundInv, StoppedStays, WrittenStays, LoadedIsWritten, AnswersTellTheState,
            BackgroundTypeOK, ManagementSteps, Outcomes, InstallSteps, RollbackSteps, RemoveSteps
<1>1. CASE RemoveBegins BY <1>1 DEF RemoveBegins, ServiceManagementLock, Unmanaged
<1>2. CASE RemoveStops BY <1>2 DEF RemoveStops, RunRequired, IsLoaded, Bootout, To, Ends
<1>3. CASE RemoveManifest BY <1>3 DEF RemoveManifest, WriteManifestAtomically, To, Ends
<1>4. CASE RemoveVerifies BY <1>4 DEF RemoveVerifies, IsLoaded, To, Ends
<1> QED BY <1>1, <1>2, <1>3, <1>4

LEMMA MachineSide ==
    ASSUME BackgroundInv,
           ProcessExits \/ Login \/ Enrolls \/ Dies \/ Answered \/ UNCHANGED backgroundVars
    PROVE  BackgroundInv'
<1> USE DEF BackgroundInv, StoppedStays, WrittenStays, LoadedIsWritten, AnswersTellTheState,
            BackgroundTypeOK, ManagementSteps, Outcomes, InstallSteps, RollbackSteps, RemoveSteps,
            Unmanaged
<1>1. CASE ProcessExits BY <1>1 DEF ProcessExits
<1>2. CASE Login BY <1>2 DEF Login
<1>3. CASE Enrolls BY <1>3 DEF Enrolls
<1>4. CASE Dies BY <1>4 DEF Dies
<1>5. CASE Answered BY <1>5 DEF Answered
<1>6. CASE UNCHANGED backgroundVars BY <1>6 DEF backgroundVars
<1> QED BY <1>1, <1>2, <1>3, <1>4, <1>5, <1>6

\* What an install or remove command answers is what it left behind, whichever launchctl
\* calls and writes failed, with their effect or without it, and whatever commands that
\* died had left (install_with, rollback_install, remove_with).
THEOREM AnswersHold == BackgroundSpec => []AnswersTellTheState
<1>1. BackgroundInit => BackgroundInv
  <2> SUFFICES ASSUME BackgroundInit PROVE BackgroundInv OBVIOUS
  <2>1. holder \in BOOLEAN /\ enrolled \in BOOLEAN BY Zenon DEF BackgroundInit
  <2>2. /\ manifest = 0 /\ registered = 0 /\ rendered = 0 /\ failures = 0 /\ management = Unmanaged
    BY DEF BackgroundInit
  <2>3. BackgroundTypeOK BY <2>1, <2>2 DEF BackgroundTypeOK, Unmanaged, ManagementSteps
  <2> QED BY <2>2, <2>3 DEF BackgroundInv, StoppedStays, WrittenStays, LoadedIsWritten,
                            AnswersTellTheState, Unmanaged
<1>2. BackgroundInv /\ [BackgroundNext]_backgroundVars => BackgroundInv'
  BY InstallSide, RollbackSide, RemoveSide, MachineSide DEF BackgroundNext
<1>3. BackgroundInv => AnswersTellTheState BY DEF BackgroundInv
<1> QED BY <1>1, <1>2, <1>3, PTL DEF BackgroundSpec

-----------------------------------------------------------------------------
(* Setup: the packaged daemon *)

ConfirmSteps == {"verified", "initialized", "configured", "joining", "joined", "consented"}
UnpairSteps == {"asked", "ready", "detaching", "detached"}

SetupTypeOK ==
    /\ draft \in [at : {"none", "pending", "out"}, code : Invitations \cup {NoNode}]
    /\ draft.at # "none" => draft.code \in Invitations
    /\ files \in [db : BOOLEAN, node : Invitations \cup {NoNode}, identity : Nat]
    /\ installs \in Nat /\ used \in [Invitations -> Nat]
    /\ marker \in [state : {"none", "pending", "complete"}, node : Invitations \cup {NoNode}]
    /\ task \in [kind : {"none", "confirm", "unpair"}, at : {"idle"} \cup ConfirmSteps \cup UnpairSteps,
                 node : Invitations \cup {NoNode}]
    /\ task.kind = "none" => task.at = "idle"
    /\ task.kind = "confirm" => task.at \in ConfirmSteps /\ task.node \in Invitations
    /\ task.kind = "unpair" => task.at \in UnpairSteps /\ task.node \in Invitations
    /\ quiesce \in [abandoned : Nat, live : BOOLEAN]
    /\ quiesce.live => At("unpair", "asked")

\* The identity on disk is the latest one that was created, and comes with a database; an
\* enrollment is that identity's, also when the identity alone was detached.
LatestIdentity ==
    /\ files.identity \in {0, installs}
    /\ files.identity > 0 => files.db
    /\ files.db => installs > 0
    /\ files.node # NoNode => files.db /\ used[files.node] = installs
    /\ \A i \in Invitations : used[i] <= installs

\* A confirmation that is past its first stage has its state and its identity, and an
\* identity is detached from a state that is still there.
TaskHasState ==
    /\ task.kind = "confirm" /\ task.at # "verified" => files.db /\ files.identity > 0
    /\ task.at = "detaching" => files.db

\* A marker names a node that an identity of this host consumed; after it is complete,
\* whatever state there is belongs to a later identity.
MarkerNamesUsed ==
    /\ marker.state # "none" => marker.node \in Invitations /\ used[marker.node] > 0
    /\ marker.state = "complete" /\ files.db => used[marker.node] < installs
    /\ task.kind = "unpair" => marker.state = "pending"
    /\ task.at = "detached" => files = NoFiles

HeldForUnpair ==
    At("unpair", "ready") \/ At("unpair", "detaching") \/ At("unpair", "detached") => plane = "held"

SetupInv == SetupTypeOK /\ LatestIdentity /\ TaskHasState /\ MarkerNamesUsed /\ HeldForUnpair

LEMMA DesktopSide ==
    ASSUME SetupInv,
           \/ (\E i \in Invitations : BeginSetup(i))
           \/ CancelSetup
           \/ GiveUp
           \/ ConfirmSetup
           \/ ConfirmFails
    PROVE  SetupInv'
<1> USE SetupAssumption
    DEF SetupInv, SetupTypeOK, LatestIdentity, TaskHasState, MarkerNamesUsed, HeldForUnpair,
        ConfirmSteps, UnpairSteps, At, Step, Idle
<1>1. CASE \E i \in Invitations : BeginSetup(i)
  <2>1. PICK i \in Invitations : BeginSetup(i) BY <1>1
  <2> QED BY <2>1 DEF BeginSetup, NoDraft, MarkerAllows, Confirmed, Enrolled, StatusReads
<1>2. CASE CancelSetup
  BY <1>2 DEF CancelSetup, NoDraft, NoTask, NoFiles, NoMarker, NoCommands, TaskFails, Restored,
     HoldQuiesced, Enrolled, StatusReads
<1>3. CASE GiveUp
  BY <1>3 DEF GiveUp, NoDraft, NoTask, NoFiles, NoMarker, NoCommands, TaskFails, Restored,
     HoldQuiesced, Enrolled, StatusReads
<1>4. CASE ConfirmSetup
  BY <1>4 DEF ConfirmSetup, NoDraft, NoTask, NoFiles, NoMarker, NoCommands, TaskFails, Restored,
     HoldQuiesced, Enrolled, StatusReads
<1>5. CASE ConfirmFails
  BY <1>5 DEF ConfirmFails, NoDraft, NoTask, NoFiles, NoMarker, NoCommands, TaskFails, Restored,
     HoldQuiesced, Enrolled, StatusReads
<1> QED BY <1>1, <1>2, <1>3, <1>4, <1>5

LEMMA ConfirmSide ==
    ASSUME SetupInv,
           \/ InitializeState
           \/ ConfigureStages
           \/ BeginJoin
           \/ ControllerEnrolls
           \/ PersistRegistration
           \/ PersistPreferences
           \/ FinishConfirm
           \/ UpdatePolicy
    PROVE  SetupInv'
<1> USE SetupAssumption
    DEF SetupInv, SetupTypeOK, LatestIdentity, TaskHasState, MarkerNamesUsed, HeldForUnpair,
        ConfirmSteps, UnpairSteps, At, Step, Idle
<1>1. CASE InitializeState
  <2>1. /\ UNCHANGED <<draft, used, marker, plane, quiesce>>
        /\ task.kind = "confirm" /\ task.at = "verified" /\ task' = [task EXCEPT !.at = "initialized"]
        /\ files.db => files.identity > 0
        /\ files' = [files EXCEPT !.db = TRUE, !.identity = IF @ > 0 THEN @ ELSE installs']
        /\ installs' = (IF files.identity > 0 THEN installs ELSE installs + 1)
    BY <1>1 DEF InitializeState
  <2>2. installs' \in Nat /\ installs' > 0 /\ installs <= installs'
    BY <2>1
  <2>3. /\ files'.db = TRUE /\ files'.node = files.node /\ files'.identity = installs'
        /\ files' \in [db : BOOLEAN, node : Invitations \cup {NoNode}, identity : Nat]
    <3>1. installs' = IF files.identity > 0 THEN files.identity ELSE installs'
      BY <2>1
    <3>2. files' = [files EXCEPT !.db = TRUE, !.identity = installs']
      BY <2>1, <3>1
    <3>3. files' = [db |-> TRUE, node |-> files.node, identity |-> installs']
      BY <3>2
    <3> QED BY <2>2, <3>3
  <2>4. task'.kind = "confirm" /\ task'.at = "initialized" /\ task'.node = task.node
    BY <2>1
  <2>5. SetupTypeOK' BY <2>1, <2>2, <2>3, <2>4
  <2>6. LatestIdentity' BY <2>1, <2>2, <2>3
  <2>7. TaskHasState' /\ HeldForUnpair' BY <2>2, <2>3, <2>4
  <2>8. MarkerNamesUsed' BY <2>1, <2>2, <2>3, <2>4
  <2> QED BY <2>5, <2>6, <2>7, <2>8
<1>2. CASE ConfigureStages
  BY <1>2 DEF ConfigureStages, NoDraft, NoTask, NoFiles, NoMarker, NoCommands, TaskFails,
     Restored, HoldQuiesced, Enrolled, StatusReads
<1>3. CASE BeginJoin
  BY <1>3 DEF BeginJoin, NoDraft, NoTask, NoFiles, NoMarker, NoCommands, TaskFails, Restored,
     HoldQuiesced, Enrolled, StatusReads
<1>4. CASE ControllerEnrolls
  BY <1>4 DEF ControllerEnrolls, NoDraft, NoTask, NoFiles, NoMarker, NoCommands, TaskFails,
     Restored, HoldQuiesced, Enrolled, StatusReads
<1>5. CASE PersistRegistration
  BY <1>5 DEF PersistRegistration, NoDraft, NoTask, NoFiles, NoMarker, NoCommands, TaskFails,
     Restored, HoldQuiesced, Enrolled, StatusReads
<1>6. CASE PersistPreferences
  BY <1>6 DEF PersistPreferences, NoDraft, NoTask, NoFiles, NoMarker, NoCommands, TaskFails,
     Restored, HoldQuiesced, Enrolled, StatusReads
<1>7. CASE FinishConfirm
  BY <1>7 DEF FinishConfirm, NoDraft, NoTask, NoFiles, NoMarker, NoCommands, TaskFails, Restored,
     HoldQuiesced, Enrolled, StatusReads
<1>8. CASE UpdatePolicy
  BY <1>8 DEF UpdatePolicy, NoDraft, NoTask, NoFiles, NoMarker, NoCommands, TaskFails, Restored,
     HoldQuiesced, Enrolled, StatusReads
<1> QED BY <1>1, <1>2, <1>3, <1>4, <1>5, <1>6, <1>7, <1>8

LEMMA UnpairSide ==
    ASSUME SetupInv,
           \/ (\E i \in Invitations : RecoverUnpair(i))
           \/ (\E i \in Invitations : BeginUnpair(i))
           \/ QuiesceTimesOut
           \/ DetachIdentity
           \/ DetachData
           \/ DetachFails
           \/ UnpairFails
           \/ FinishUnpair
    PROVE  SetupInv'
<1> USE SetupAssumption
    DEF SetupInv, SetupTypeOK, LatestIdentity, TaskHasState, MarkerNamesUsed, HeldForUnpair,
        ConfirmSteps, UnpairSteps, At, Step, Idle
<1>1. CASE \E i \in Invitations : RecoverUnpair(i)
  <2>1. PICK i \in Invitations : RecoverUnpair(i) BY <1>1
  <2>2. /\ marker.state = "pending" /\ ~ files.db /\ task.kind = "none"
        /\ marker' = [marker EXCEPT !.state = "complete"]
        /\ UNCHANGED <<draft, files, installs, used, task, plane, quiesce>>
    BY <2>1 DEF RecoverUnpair, NoTask
  <2>3. marker'.state = "complete" /\ marker'.node = marker.node BY <2>2
  <2> QED BY <2>2, <2>3
<1>2. CASE \E i \in Invitations : BeginUnpair(i)
  <2>1. PICK i \in Invitations : BeginUnpair(i) BY <1>2
  <2> QED BY <2>1 DEF BeginUnpair, NoDraft, MarkerAllows, Confirmed, Enrolled, StatusReads
<1>3. CASE QuiesceTimesOut
  BY <1>3 DEF QuiesceTimesOut, NoDraft, NoTask, NoFiles, NoMarker, NoCommands, TaskFails,
     Restored, HoldQuiesced, Enrolled, StatusReads
<1>4. CASE DetachIdentity
  BY <1>4 DEF DetachIdentity, NoDraft, NoTask, NoFiles, NoMarker, NoCommands, TaskFails,
     Restored, HoldQuiesced, Enrolled, StatusReads
<1>5. CASE DetachData
  BY <1>5 DEF DetachData, NoDraft, NoTask, NoFiles, NoMarker, NoCommands, TaskFails, Restored,
     HoldQuiesced, Enrolled, StatusReads
<1>6. CASE DetachFails
  BY <1>6 DEF DetachFails, NoDraft, NoTask, NoFiles, NoMarker, NoCommands, TaskFails, Restored,
     HoldQuiesced, Enrolled, StatusReads
<1>7. CASE UnpairFails
  BY <1>7 DEF UnpairFails, NoDraft, NoTask, NoFiles, NoMarker, NoCommands, TaskFails, Restored,
     HoldQuiesced, Enrolled, StatusReads
<1>8. CASE FinishUnpair
  BY <1>8 DEF FinishUnpair, NoDraft, NoTask, NoFiles, NoMarker, NoCommands, TaskFails, Restored,
     HoldQuiesced, Enrolled, StatusReads
<1> QED BY <1>1, <1>2, <1>3, <1>4, <1>5, <1>6, <1>7, <1>8

LEMMA PlaneSide ==
    ASSUME SetupInv,
           \/ StartPlane
           \/ WakeSupervisor
           \/ RestartPlane
           \/ PlaneEnds
           \/ PlaneRested
           \/ ServeAbandoned
           \/ ServeQuiesce
           \/ RefuseQuiesce
           \/ ReleasePlane
    PROVE  SetupInv'
<1> USE SetupAssumption
    DEF SetupInv, SetupTypeOK, LatestIdentity, TaskHasState, MarkerNamesUsed, HeldForUnpair,
        ConfirmSteps, UnpairSteps, At, Step, Idle
<1>1. CASE StartPlane
  BY <1>1 DEF StartPlane, NoDraft, NoTask, NoFiles, NoMarker, NoCommands, TaskFails, Restored,
     HoldQuiesced, Enrolled, StatusReads
<1>2. CASE WakeSupervisor
  BY <1>2 DEF WakeSupervisor, NoDraft, NoTask, NoFiles, NoMarker, NoCommands, TaskFails,
     Restored, HoldQuiesced, Enrolled, StatusReads
<1>3. CASE RestartPlane
  BY <1>3 DEF RestartPlane, NoDraft, NoTask, NoFiles, NoMarker, NoCommands, TaskFails, Restored,
     HoldQuiesced, Enrolled, StatusReads
<1>4. CASE PlaneEnds
  BY <1>4 DEF PlaneEnds, NoDraft, NoTask, NoFiles, NoMarker, NoCommands, TaskFails, Restored,
     HoldQuiesced, Enrolled, StatusReads
<1>5. CASE PlaneRested
  BY <1>5 DEF PlaneRested, NoDraft, NoTask, NoFiles, NoMarker, NoCommands, TaskFails, Restored,
     HoldQuiesced, Enrolled, StatusReads
<1>6. CASE ServeAbandoned
  BY <1>6 DEF ServeAbandoned, NoDraft, NoTask, NoFiles, NoMarker, NoCommands, TaskFails,
     Restored, HoldQuiesced, Enrolled, StatusReads
<1>7. CASE ServeQuiesce
  BY <1>7 DEF ServeQuiesce, NoDraft, NoTask, NoFiles, NoMarker, NoCommands, TaskFails, Restored,
     HoldQuiesced, Enrolled, StatusReads
<1>8. CASE RefuseQuiesce
  BY <1>8 DEF RefuseQuiesce, NoDraft, NoTask, NoFiles, NoMarker, NoCommands, TaskFails, Restored,
     HoldQuiesced, Enrolled, StatusReads
<1>9. CASE ReleasePlane
  BY <1>9 DEF ReleasePlane, NoDraft, NoTask, NoFiles, NoMarker, NoCommands, TaskFails, Restored,
     HoldQuiesced, Enrolled, StatusReads
<1> QED BY <1>1, <1>2, <1>3, <1>4, <1>5, <1>6, <1>7, <1>8, <1>9

LEMMA DaemonSide ==
    ASSUME SetupInv,
           \/ DaemonDies
           \/ PackageChanges
           \/ UNCHANGED setupVars
    PROVE  SetupInv'
<1> USE SetupAssumption
    DEF SetupInv, SetupTypeOK, LatestIdentity, TaskHasState, MarkerNamesUsed, HeldForUnpair,
        ConfirmSteps, UnpairSteps, At, Step, Idle
<1>1. CASE DaemonDies
  BY <1>1 DEF DaemonDies, NoDraft, NoTask, NoFiles, NoMarker, NoCommands, TaskFails, Restored,
     HoldQuiesced, Enrolled, StatusReads
<1>2. CASE PackageChanges
  BY <1>2 DEF PackageChanges, NoDraft, NoTask, NoFiles, NoMarker, NoCommands, TaskFails,
     Restored, HoldQuiesced, Enrolled, StatusReads
<1>3. CASE UNCHANGED setupVars
  BY <1>3 DEF setupVars, NoDraft, NoTask, NoFiles, NoMarker, NoCommands, TaskFails, Restored,
     HoldQuiesced, Enrolled, StatusReads
<1> QED BY <1>1, <1>2, <1>3

\* From the acknowledgement of the quiesce request until unpairing has ended the data
\* plane stays stopped, and a complete marker is the truth about the node it names, for
\* every order of requests, timeouts, retries and deaths of the daemon (unpair,
\* hold_data_plane_quiesced, uninstall_local).
THEOREM UnpairBarrierHolds == SetupSpec => []UnpairBarrier
<1>1. SetupInit => SetupInv
  BY SetupAssumption DEF SetupInit, SetupInv, SetupTypeOK, LatestIdentity, TaskHasState,
     MarkerNamesUsed,
     HeldForUnpair, NoDraft, NoFiles, NoMarker, NoTask, NoCommands, At
<1>2. SetupInv /\ [SetupNext]_setupVars => SetupInv'
  BY DesktopSide, ConfirmSide, UnpairSide, PlaneSide, DaemonSide DEF SetupNext
<1>3. SetupInv => UnpairBarrier
  BY SetupAssumption DEF SetupInv, SetupTypeOK, LatestIdentity, MarkerNamesUsed, HeldForUnpair,
     UnpairBarrier
<1> QED BY <1>1, <1>2, <1>3, PTL DEF SetupSpec

-----------------------------------------------------------------------------
(* Candidates: what Xray may run *)

Configured == {"seed", "pin"}
Validated == {"verify", "test", "append"}

CandidatesTypeOK ==
    /\ binaryFile \in Binaries /\ reality \in {0, 1}
    /\ pin \in SUBSET [binary : Binaries, port : StatsPorts]
    /\ history \in [Candidates -> {"none", "received", "rejected", "validated"}]
    /\ configFiles \in [Candidates -> SUBSET [reality : {0, 1}, port : StatsPorts]]
    /\ configRows \in [Candidates -> SUBSET [binary : Binaries, config : [reality : {0, 1}, port : StatsPorts]]]
    /\ validating \in [at : {"idle"} \cup Configured \cup Validated, revision : Nat,
                       binary : Binaries \cup {"none"}, port : Nat]
    /\ validating.at \in Configured => validating.binary \in Binaries /\ validating.port \in StatsPorts
    /\ validating.at \in Validated => validating.revision \in Candidates /\ pin # {}

\* There is one pin, and it is not written before the seed.
OnePin ==
    /\ \A p, q \in pin : p = q
    /\ pin # {} => reality = 1
    /\ validating.at = "pin" => reality = 1

\* A configuration in progress keeps the port of the pin there is, and its binary too unless
\* no revision is kept.
PinIsContinued ==
    validating.at \in Configured => \A p \in pin :
        /\ validating.port = p.port
        /\ validating.binary # p.binary => \A r \in Candidates : configRows[r] = {}

\* Every file is what would be rendered now, and every row vouches for such a file.
FilesAreCurrent ==
    \A r \in Candidates : \A c \in configFiles[r] : pin # {} /\ \A p \in pin : c = RenderDesiredConfig(p)

RowsAreCurrent ==
    \A r \in Candidates : \A row \in configRows[r] :
        /\ pin # {} /\ configFiles[r] # {}
        /\ \A p \in pin : row.binary = p.binary /\ row.config = RenderDesiredConfig(p)

ValidatedHasRow ==
    /\ \A r \in Candidates : history[r] = "validated" => configRows[r] # {}
    /\ validating.at = "append" => configFiles[validating.revision] # {}

CandidatesInv ==
    /\ CandidatesTypeOK /\ OnePin /\ PinIsContinued
    /\ FilesAreCurrent /\ RowsAreCurrent /\ ValidatedHasRow

\* A step that leaves pin, seed, files, rows and history alone, and ends the command or
\* moves it to a step of which nothing more is claimed.
LEMMA CandidatesKept ==
    ASSUME CandidatesInv, binaryFile' \in Binaries,
           UNCHANGED <<reality, pin, history, configFiles, configRows>>,
           validating' \in {validating, Unheld}
    PROVE  CandidatesInv'
<1>1. \/ validating' = validating
      \/ validating'.at = "idle" /\ validating' = Unheld
  BY DEF Unheld
<1>2. CandidatesTypeOK'
  BY <1>1 DEF CandidatesInv, CandidatesTypeOK, Unheld, Configured, Validated
<1>3. OnePin' /\ PinIsContinued'
  BY <1>1 DEF CandidatesInv, OnePin, PinIsContinued, Configured
<1>4. FilesAreCurrent' /\ RowsAreCurrent'
  BY DEF CandidatesInv, FilesAreCurrent, RowsAreCurrent, RenderDesiredConfig
<1>5. ValidatedHasRow'
  BY <1>1 DEF CandidatesInv, ValidatedHasRow
<1> QED BY <1>2, <1>3, <1>4, <1>5 DEF CandidatesInv

LEMMA BeginConfigureHolds ==
    ASSUME CandidatesInv, NEW b \in Binaries, NEW replace \in BOOLEAN, BeginConfigure(b, replace)
    PROVE  CandidatesInv'
<1>1. PICK port \in StatsApiPorts :
         validating' = [at |-> "seed", revision |-> 0, binary |-> b, port |-> port]
  BY DEF BeginConfigure
<1>2. /\ UNCHANGED <<binaryFile, reality, pin, history, configFiles, configRows>>
      /\ MayPin(b, replace)
  BY DEF BeginConfigure
<1>3. port \in StatsPorts /\ \A p \in pin : port = p.port
  BY DEF StatsApiPorts, CandidatesInv, CandidatesTypeOK, OnePin
<1>4. CandidatesTypeOK'
  BY <1>1, <1>2, <1>3, CandidatesAssumption DEF CandidatesInv, CandidatesTypeOK, Configured,
     Validated
<1>5. OnePin' /\ ValidatedHasRow'
  BY <1>1, <1>2 DEF CandidatesInv, OnePin, ValidatedHasRow
<1>6. PinIsContinued'
  BY <1>1, <1>2, <1>3 DEF PinIsContinued, MayPin
<1>7. FilesAreCurrent' /\ RowsAreCurrent'
  BY <1>2 DEF CandidatesInv, FilesAreCurrent, RowsAreCurrent, RenderDesiredConfig
<1> QED BY <1>4, <1>5, <1>6, <1>7 DEF CandidatesInv

\* The seed is only created while there is no pin, and so before any file was rendered.
LEMMA LoadOrCreateSeedHolds ==
    ASSUME CandidatesInv, LoadOrCreateSeed
    PROVE  CandidatesInv'
<1>1. CASE pin # {} /\ reality = 0
  BY <1>1, CandidatesKept DEF LoadOrCreateSeed, CandidatesInv, CandidatesTypeOK
<1>2. CASE ~(pin # {} /\ reality = 0)
  <2>1. /\ reality' = 1 /\ validating.at = "seed" /\ validating' = [validating EXCEPT !.at = "pin"]
        /\ UNCHANGED <<binaryFile, pin, history, configFiles, configRows>>
    BY <1>2 DEF LoadOrCreateSeed
  <2>2. pin # {} => reality' = reality
    BY <2>1 DEF CandidatesInv, OnePin
  <2>3. /\ validating'.at = "pin" /\ validating'.binary = validating.binary
        /\ validating'.port = validating.port
    BY <2>1 DEF CandidatesInv, CandidatesTypeOK
  <2>4. CandidatesTypeOK'
    BY <2>1, <2>3 DEF CandidatesInv, CandidatesTypeOK, Configured, Validated
  <2>5. OnePin' /\ ValidatedHasRow'
    BY <2>1, <2>3 DEF CandidatesInv, OnePin, ValidatedHasRow
  <2>6. PinIsContinued'
    BY <2>1, <2>3 DEF CandidatesInv, PinIsContinued, Configured
  <2>7. FilesAreCurrent' /\ RowsAreCurrent'
    BY <2>1, <2>2 DEF CandidatesInv, FilesAreCurrent, RowsAreCurrent, RenderDesiredConfig
  <2> QED BY <2>4, <2>5, <2>6, <2>7 DEF CandidatesInv
<1> QED BY <1>1, <1>2

\* A new pin has the port of the one it replaces, and another binary only while no
\* revision is kept.
LEMMA WritePinHolds ==
    ASSUME CandidatesInv, WritePin
    PROVE  CandidatesInv'
<1>1. /\ validating.at = "pin" /\ reality = 1
      /\ pin' = {[binary |-> validating.binary, port |-> validating.port]}
      /\ validating' = Unheld /\ validating'.at = "idle"
      /\ UNCHANGED <<binaryFile, reality, history, configFiles, configRows>>
  BY DEF WritePin, CandidatesInv, OnePin, Unheld
<1>2. validating.binary \in Binaries /\ validating.port \in StatsPorts
  BY <1>1 DEF CandidatesInv, CandidatesTypeOK, Configured
<1>3. CandidatesTypeOK'
  BY <1>1, <1>2 DEF CandidatesInv, CandidatesTypeOK, Unheld, Configured, Validated
<1>4. OnePin' /\ PinIsContinued' /\ ValidatedHasRow'
  BY <1>1 DEF CandidatesInv, OnePin, PinIsContinued, ValidatedHasRow, Configured
<1>5. FilesAreCurrent'
  <2> SUFFICES ASSUME NEW r \in Candidates, NEW c \in configFiles[r]
               PROVE  c = [reality |-> reality, port |-> validating.port]
    BY <1>1 DEF FilesAreCurrent, RenderDesiredConfig
  <2>1. PICK p \in pin : c = RenderDesiredConfig(p)
    BY DEF CandidatesInv, FilesAreCurrent
  <2>2. p.port = validating.port
    BY <1>1 DEF CandidatesInv, PinIsContinued, Configured
  <2> QED BY <2>1, <2>2 DEF RenderDesiredConfig
<1>6. RowsAreCurrent'
  <2> SUFFICES ASSUME NEW r \in Candidates, NEW row \in configRows[r]
               PROVE  /\ configFiles[r] # {} /\ row.binary = validating.binary
                      /\ row.config = [reality |-> reality, port |-> validating.port]
    BY <1>1 DEF RowsAreCurrent, RenderDesiredConfig
  <2>1. PICK p \in pin : row.binary = p.binary /\ row.config = RenderDesiredConfig(p)
    BY DEF CandidatesInv, RowsAreCurrent
  <2>2. p.port = validating.port /\ p.binary = validating.binary
    BY <1>1 DEF CandidatesInv, PinIsContinued, Configured
  <2>3. configFiles[r] # {} BY DEF CandidatesInv, RowsAreCurrent
  <2> QED BY <2>1, <2>2, <2>3 DEF RenderDesiredConfig
<1> QED BY <1>3, <1>4, <1>5, <1>6 DEF CandidatesInv

LEMMA ValidationMoves ==
    ASSUME CandidatesInv, NEW r \in Candidates,
           BeginValidation(r) \/ VerifyBinary \/ ReceiveRevision(r) \/ RejectCandidate
    PROVE  CandidatesInv'
<1>1. /\ UNCHANGED <<binaryFile, reality, pin, configFiles, configRows>>
      /\ \A q \in Candidates : history'[q] = "validated" => history[q] = "validated"
      /\ history' \in [Candidates -> {"none", "received", "rejected", "validated"}]
  <2>1. CASE UNCHANGED history
    BY <2>1 DEF BeginValidation, VerifyBinary, ReceiveRevision, RejectCandidate, CandidatesInv,
                CandidatesTypeOK
  <2>2. CASE ReceiveRevision(r)
    BY <2>2 DEF ReceiveRevision, CandidatesInv, CandidatesTypeOK
  <2>3. CASE RejectCandidate
    BY <2>3 DEF RejectCandidate, CandidatesInv, CandidatesTypeOK
  <2> QED BY <2>1, <2>2, <2>3 DEF BeginValidation, VerifyBinary
<1>2. \/ validating' = validating
      \/ validating' = Unheld
      \/ pin # {} /\ \E q \in Candidates, at \in {"verify", "test"} :
             validating' = [Unheld EXCEPT !.at = at, !.revision = q]
      \/ validating.at = "verify" /\ validating' = [validating EXCEPT !.at = "test"]
  BY DEF BeginValidation, VerifyBinary, ReceiveRevision, RejectCandidate
<1>3. /\ validating'.at \notin Configured \/ validating' = validating
      /\ validating'.at = "append" => validating' = validating
      /\ validating'.at \in Validated => validating'.revision \in Candidates /\ pin # {}
      /\ validating' \in [at : {"idle"} \cup Configured \cup Validated, revision : Nat,
                          binary : Binaries \cup {"none"}, port : Nat]
  <2> USE DEF CandidatesInv, CandidatesTypeOK, Configured, Validated, Unheld, Candidates
  <2>1. CASE validating' = validating BY <2>1
  <2>2. CASE validating' = Unheld BY <2>2
  <2>3. CASE pin # {} /\ \E q \in Candidates, at \in {"verify", "test"} :
             validating' = [Unheld EXCEPT !.at = at, !.revision = q]
    <3>1. PICK q \in Candidates, at \in {"verify", "test"} :
             validating' = [at |-> at, revision |-> q, binary |-> "none", port |-> 0]
      BY <2>3
    <3>2. q \in Nat BY CandidatesAssumption
    <3> QED BY <2>3, <3>1, <3>2
  <2>4. CASE validating.at = "verify" /\ validating' = [validating EXCEPT !.at = "test"]
    BY <2>4
  <2> QED BY <1>2, <2>1, <2>2, <2>3, <2>4
<1>4. CandidatesTypeOK'
  BY <1>1, <1>3 DEF CandidatesInv, CandidatesTypeOK
<1>5. OnePin' /\ PinIsContinued'
  BY <1>1, <1>3 DEF CandidatesInv, OnePin, PinIsContinued, Configured
<1>6. FilesAreCurrent' /\ RowsAreCurrent'
  BY <1>1 DEF CandidatesInv, FilesAreCurrent, RowsAreCurrent, RenderDesiredConfig
<1>7. ValidatedHasRow'
  BY <1>1, <1>3 DEF CandidatesInv, ValidatedHasRow
<1> QED BY <1>4, <1>5, <1>6, <1>7 DEF CandidatesInv

LEMMA PersistImmutableConfigHolds ==
    ASSUME CandidatesInv, PersistImmutableConfig
    PROVE  CandidatesInv'
<1>1. PICK p \in pin :
         IF configFiles[validating.revision] \subseteq {RenderDesiredConfig(p)}
         THEN /\ configFiles' = [configFiles EXCEPT ![validating.revision] = {RenderDesiredConfig(p)}]
              /\ validating' = [validating EXCEPT !.at = "append"]
         ELSE validating' = Unheld /\ UNCHANGED configFiles
  BY DEF PersistImmutableConfig
<1>2. /\ validating.at = "test" /\ validating.revision \in Candidates
      /\ UNCHANGED <<binaryFile, reality, pin, history, configRows>>
  BY DEF PersistImmutableConfig, CandidatesInv, CandidatesTypeOK, Validated
<1>3. CASE UNCHANGED configFiles /\ validating' = Unheld
  BY <1>2, <1>3, CandidatesKept DEF CandidatesInv, CandidatesTypeOK
<1>4. CASE /\ configFiles' = [configFiles EXCEPT ![validating.revision] = {RenderDesiredConfig(p)}]
           /\ validating' = [validating EXCEPT !.at = "append"]
  <2>1. /\ validating'.at = "append" /\ validating'.revision = validating.revision
        /\ validating' \in [at : {"idle"} \cup Configured \cup Validated, revision : Nat,
                            binary : Binaries \cup {"none"}, port : Nat]
    BY <1>4 DEF CandidatesInv, CandidatesTypeOK, Validated
  <2>2. RenderDesiredConfig(p) \in [reality : {0, 1}, port : StatsPorts]
    BY DEF RenderDesiredConfig, CandidatesInv, CandidatesTypeOK
  <2>3. \A r \in Candidates : configFiles'[r] \in {configFiles[r], {RenderDesiredConfig(p)}}
    BY <1>4 DEF CandidatesInv, CandidatesTypeOK
  <2>4. configFiles'[validating.revision] = {RenderDesiredConfig(p)}
    BY <1>2, <1>4 DEF CandidatesInv, CandidatesTypeOK
  <2>5. configFiles' \in [Candidates -> SUBSET [reality : {0, 1}, port : StatsPorts]]
    BY <1>4, <2>2 DEF CandidatesInv, CandidatesTypeOK
  <2>6. CandidatesTypeOK'
    BY <1>2, <2>1, <2>5 DEF CandidatesInv, CandidatesTypeOK, Configured, Validated
  <2>7. OnePin' /\ PinIsContinued'
    BY <1>2, <2>1 DEF CandidatesInv, OnePin, PinIsContinued, Configured
  <2>8. FilesAreCurrent'
    BY <1>2, <2>3 DEF CandidatesInv, OnePin, FilesAreCurrent, RenderDesiredConfig
  <2>9. RowsAreCurrent'
    <3>1. \A r \in Candidates : configFiles[r] # {} => configFiles'[r] # {}
      BY <2>3
    <3> QED BY <1>2, <3>1 DEF CandidatesInv, RowsAreCurrent, RenderDesiredConfig
  <2>10. ValidatedHasRow'
    BY <1>2, <2>1, <2>4 DEF CandidatesInv, ValidatedHasRow
  <2> QED BY <2>6, <2>7, <2>8, <2>9, <2>10 DEF CandidatesInv
<1> QED BY <1>1, <1>3, <1>4

LEMMA AppendValidatedResultHolds ==
    ASSUME CandidatesInv, AppendValidatedResult
    PROVE  CandidatesInv'
<1>1. PICK p \in pin :
         /\ configRows' = [configRows EXCEPT ![validating.revision] =
                {[binary |-> p.binary, config |-> RenderDesiredConfig(p)]}]
         /\ history' = [history EXCEPT ![validating.revision] = "validated"]
  BY DEF AppendValidatedResult
<1>2. /\ validating.at = "append" /\ validating.revision \in Candidates
      /\ configFiles[validating.revision] # {}
      /\ validating' = Unheld /\ validating'.at = "idle"
      /\ UNCHANGED <<binaryFile, reality, pin, configFiles>>
  BY DEF AppendValidatedResult, CandidatesInv, CandidatesTypeOK, Validated, ValidatedHasRow, Unheld
<1>3. PICK row \in [binary : Binaries, config : [reality : {0, 1}, port : StatsPorts]] :
         row = [binary |-> p.binary, config |-> RenderDesiredConfig(p)]
  BY DEF RenderDesiredConfig, CandidatesInv, CandidatesTypeOK
<1>4. configRows' \in [Candidates -> SUBSET [binary : Binaries, config : [reality : {0, 1}, port : StatsPorts]]]
  BY <1>1, <1>3 DEF CandidatesInv, CandidatesTypeOK
<1>5. \A r \in Candidates :
         configRows'[r] = IF r = validating.revision THEN {row} ELSE configRows[r]
  BY <1>1, <1>3 DEF CandidatesInv, CandidatesTypeOK
<1>6. CandidatesTypeOK'
  BY <1>1, <1>2, <1>4 DEF CandidatesInv, CandidatesTypeOK, Unheld, Configured, Validated
<1>7. OnePin' /\ PinIsContinued'
  BY <1>2 DEF CandidatesInv, OnePin, PinIsContinued, Configured
<1>8. FilesAreCurrent'
  BY <1>2 DEF CandidatesInv, FilesAreCurrent, RenderDesiredConfig
<1>9. RowsAreCurrent'
  <2>1. \A q \in pin : row.binary = q.binary /\ row.config = RenderDesiredConfig(q)
    BY <1>3 DEF CandidatesInv, OnePin
  <2> QED BY <1>2, <1>5, <2>1 DEF CandidatesInv, RowsAreCurrent, RenderDesiredConfig
<1>10. ValidatedHasRow'
  BY <1>1, <1>2, <1>5 DEF CandidatesInv, CandidatesTypeOK, ValidatedHasRow
<1> QED BY <1>6, <1>7, <1>8, <1>9, <1>10 DEF CandidatesInv

\* A validated revision can be loaded at every later start, and a revision whose validation
\* was cut off can be validated again, for every number of revisions, binaries and ports and
\* every order of configurations, exchanges of the binary and deaths (configure_xray,
\* persist_immutable_config, append_validated_result, load_validated_candidate).
THEOREM CandidatesValid == CandidatesSpec => []CandidatesStayValid
<1>1. CandidatesInit => CandidatesInv
  BY DEF CandidatesInit, CandidatesInv, CandidatesTypeOK, OnePin, PinIsContinued, FilesAreCurrent,
         RowsAreCurrent, ValidatedHasRow, Unheld, Configured, Validated
<1>2. CandidatesInv /\ [CandidatesNext]_candidateVars => CandidatesInv'
  <2> SUFFICES ASSUME CandidatesInv, [CandidatesNext]_candidateVars PROVE CandidatesInv'
    OBVIOUS
  <2>1. CASE \E b \in Binaries : ExchangeBinary(b)
    BY <2>1, CandidatesKept DEF ExchangeBinary
  <2>2. CASE \E b \in Binaries, replace \in BOOLEAN : BeginConfigure(b, replace)
    BY <2>2, BeginConfigureHolds
  <2>3. CASE LoadOrCreateSeed BY <2>3, LoadOrCreateSeedHolds
  <2>4. CASE WritePin BY <2>4, WritePinHolds
  <2>5. CASE \E r \in Candidates : ReceiveRevision(r) \/ BeginValidation(r)
    BY <2>5, ValidationMoves
  <2>6. CASE VerifyBinary \/ RejectCandidate
    <3>1. validating.revision \in Candidates
      BY <2>6 DEF VerifyBinary, RejectCandidate, CandidatesInv, CandidatesTypeOK, Validated
    <3> QED BY <2>6, <3>1, ValidationMoves
  <2>7. CASE ValidationFails \/ ValidationDies
    BY <2>7, CandidatesKept DEF ValidationFails, ValidationDies, CandidatesInv, CandidatesTypeOK
  <2>8. CASE PersistImmutableConfig BY <2>8, PersistImmutableConfigHolds
  <2>9. CASE AppendValidatedResult BY <2>9, AppendValidatedResultHolds
  <2>10. CASE UNCHANGED candidateVars
    BY <2>10, CandidatesKept DEF candidateVars, CandidatesInv, CandidatesTypeOK
  <2> QED BY <2>1, <2>2, <2>3, <2>4, <2>5, <2>6, <2>7, <2>8, <2>9, <2>10 DEF CandidatesNext
<1>3. CandidatesInv => CandidatesStayValid
  <2> SUFFICES ASSUME CandidatesInv, NEW r \in Candidates
               PROVE  /\ history[r] = "validated" => CandidateLoads(r)
                      /\ history[r] = "received" => \A c \in configFiles[r] :
                             pin # {} /\ \A p \in pin : c = RenderDesiredConfig(p)
    BY DEF CandidatesStayValid
  <2>1. ASSUME history[r] = "validated" PROVE CandidateLoads(r)
    <3>1. PICK row \in configRows[r] : TRUE
      BY <2>1 DEF CandidatesInv, ValidatedHasRow
    <3>2. PICK p \in pin : row.binary = p.binary /\ row.config = RenderDesiredConfig(p)
      BY DEF CandidatesInv, RowsAreCurrent
    <3>3. configFiles[r] # {} /\ \A c \in configFiles[r] : c = RenderDesiredConfig(p)
      BY DEF CandidatesInv, RowsAreCurrent, FilesAreCurrent
    <3>4. configFiles[r] = {row.config}
      BY <3>2, <3>3
    <3> QED BY <3>2, <3>4 DEF CandidateLoads, RenderedConfigVerifies
  <2> QED BY <2>1 DEF CandidatesInv, FilesAreCurrent
<1> QED BY <1>1, <1>2, <1>3, PTL DEF CandidatesSpec

-----------------------------------------------------------------------------
(* Manual: the provider's own forwarding *)

ManualTypeOK ==
    /\ serving \in [revision : Nat, port : Nat] /\ made \in Nat
    /\ configure \subseteq [revision : Nat, port : Nat]
    /\ forward \subseteq [identity : Nat, revision : Nat, port : Nat, expired : BOOLEAN]
    /\ offers \subseteq [identity : Nat, revision : Nat, port : Nat, listens : Nat]

\* What was read or written is not ahead of the applied revision, and what is of the applied
\* revision has the port it listens on.
TargetIsKnown ==
    \A x \in configure \cup forward :
        x.revision <= serving.revision /\ (x.revision = serving.revision => x.port = serving.port)

\* There is one row, identities are counted, and an identity that was offered is the row's
\* only if the row still is of the revision it was offered for.
IdentitiesAreFresh ==
    /\ \A x, y \in forward : x = y
    /\ \A x \in forward \cup offers : x.identity <= made
    /\ \A x \in forward, o \in offers : x.identity = o.identity => x.revision = o.revision

ManualInv == ManualTypeOK /\ TargetIsKnown /\ IdentitiesAreFresh /\ ManualIsForwarded

\* A step that replaces the row, by one with a new identity, or leaves the rows it has.
LEMMA RowWritten ==
    ASSUME ManualInv, NEW row \in [identity : Nat, revision : Nat, port : Nat, expired : BOOLEAN],
           forward' = {row}, UNCHANGED <<serving, offers>>, configure' \subseteq configure,
           row.identity = made + 1 /\ made' = made + 1,
           row.revision <= serving.revision, row.revision = serving.revision => row.port = serving.port
    PROVE  ManualInv'
<1>1. ManualTypeOK'
  BY DEF ManualInv, ManualTypeOK
<1>2. TargetIsKnown'
  BY DEF ManualInv, TargetIsKnown
<1>3. \A o \in offers : o.identity \in Nat /\ o.identity <= made /\ made \in Nat
  BY DEF ManualInv, ManualTypeOK, IdentitiesAreFresh
<1>4. /\ \A o \in offers : o.identity <= made + 1 /\ row.identity # o.identity
      /\ row.identity <= made + 1
  BY <1>3
<1>5. IdentitiesAreFresh'
  BY <1>4 DEF IdentitiesAreFresh
<1>6. ManualIsForwarded'
  BY DEF ManualInv, ManualIsForwarded
<1> QED BY <1>1, <1>2, <1>5, <1>6 DEF ManualInv

LEMMA RowsKept ==
    ASSUME ManualInv, forward' \subseteq forward, configure' \subseteq configure, UNCHANGED <<serving, made, offers>>
    PROVE  ManualInv'
<1>1. ManualTypeOK'
  BY DEF ManualInv, ManualTypeOK
<1>2. TargetIsKnown' /\ IdentitiesAreFresh'
  BY DEF ManualInv, TargetIsKnown, IdentitiesAreFresh
<1>3. ManualIsForwarded'
  BY DEF ManualInv, ManualIsForwarded
<1> QED BY <1>1, <1>2, <1>3 DEF ManualInv

LEMMA ApplyRevisionHolds ==
    ASSUME ManualInv, NEW port \in ListenPorts, ApplyRevision(port)
    PROVE  ManualInv'
<1>1. /\ serving' = [revision |-> serving.revision + 1, port |-> port]
      /\ UNCHANGED <<forward, configure, made, offers>>
  BY DEF ApplyRevision
<1>2. serving.revision \in Nat /\ port \in Nat
  BY ManualAssumption DEF ManualInv, ManualTypeOK
<1>3. serving'.revision = serving.revision + 1 /\ serving' \in [revision : Nat, port : Nat]
  BY <1>1, <1>2
<1>4. ManualTypeOK'
  BY <1>1, <1>3 DEF ManualInv, ManualTypeOK
<1>5. \A x \in configure \cup forward : x.revision \in Nat /\ x.revision <= serving.revision
  BY DEF ManualInv, ManualTypeOK, TargetIsKnown
<1>6. \A x \in configure \cup forward : x.revision <= serving'.revision /\ x.revision # serving'.revision
  BY <1>2, <1>3, <1>5
<1>7. TargetIsKnown'
  BY <1>1, <1>6 DEF TargetIsKnown
<1>8. IdentitiesAreFresh' /\ ManualIsForwarded'
  BY <1>1 DEF ManualInv, IdentitiesAreFresh, ManualIsForwarded
<1> QED BY <1>4, <1>7, <1>8 DEF ManualInv

LEMMA OfferHolds ==
    ASSUME ManualInv, OfferManualEndpoint
    PROVE  ManualInv'
<1> DEFINE Offer(row) == [identity |-> row.identity, revision |-> row.revision,
                          port |-> row.port, listens |-> serving.port]
<1>1. /\ offers' = offers \cup {Offer(row) : row \in LoadManualCandidate}
      /\ UNCHANGED <<serving, forward, configure, made>>
  BY DEF OfferManualEndpoint
<1>2. \A row \in LoadManualCandidate : row \in forward /\ row.revision = serving.revision
  BY DEF LoadManualCandidate
<1>3. ASSUME NEW o \in offers', o \notin offers
      PROVE  \E row \in forward : /\ o.identity = row.identity /\ o.revision = row.revision
                                  /\ o.port = row.port /\ o.listens = serving.port /\ row.port = serving.port
                                  /\ o \in [identity : Nat, revision : Nat, port : Nat, listens : Nat]
  <2>1. PICK row \in LoadManualCandidate : o = Offer(row)
    BY <1>1, <1>3
  <2>2. row \in forward /\ row.port = serving.port
    BY <1>2 DEF ManualInv, TargetIsKnown
  <2>3. o \in [identity : Nat, revision : Nat, port : Nat, listens : Nat]
    BY <2>1, <2>2 DEF ManualInv, ManualTypeOK
  <2> QED BY <2>1, <2>2, <2>3
<1> HIDE DEF Offer
<1>4. ManualTypeOK'
  BY <1>1, <1>3 DEF ManualInv, ManualTypeOK
<1>5. TargetIsKnown'
  BY <1>1 DEF ManualInv, TargetIsKnown
<1>6. IdentitiesAreFresh'
  <2>1. \A x \in forward, o \in offers' : x.identity = o.identity => x.revision = o.revision
    BY <1>3 DEF ManualInv, IdentitiesAreFresh
  <2>2. \A o \in offers' : o.identity <= made
    BY <1>3 DEF ManualInv, IdentitiesAreFresh
  <2> QED BY <1>1, <2>1, <2>2 DEF ManualInv, IdentitiesAreFresh
<1>7. ManualIsForwarded'
  <2>1. \A o \in offers' : o.port = o.listens
    BY <1>3 DEF ManualInv, ManualIsForwarded
  <2>2. \A o, q \in offers' : o.identity = q.identity => o.revision = q.revision
    BY <1>3 DEF ManualInv, ManualIsForwarded, IdentitiesAreFresh
  <2> QED BY <2>1, <2>2 DEF ManualIsForwarded
<1> QED BY <1>4, <1>5, <1>6, <1>7 DEF ManualInv

\* However revisions, commands and heartbeats interleave, an endpoint that was offered led
\* to the listener of its revision, and no identity was offered for two revisions, for every
\* number of revisions and identities (configure_manual_endpoint, carry_manual_endpoint_forward).
THEOREM ManualForwarded == ManualSpec => []ManualIsForwarded
<1>1. ManualInit => ManualInv
  BY DEF ManualInit, ManualInv, ManualTypeOK, TargetIsKnown, IdentitiesAreFresh, ManualIsForwarded
<1>2. ManualInv /\ [ManualNext]_manualVars => ManualInv'
  <2> SUFFICES ASSUME ManualInv, [ManualNext]_manualVars PROVE ManualInv'
    OBVIOUS
  <2>1. CASE \E port \in ListenPorts : ApplyRevision(port)
    BY <2>1, ApplyRevisionHolds
  <2>2. CASE ReadAdmissionTarget
    <3>1. configure' = {serving} /\ UNCHANGED <<serving, forward, made, offers>>
      BY <2>2 DEF ReadAdmissionTarget
    <3>2. ManualTypeOK' /\ serving.revision <= serving.revision
      BY <3>1 DEF ManualInv, ManualTypeOK
    <3>3. TargetIsKnown'
      BY <3>1, <3>2 DEF ManualInv, TargetIsKnown
    <3>4. IdentitiesAreFresh' /\ ManualIsForwarded'
      BY <3>1 DEF ManualInv, IdentitiesAreFresh, ManualIsForwarded
    <3> QED BY <3>2, <3>3, <3>4 DEF ManualInv
  <2>3. CASE WriteManualEndpoint
    <3>1. PICK read \in configure :
             forward' = {[identity |-> made + 1, revision |-> read.revision, port |-> read.port, expired |-> FALSE]}
      BY <2>3 DEF WriteManualEndpoint
    <3>2. configure' = {} /\ made' = made + 1 /\ UNCHANGED <<serving, offers>>
      BY <2>3 DEF WriteManualEndpoint
    <3>3. PICK row : row = [identity |-> made + 1, revision |-> read.revision, port |-> read.port, expired |-> FALSE]
      OBVIOUS
    <3>4. /\ row \in [identity : Nat, revision : Nat, port : Nat, expired : BOOLEAN]
          /\ row.identity = made + 1 /\ row.revision = read.revision /\ row.port = read.port
      BY <3>3 DEF ManualInv, ManualTypeOK
    <3>5. row.revision <= serving.revision /\ (row.revision = serving.revision => row.port = serving.port)
      BY <3>4 DEF ManualInv, TargetIsKnown
    <3> QED BY <3>1, <3>2, <3>3, <3>4, <3>5, RowWritten
  <2>4. CASE ConfigureFails \/ ClearManualEndpoint \/ UNCHANGED manualVars
    <3>1. forward' \subseteq forward /\ configure' \subseteq configure /\ UNCHANGED <<serving, made, offers>>
      BY <2>4 DEF ConfigureFails, ClearManualEndpoint, manualVars
    <3> QED BY <3>1, RowsKept
  <2>5. CASE CarryManualEndpointForward
    <3>1. PICK old \in forward : /\ MayCarry(old)
                                 /\ forward' = {[old EXCEPT !.identity = made + 1, !.revision = serving.revision]}
      BY <2>5 DEF CarryManualEndpointForward
    <3>2. made' = made + 1 /\ UNCHANGED <<serving, configure, offers>>
      BY <2>5 DEF CarryManualEndpointForward
    <3>3. PICK row : row = [old EXCEPT !.identity = made + 1, !.revision = serving.revision]
      OBVIOUS
    <3>4. /\ row \in [identity : Nat, revision : Nat, port : Nat, expired : BOOLEAN]
          /\ row.identity = made + 1 /\ row.revision = serving.revision /\ row.port = old.port
          /\ serving.revision \in Nat
      <4>1. /\ old \in [identity : Nat, revision : Nat, port : Nat, expired : BOOLEAN]
            /\ made + 1 \in Nat /\ serving.revision \in Nat
        BY DEF ManualInv, ManualTypeOK
      <4> QED BY <3>3, <4>1
    <3>5. row.revision <= serving.revision /\ row.port = serving.port
      BY <3>1, <3>4 DEF MayCarry
    <3> QED BY <3>1, <3>2, <3>3, <3>4, <3>5, RowWritten
  <2>6. CASE EndpointExpires
    <3>1. PICK old \in forward : forward' = {[old EXCEPT !.expired = TRUE]}
      BY <2>6 DEF EndpointExpires
    <3>2. UNCHANGED <<serving, configure, made, offers>>
      BY <2>6 DEF EndpointExpires
    <3>3. PICK row : row = [old EXCEPT !.expired = TRUE]
      OBVIOUS
    <3>4. /\ row \in [identity : Nat, revision : Nat, port : Nat, expired : BOOLEAN]
          /\ row.identity = old.identity /\ row.revision = old.revision /\ row.port = old.port
      BY <3>3 DEF ManualInv, ManualTypeOK
    <3>5. ManualTypeOK'
      BY <3>1, <3>2, <3>3, <3>4 DEF ManualInv, ManualTypeOK
    <3>6. TargetIsKnown' /\ IdentitiesAreFresh'
      BY <3>1, <3>2, <3>3, <3>4 DEF ManualInv, TargetIsKnown, IdentitiesAreFresh
    <3>7. ManualIsForwarded'
      BY <3>2 DEF ManualInv, ManualIsForwarded
    <3> QED BY <3>5, <3>6, <3>7 DEF ManualInv
  <2>7. CASE OfferManualEndpoint
    BY <2>7, OfferHolds
  <2> QED BY <2>1, <2>2, <2>3, <2>4, <2>5, <2>6, <2>7 DEF ManualNext
<1> QED BY <1>1, <1>2, PTL DEF ManualSpec, ManualInv

-----------------------------------------------------------------------------
(* Policy: the provider's limits *)

\* Quotient and remainder, and that there is only one pair of them.
LEMMA Division ==
    ASSUME NEW a \in Nat, NEW b \in Nat \ {0}
    PROVE  /\ a % b \in Nat /\ a % b < b /\ a \div b \in Nat
           /\ a = b * (a \div b) + (a % b)
  OBVIOUS

LEMMA DivisionIsUnique ==
    ASSUME NEW b \in Nat \ {0}, NEW q \in Nat, NEW r \in Nat, NEW p \in Nat, NEW s \in Nat,
           r < b, s < b, b * q + r = b * p + s
    PROVE  q = p /\ r = s
<1>1. ASSUME NEW x \in Nat, NEW y \in Nat, NEW u \in Nat, NEW v \in Nat, u < b, x < y, b * x + u = b * y + v
      PROVE  FALSE
  <2>1. b * (y - x) = u - v
    BY <1>1
  <2>2. b * (y - x) >= b
    BY <1>1
  <2> QED BY <1>1, <2>1, <2>2
<1>2. ~ (q < p)
  BY <1>1
<1>3. ~ (p < q)
  BY <1>1
<1> QED BY <1>2, <1>3

LEMMA Remainder ==
    ASSUME NEW b \in Nat \ {0}, NEW q \in Nat, NEW r \in Nat, r < b
    PROVE  (b * q + r) % b = r /\ (b * q + r) \div b = q
<1> DEFINE a == b * q + r
<1>1. a \in Nat
  OBVIOUS
<1>2. a % b \in Nat /\ a % b < b /\ a \div b \in Nat /\ a = b * (a \div b) + (a % b)
  BY <1>1, Division
<1> HIDE DEF a
<1>3. a = b * q + r
  BY DEF a
<1>4. PICK p \in Nat, s \in Nat : p = a \div b /\ s = a % b
  BY <1>2
<1>5. p = q /\ s = r
  BY <1>2, <1>3, <1>4, DivisionIsUnique
<1> QED BY <1>4, <1>5 DEF a

LEMMA SmallRemainder ==
    ASSUME NEW b \in Nat \ {0}, NEW r \in Nat, r < b
    PROVE  r % b = r
<1>1. r % b \in Nat /\ r % b < b /\ r \div b \in Nat /\ r = b * (r \div b) + (r % b)
  BY Division
<1>2. PICK p \in Nat, s \in Nat : p = r \div b /\ s = r % b
  BY <1>1
<1>3. b * 0 + r = b * p + s
  BY <1>1, <1>2
<1>4. r = s
  BY <1>1, <1>2, <1>3, DivisionIsUnique
<1> QED BY <1>2, <1>4

LEMMA WeekIsPositive == WeekDays \in Nat \ {0} /\ DayMinutes \in Nat \ {0} /\ Week \in Nat \ {0} /\ Cap \in Nat
  BY PolicyAssumption DEF Week

\* A time is a day of the week and a minute of that day.
LEMMA DayAndMinute ==
    ASSUME NEW t \in Nat
    PROVE  \E d \in 0 .. WeekDays - 1, e \in 0 .. DayMinutes - 1 :
             /\ (t % Week) \div DayMinutes = d /\ t % DayMinutes = e
             /\ t % Week = DayMinutes * d + e
<1>1. PICK D \in Nat \ {0}, N \in Nat \ {0}, W \in Nat \ {0} : D = DayMinutes /\ N = WeekDays /\ W = Week /\ W = N * D
  BY WeekIsPositive DEF Week
<1>2. PICK q \in Nat, m \in Nat : q = t \div W /\ m = t % W /\ m < W /\ t = W * q + m
  BY Division
<1>3. PICK d \in Nat, e \in Nat : d = m \div D /\ e = m % D /\ e < D /\ m = D * d + e
  BY Division
<1>4. d < N
  <2> SUFFICES ASSUME d >= N PROVE FALSE
    OBVIOUS
  <2>1. D * d >= D * N
    OBVIOUS
  <2> QED BY <1>1, <1>2, <1>3, <2>1
<1>5. t = D * (N * q + d) + e
  <2>1. PICK y \in Nat, z \in Nat : y = W * q /\ z = D * d
    OBVIOUS
  <2>2. D * (N * q + d) = y + z
    <3>1. y = D * (N * q)
      BY <1>1, <2>1
    <3>2. D * (N * q + d) = D * (N * q) + D * d
      OBVIOUS
    <3> QED BY <2>1, <3>1, <3>2
  <2>3. t = y + (z + e)
    BY <1>2, <1>3, <2>1
  <2> QED BY <2>2, <2>3
<1>6. t % D = e
  <2>1. PICK x \in Nat : x = N * q + d
    OBVIOUS
  <2>2. t = D * x + e
    BY <1>5, <2>1
  <2> QED BY <1>3, <2>2, Remainder
<1>7. d \in 0 .. N - 1 /\ e \in 0 .. D - 1
  BY <1>3, <1>4
<1>8. (t % W) \div D = d /\ t % W = D * d + e
  BY <1>2, <1>3
<1> QED BY <1>1, <1>6, <1>7, <1>8

LEMMA DayInWeek == DayMinutes <= Week
<1>1. PICK D \in Nat \ {0}, N \in Nat \ {0} : D = DayMinutes /\ N = WeekDays
  BY WeekIsPositive
<1>2. D <= N * D
  OBVIOUS
<1> QED BY <1>1, <1>2 DEF Week

\* The length of a window, modulo the day.
LEMMA WindowLength ==
    ASSUME NEW D \in Nat \ {0}, NEW a \in 0 .. D - 1, NEW b \in 0 .. D - 1, a # b
    PROVE  (b + D - a) % D = IF a < b THEN b - a ELSE b + D - a
<1>1. CASE a < b
  <2>1. b + D - a = D * 1 + (b - a) /\ b - a \in Nat /\ b - a < D
    BY <1>1
  <2>2. (D * 1 + (b - a)) % D = b - a
    BY <2>1, Remainder
  <2> QED BY <1>1, <2>1, <2>2
<1>2. CASE ~ (a < b)
  <2>1. b + D - a = D * 0 + (b + D - a) /\ b + D - a \in Nat /\ b + D - a < D
    BY <1>2
  <2> QED BY <1>2, <2>1, Remainder
<1> QED BY <1>1, <1>2

\* A moment that contains allows is one that the window promises: the two readings of a
\* window agree, over midnight and over the end of the week too.
LEMMA ContainsIsPromised ==
    ASSUME NEW t \in Nat, NEW w, ValidWindow(w), Contains(w, t)
    PROVE  t % Week \in Promised(w)
<1>1. PICK d \in 0 .. WeekDays - 1, e \in 0 .. DayMinutes - 1 :
             /\ (t % Week) \div DayMinutes = d /\ t % DayMinutes = e
             /\ t % Week = DayMinutes * d + e
  BY DayAndMinute
<1>2. PICK m : m = t % Week
  OBVIOUS
<1>3. m \in Nat /\ m < Week /\ m = DayMinutes * d + e
  BY <1>1, <1>2, WeekIsPositive, Division
<1>4. PICK g \in 1 .. WeekDays, a \in 0 .. DayMinutes - 1, b \in 0 .. DayMinutes - 1 :
         g = w.weekday /\ a = w.start /\ b = w.end /\ a # b
  BY DEF ValidWindow
<1>5. PICK D \in Nat \ {0}, N \in Nat \ {0}, W \in Nat \ {0} : D = DayMinutes /\ N = WeekDays /\ W = Week /\ W = N * D
  BY WeekIsPositive DEF Week
<1>6. PICK first \in Nat : first = (g - 1) * D + a
  BY <1>4, <1>5
<1>7. PICK length : length = (b + D - a) % D
  OBVIOUS
<1>8. length = IF a < b THEN b - a ELSE b + D - a
  BY <1>4, <1>5, <1>7, WindowLength
<1>9. Promised(w) = {(first + k) % W : k \in 0 .. length - 1}
  BY <1>4, <1>5, <1>6, <1>7 DEF Promised
<1>10. SUFFICES \E k \in 0 .. length - 1 : (first + k) % W = m
  BY <1>2, <1>9
<1>11. IF a < b THEN d + 1 = g /\ e >= a /\ e < b
       ELSE \/ d + 1 = g /\ e >= a
            \/ d + 1 = (IF g = N THEN 1 ELSE g + 1) /\ e < b
  BY <1>1, <1>4, <1>5 DEF Contains
<1>12. CASE d + 1 = g /\ e >= a /\ (a < b => e < b)
  <2>1. PICK k : k = e - a
    OBVIOUS
  <2>2. k \in 0 .. length - 1
    BY <1>4, <1>5, <1>8, <1>12, <2>1
  <2>3. first + k = m
    <3>1. (g - 1) * D = D * d
      BY <1>12, <1>5
    <3> QED BY <1>3, <1>4, <1>5, <1>6, <2>1, <3>1
  <2>4. m % W = m
    <3>1. m = W * 0 + m /\ m < W
      BY <1>3, <1>5
    <3> QED BY <1>3, <3>1, Remainder
  <2> QED BY <2>2, <2>3, <2>4
<1>13. CASE a >= b /\ e < b /\ d + 1 = (IF g = N THEN 1 ELSE g + 1)
  <2>1. PICK k : k = D - a + e
    OBVIOUS
  <2>2. k \in 0 .. length - 1
    BY <1>4, <1>5, <1>8, <1>13, <2>1
  <2>3. first + k = g * D + e
    <3>1. (g - 1) * D = g * D - D
      BY <1>5
    <3> QED BY <1>4, <1>5, <1>6, <2>1, <3>1
  <2>4. (first + k) % W = m
    <3>1. CASE g = N
      <4>1. d = 0 /\ D * d = 0
        BY <1>5, <1>13, <3>1
      <4>2. first + k = W * 1 + m /\ m < W
        BY <1>3, <1>5, <2>3, <3>1, <4>1
      <4> QED BY <1>3, <4>2, Remainder
    <3>2. CASE g # N
      <4>1. d = g /\ D * d = g * D
        BY <1>5, <1>13, <3>2
      <4>2. first + k = W * 0 + m /\ m < W
        BY <1>3, <1>5, <2>3, <4>1
      <4> QED BY <1>3, <4>2, Remainder
    <3> QED BY <3>1, <3>2
  <2> QED BY <2>2, <2>4
<1> QED BY <1>4, <1>11, <1>12, <1>13

\* The other direction: a window promises no moment that contains refuses.
LEMMA PromisedIsContained ==
    ASSUME NEW t \in Nat, NEW w, ValidWindow(w), t % Week \in Promised(w)
    PROVE  Contains(w, t)
<1>1. PICK d \in 0 .. WeekDays - 1, e \in 0 .. DayMinutes - 1 :
             /\ (t % Week) \div DayMinutes = d /\ t % DayMinutes = e
             /\ t % Week = DayMinutes * d + e
  BY DayAndMinute
<1>2. PICK g \in 1 .. WeekDays, a \in 0 .. DayMinutes - 1, b \in 0 .. DayMinutes - 1 :
         g = w.weekday /\ a = w.start /\ b = w.end /\ a # b
  BY DEF ValidWindow
<1>3. PICK D \in Nat \ {0}, N \in Nat \ {0}, W \in Nat \ {0} : D = DayMinutes /\ N = WeekDays /\ W = Week /\ W = N * D
  BY WeekIsPositive DEF Week
<1>4. PICK m : m = t % W
  OBVIOUS
<1>5. m \in Nat /\ m < W /\ m = D * d + e /\ d \in Nat /\ e \in Nat /\ e < D /\ g \in Nat /\ a \in Nat /\ b \in Nat
      /\ a < D /\ b < D /\ 1 <= g /\ g <= N
  BY <1>1, <1>2, <1>3, <1>4, Division
<1>6. PICK k \in 0 .. (IF a < b THEN b - a ELSE b + D - a) - 1 : ((g - 1) * D + a + k) % W = m
  <2>1. PICK k \in 0 .. ((b + D - a) % D) - 1 : ((g - 1) * D + a + k) % W = m
    BY <1>2, <1>3, <1>4 DEF Promised
  <2>2. (b + D - a) % D = IF a < b THEN b - a ELSE b + D - a
    BY <1>2, <1>3, WindowLength
  <2> QED BY <2>1, <2>2
<1>7. \A x \in Nat, y \in Nat : y < D /\ m = D * x + y => d = x /\ e = y
  BY <1>5, DivisionIsUnique
<1>8. SUFFICES IF a < b THEN d + 1 = g /\ e >= a /\ e < b
               ELSE \/ d + 1 = g /\ e >= a
                    \/ d + 1 = (IF g = N THEN 1 ELSE g + 1) /\ e < b
  BY <1>1, <1>2, <1>3 DEF Contains
<1>9. CASE a + k < D
  <2>1. PICK x \in Nat, y \in Nat : x = g - 1 /\ y = a + k
    BY <1>2, <1>5, <1>6
  <2>2. (g - 1) * D + a + k = D * x + y
    <3>1. (g - 1) * D = D * x
      BY <1>5, <2>1
    <3>2. (g - 1) * D \in Nat /\ k \in Nat
      BY <1>2, <1>5, <1>6
    <3> QED BY <1>5, <2>1, <3>1, <3>2
  <2>3. D * x + y < W
    <3>1. D * (x + 1) <= D * N
      BY <1>5, <2>1
    <3>2. D * (x + 1) = D * x + D /\ D * N = W
      BY <1>3, <2>1
    <3> QED BY <1>3, <1>9, <2>1, <3>1, <3>2
  <2>4. m = D * x + y
    <3>1. PICK z \in Nat : z = D * x + y
      BY <2>1
    <3>2. z % W = z
      BY <2>3, <3>1, SmallRemainder
    <3> QED BY <1>6, <2>2, <3>1, <3>2
  <2>5. d = g - 1 /\ e = a + k
    BY <1>7, <1>9, <2>1, <2>4
  <2> QED BY <1>5, <1>6, <1>9, <2>5
<1>10. CASE ~ (a + k < D)
  <2>1. k \in Int /\ ~ (a < b)
    BY <1>2, <1>5, <1>6, <1>10
  <2>2. PICK y \in Nat : y = a + k - D /\ y < b /\ y < D
    BY <1>2, <1>5, <1>6, <1>10, <2>1
  <2>3. (g - 1) * D + a + k = D * g + y
    <3>1. (g - 1) * D = D * g - D
      BY <1>5
    <3>2. PICK z \in Nat : z = D * g
      BY <1>5
    <3> QED BY <1>5, <2>1, <2>2, <3>1, <3>2
  <2>4. CASE g = N
    <3>1. (W * 1 + y) % W = y
      <4>1. y < W
        BY <1>3, <2>2, DayInWeek
      <4> QED BY <4>1, Remainder
    <3>2. D * g + y = W * 1 + y
      BY <1>3, <2>4
    <3>3. m = D * 0 + y
      BY <1>6, <2>3, <3>1, <3>2
    <3>4. d = 0 /\ e = y
      BY <1>7, <2>2, <3>3
    <3> QED BY <2>1, <2>2, <2>4, <3>4
  <2>5. CASE g # N
    <3>1. D * g + y < W
      <4>1. D * (g + 1) <= D * N
        BY <1>5, <2>5
      <4>2. D * (g + 1) = D * g + D /\ D * N = W
        BY <1>3, <1>5
      <4>3. PICK z \in Nat : z = D * g
        BY <1>5
      <4> QED BY <1>3, <2>2, <4>1, <4>2, <4>3
    <3>2. m = D * g + y
      <4>1. PICK z \in Nat : z = D * g + y
        BY <1>5, <2>2
      <4>2. z % W = z
        BY <3>1, <4>1, SmallRemainder
      <4> QED BY <1>6, <2>3, <4>1, <4>2
    <3>3. d = g /\ e = y
      BY <1>5, <1>7, <2>2, <3>2
    <3> QED BY <2>1, <2>2, <2>5, <3>3
  <2> QED BY <2>4, <2>5
<1> QED BY <1>9, <1>10

\* The schedule's test (WeeklyScheduleWindow::contains) is exactly what a window promises: the
\* minutes of its length from its start on, over midnight and over the end of the week,
\* for a week and a day of any length.
THEOREM WindowsKeepTheirPromise ==
    \A t \in Nat : \A w : ValidWindow(w) => (Contains(w, t) <=> t % Week \in Promised(w))
  BY ContainsIsPromised, PromisedIsContained

Passes == {"idle", "available", "running", "collected", "syncing", "synced", "ending"}

PolicyTypeOK ==
    /\ clock \in Nat /\ ValidPolicy(provider) /\ \A p \in command : ValidPolicy(p)
    /\ month \in [month : Nat, bytes : Nat, watermark : Nat]
    /\ gate \in [open : BOOLEAN, limit : Nat, streams : Nat] /\ gate.streams <= gate.limit
    /\ pass \in Passes /\ enforced \in {"no", "checking", "yes"}

\* Since the pass began nothing has changed: the clock is where its last evaluation saw it,
\* the gate has the provider's limit once it was started, and the last evaluation stands.
PassStands ==
    /\ enforced # "no" => clock <= month.watermark
    /\ enforced = "checking" /\ pass \notin {"idle", "available"} => gate.limit = provider.limit
    /\ enforced = "checking" /\ pass = "ending" => AvailableIn(month)
    /\ enforced = "yes" => pass = "idle" /\ (gate.open => AvailableIn(month) /\ gate.limit = provider.limit)

PolicyInv == PolicyTypeOK /\ PassStands

\* What an evaluation makes of the month's account.
LEMMA MonthMoves ==
    ASSUME PolicyTypeOK, NEW t, t = EffectiveClock
    PROVE  /\ t \in Nat /\ clock <= t /\ month.watermark <= t /\ t \in {clock, month.watermark}
           /\ MonthAt(t) \in [month : Nat, bytes : Nat, watermark : Nat] /\ MonthAt(t).watermark = t
           /\ month.month <= MonthAt(t).month
           /\ MonthAt(t).month = month.month => MonthAt(t).bytes = month.bytes
<1>1. PICK w, n, b : w = month.watermark /\ n = month.month /\ b = month.bytes
  OBVIOUS
<1>2. w \in Nat /\ n \in Nat /\ b \in Nat /\ clock \in Nat
  BY <1>1 DEF PolicyTypeOK
<1>3. t = IF clock > w THEN clock ELSE w
  BY <1>1 DEF EffectiveClock, Later
<1>4. t \in Nat /\ clock <= t /\ w <= t /\ t \in {clock, w}
  BY <1>2, <1>3
<1>5. PICK o \in Nat : o = MonthOf(t)
  BY <1>4, WeekIsPositive, Division DEF MonthOf
<1>6. MonthAt(t) = [month |-> IF n > o THEN n ELSE o, watermark |-> t, bytes |-> IF n < o THEN 0 ELSE b]
  BY <1>1, <1>5 DEF MonthAt, Later
<1>7. n <= (IF n > o THEN n ELSE o) /\ ((IF n > o THEN n ELSE o) = n => ~ (n < o)) /\ (IF n > o THEN n ELSE o) \in Nat
  BY <1>2, <1>5
<1> QED BY <1>1, <1>2, <1>4, <1>6, <1>7

LEMMA EvaluateHolds ==
    ASSUME PolicyInv, NEW from \in Passes, NEW to \in Passes, EvaluateAt(from, to),
           <<from, to>> \in {<<"idle", "available">>, <<"collected", "syncing">>, <<"synced", "ending">>}
    PROVE  PolicyInv'
<1>0. PolicyTypeOK /\ PassStands
  BY DEF PolicyInv
<1>1. PICK t : t = EffectiveClock
  OBVIOUS
<1>2. /\ month' \in [month : Nat, bytes : Nat, watermark : Nat] /\ clock <= month'.watermark
      /\ pass = from
  BY <1>0, <1>1, MonthMoves DEF EvaluateAt
<1>3. CASE AvailableIn(month')
  <2>1. /\ pass' = to /\ enforced' = (IF from = "idle" THEN "checking" ELSE enforced)
        /\ UNCHANGED <<command, clock, provider, gate>>
    BY <1>3 DEF EvaluateAt
  <2>2. AvailableIn(month)'
    BY <1>3, <2>1 DEF AvailableIn
  <2>3. PolicyTypeOK'
    BY <1>0, <1>2, <2>1 DEF PolicyTypeOK
  <2>4. PassStands'
    BY <1>0, <1>2, <2>1, <2>2 DEF PassStands, PolicyTypeOK
  <2> QED BY <2>3, <2>4 DEF PolicyInv
<1>4. CASE ~ AvailableIn(month')
  <2>1. /\ gate' = ClosedGate /\ pass' = "idle" /\ enforced' = "yes" /\ UNCHANGED <<command, clock, provider>>
    BY <1>4 DEF EvaluateAt, Withdraw
  <2>2. gate' \in [open : BOOLEAN, limit : Nat, streams : Nat] /\ gate'.streams <= gate'.limit /\ ~ gate'.open
    BY <2>1 DEF ClosedGate
  <2>3. PolicyTypeOK'
    BY <1>0, <1>2, <2>1, <2>2 DEF PolicyTypeOK, Passes
  <2>4. PassStands'
    BY <1>2, <2>1, <2>2 DEF PassStands
  <2> QED BY <2>3, <2>4 DEF PolicyInv
<1> QED BY <1>3, <1>4

LEMMA ReconcileRuntimeHolds ==
    ASSUME PolicyInv, ReconcileRuntime
    PROVE  PolicyInv'
<1>0. PolicyTypeOK /\ PassStands
  BY DEF PolicyInv
<1>1. /\ pass = "available" /\ pass' = "running" /\ UNCHANGED <<command, clock, provider, month, enforced>>
      /\ gate' = IF gate.open /\ gate.limit = provider.limit THEN gate
                 ELSE [open |-> TRUE, limit |-> provider.limit, streams |-> 0]
  BY DEF ReconcileRuntime
<1>2. provider.limit \in Nat
  BY <1>0 DEF PolicyTypeOK, ValidPolicy
<1>3. /\ gate' \in [open : BOOLEAN, limit : Nat, streams : Nat] /\ gate'.streams <= gate'.limit
      /\ gate'.limit = provider.limit
  BY <1>0, <1>1, <1>2 DEF PolicyTypeOK
<1>4. PolicyTypeOK'
  BY <1>0, <1>1, <1>3 DEF PolicyTypeOK, Passes
<1>5. PassStands'
  BY <1>0, <1>1, <1>3 DEF PassStands
<1> QED BY <1>4, <1>5 DEF PolicyInv

LEMMA CollectUsageHolds ==
    ASSUME PolicyInv, NEW bytes \in 0 .. 1, CollectUsage(bytes)
    PROVE  /\ PolicyInv'
           /\ month'.month >= month.month /\ month'.watermark >= month.watermark
           /\ month'.month = month.month => month'.bytes >= month.bytes
<1>0. PolicyTypeOK /\ PassStands
  BY DEF PolicyInv
<1>1. PICK t : t = EffectiveClock
  OBVIOUS
<1>2. PICK m : m = MonthAt(t)
  OBVIOUS
<1>3. /\ month' = [m EXCEPT !.bytes = @ + bytes] /\ pass = "running" /\ pass' = "collected"
      /\ UNCHANGED <<command, clock, provider, gate, enforced>>
  BY <1>1, <1>2 DEF CollectUsage
<1>4. /\ t \in Nat /\ clock <= t /\ month.watermark <= t
      /\ m \in [month : Nat, bytes : Nat, watermark : Nat] /\ m.watermark = t
      /\ month.month <= m.month /\ (m.month = month.month => m.bytes = month.bytes)
  BY <1>0, <1>1, <1>2, MonthMoves
<1>5. /\ month' \in [month : Nat, bytes : Nat, watermark : Nat]
      /\ month'.watermark = t /\ month'.month = m.month /\ month'.bytes = m.bytes + bytes
  BY <1>3, <1>4
<1>6. PolicyTypeOK'
  BY <1>0, <1>3, <1>5 DEF PolicyTypeOK, Passes
<1>7. PassStands'
  BY <1>0, <1>3, <1>4, <1>5 DEF PassStands
<1>8. month.month \in Nat /\ month.watermark \in Nat /\ month.bytes \in Nat /\ m.month \in Nat /\ m.bytes \in Nat
  BY <1>0, <1>4 DEF PolicyTypeOK
<1>9. /\ m.month >= month.month /\ t >= month.watermark
      /\ m.month = month.month => m.bytes + bytes >= month.bytes
  BY <1>4, <1>8
<1> QED BY <1>5, <1>6, <1>7, <1>9 DEF PolicyInv

\* A pass goes on, or a stream comes or goes.
LEMMA PassMoves ==
    ASSUME PolicyInv, UNCHANGED <<command, clock, provider, month>>,
           gate' \in [open : BOOLEAN, limit : Nat, streams : Nat], gate'.streams <= gate'.limit,
           gate'.open = gate.open, gate'.limit = gate.limit,
           \/ UNCHANGED <<pass, enforced>>
           \/ pass = "syncing" /\ pass' = "synced" /\ enforced' = enforced
           \/ /\ pass = "ending" /\ pass' = "idle"
              /\ enforced' = IF enforced = "checking" THEN "yes" ELSE enforced
    PROVE  PolicyInv'
<1>0. PolicyTypeOK /\ PassStands
  BY DEF PolicyInv
<1>1. PolicyTypeOK'
  BY <1>0 DEF PolicyTypeOK, Passes
<1>2. AvailableIn(month) => AvailableIn(month)'
  BY DEF AvailableIn
<1>3. PassStands'
  BY <1>0, <1>2 DEF PassStands, PolicyTypeOK
<1> QED BY <1>1, <1>3 DEF PolicyInv

\* The provider, or somebody who sets the clock, changes something.
LEMMA ProviderMoves ==
    ASSUME PolicyInv, UNCHANGED <<month, gate, pass>>, clock' \in Nat, ValidPolicy(provider'),
           \A p \in command' : ValidPolicy(p),
           enforced' = "no" \/ UNCHANGED <<clock, provider, enforced>>
    PROVE  PolicyInv'
<1>0. PolicyTypeOK /\ PassStands
  BY DEF PolicyInv
<1>1. PolicyTypeOK'
  BY <1>0 DEF PolicyTypeOK
<1>2. CASE enforced' = "no"
  BY <1>1, <1>2 DEF PassStands, PolicyInv
<1>3. CASE UNCHANGED <<clock, provider, enforced>>
  <2>1. AvailableIn(month)' = AvailableIn(month)
    BY <1>3 DEF AvailableIn
  <2> QED BY <1>0, <1>1, <1>3, <2>1 DEF PassStands, PolicyInv
<1> QED BY <1>2, <1>3

LEMMA PausedIsValid ==
    ASSUME NEW p, ValidPolicy(p), NEW b \in BOOLEAN
    PROVE  ValidPolicy([p EXCEPT !.paused = b])
<1>1. PICK q : q = [p EXCEPT !.paused = b]
  OBVIOUS
<1>2. p = [paused |-> p.paused, window |-> p.window, capped |-> p.capped, limit |-> p.limit]
  BY DEF ValidPolicy
<1>3. q = [paused |-> b, window |-> p.window, capped |-> p.capped, limit |-> p.limit]
  BY <1>1, <1>2
<1>4. q.paused = b /\ q.window = p.window /\ q.capped = p.capped /\ q.limit = p.limit
  BY <1>3
<1> QED BY <1>1, <1>3, <1>4 DEF ValidPolicy

LEMMA PolicyStep == PolicyInv /\ [PolicyNext]_policyVars => PolicyInv'
<1> SUFFICES ASSUME PolicyInv, [PolicyNext]_policyVars PROVE PolicyInv'
  OBVIOUS
<1>0. PolicyTypeOK
  BY DEF PolicyInv
<1>1. CASE EvaluateAt("idle", "available") \/ EvaluateAt("collected", "syncing") \/ EvaluateAt("synced", "ending")
  BY <1>1, EvaluateHolds DEF Passes
<1>2. CASE ReconcileRuntime
  BY <1>2, ReconcileRuntimeHolds
<1>3. CASE \E bytes \in 0 .. 1 : CollectUsage(bytes)
  BY <1>3, CollectUsageHolds
<1>4. CASE Synchronize \/ EndPass \/ UNCHANGED policyVars
  <2>1. /\ UNCHANGED <<command, clock, provider, month, gate>>
        /\ \/ UNCHANGED <<pass, enforced>>
           \/ pass = "syncing" /\ pass' = "synced" /\ enforced' = enforced
           \/ /\ pass = "ending" /\ pass' = "idle"
              /\ enforced' = IF enforced = "checking" THEN "yes" ELSE enforced
    BY <1>4 DEF Synchronize, EndPass, policyVars
  <2>2. /\ gate' \in [open : BOOLEAN, limit : Nat, streams : Nat] /\ gate'.streams <= gate'.limit
        /\ gate'.open = gate.open /\ gate'.limit = gate.limit
    BY <1>0, <2>1 DEF PolicyTypeOK
  <2> QED BY <2>1, <2>2, PassMoves
<1>5. CASE AcceptStream \/ FinishStream
  <2>1. /\ UNCHANGED <<command, clock, provider, month, pass, enforced>>
        /\ \/ gate.streams < gate.limit /\ gate' = [gate EXCEPT !.streams = @ + 1]
           \/ gate.streams > 0 /\ gate' = [gate EXCEPT !.streams = @ - 1]
    BY <1>5 DEF AcceptStream, FinishStream
  <2>2. /\ gate' \in [open : BOOLEAN, limit : Nat, streams : Nat] /\ gate'.streams <= gate'.limit
        /\ gate'.open = gate.open /\ gate'.limit = gate.limit
    BY <1>0, <2>1 DEF PolicyTypeOK
  <2> QED BY <2>1, <2>2, PassMoves
<1>6. CASE \E p \in Policies : ConfigurePolicy(p)
  <2>1. ValidPolicy(provider') /\ enforced' = "no" /\ UNCHANGED <<command, clock, month, gate, pass>>
    BY <1>6, PolicyAssumption DEF ConfigurePolicy
  <2> QED BY <1>0, <2>1, ProviderMoves DEF PolicyTypeOK
<1>7. CASE \E p \in command : WritePause(p)
  <2>1. /\ ValidPolicy(provider') /\ enforced' = "no" /\ command' = {} /\ UNCHANGED <<clock, month, gate, pass>>
    BY <1>0, <1>7 DEF WritePause, PolicyTypeOK
  <2> QED BY <1>0, <2>1, ProviderMoves DEF PolicyTypeOK
<1>8. CASE \E b \in BOOLEAN : ReadForPause(b)
  <2>1. PICK b \in BOOLEAN : ReadForPause(b)
    BY <1>8
  <2>2. command' = {[provider EXCEPT !.paused = b]} /\ UNCHANGED <<clock, provider, month, gate, pass, enforced>>
    BY <2>1 DEF ReadForPause
  <2>3. \A p \in command' : ValidPolicy(p)
    BY <1>0, <2>2, PausedIsValid DEF PolicyTypeOK
  <2> QED BY <1>0, <2>2, <2>3, ProviderMoves DEF PolicyTypeOK
<1>9. CASE \E t \in 0 .. MaxTime : SetClock(t)
  <2>1. clock' \in Nat /\ enforced' = "no" /\ UNCHANGED <<command, provider, month, gate, pass>>
    BY <1>9 DEF SetClock
  <2> QED BY <1>0, <2>1, ProviderMoves DEF PolicyTypeOK
<1> QED BY <1>1, <1>2, <1>3, <1>4, <1>5, <1>6, <1>7, <1>8, <1>9 DEF PolicyNext

\* The account only grows.
LEMMA UsageStep ==
    ASSUME PolicyInv, PolicyNext
    PROVE  /\ month'.month >= month.month /\ month'.watermark >= month.watermark
           /\ month'.month = month.month => month'.bytes >= month.bytes
<1>0. PolicyTypeOK
  BY DEF PolicyInv
<1>1. month.month \in Nat /\ month.watermark \in Nat /\ month.bytes \in Nat
  BY <1>0 DEF PolicyTypeOK
<1>2. CASE UNCHANGED month
  BY <1>1, <1>2
<1>3. CASE \E bytes \in 0 .. 1 : CollectUsage(bytes)
  BY <1>3, CollectUsageHolds
<1>4. CASE EvaluateAt("idle", "available") \/ EvaluateAt("collected", "syncing") \/ EvaluateAt("synced", "ending")
  <2>1. PICK t : t = EffectiveClock
    OBVIOUS
  <2>2. PICK m : m = MonthAt(t)
    OBVIOUS
  <2>3. month' = m
    BY <1>4, <2>1, <2>2 DEF EvaluateAt
  <2>4. /\ t \in Nat /\ month.watermark <= t
        /\ m \in [month : Nat, bytes : Nat, watermark : Nat] /\ m.watermark = t
        /\ month.month <= m.month /\ (m.month = month.month => m.bytes = month.bytes)
    BY <1>0, <2>1, <2>2, MonthMoves
  <2>5. m.month \in Nat
    BY <2>4
  <2> QED BY <1>1, <2>3, <2>4, <2>5
<1> QED BY <1>2, <1>3, <1>4 DEF PolicyNext, ReconcileRuntime, Synchronize, EndPass, AcceptStream, FinishStream,
             ConfigurePolicy, WritePause, ReadForPause, SetClock

\* Once a pass has ended and nothing changed, an open gate means that the provider is not
\* paused, the schedule allows this minute, the cap is not used up and the streams are within
\* the limit; and the month's account never shrinks, however commands, passes and a clock that
\* is set back interleave (run_cycle, evaluate_and_checkpoint, record_usage_delta_in_transaction).
THEOREM ProviderDecides == PolicySpec => PolicyHolds
<1>1. PolicyInit => PolicyInv
  <2> SUFFICES ASSUME PolicyInit PROVE PolicyInv
    OBVIOUS
  <2>1. ValidPolicy(provider) /\ clock = 0 /\ command = {} /\ pass = "idle" /\ enforced = "no"
    BY PolicyAssumption DEF PolicyInit
  <2>2. month \in [month : Nat, bytes : Nat, watermark : Nat]
    BY DEF PolicyInit
  <2>3. gate \in [open : BOOLEAN, limit : Nat, streams : Nat] /\ gate.streams <= gate.limit
    BY DEF PolicyInit, ClosedGate
  <2> QED BY <2>1, <2>2, <2>3 DEF PolicyInv, PolicyTypeOK, PassStands, Passes
<1>2. PolicyInv => PolicyIsEnforced
  <2> SUFFICES ASSUME PolicyInv, enforced = "yes", gate.open
               PROVE  /\ ~ provider.paused
                      /\ provider.window = {} \/ \E w \in provider.window : EffectiveClock % Week \in Promised(w)
                      /\ provider.capped => month.bytes < Cap
                      /\ gate.streams <= provider.limit
    BY DEF PolicyIsEnforced
  <2>1. AvailableIn(month) /\ gate.limit = provider.limit /\ clock <= month.watermark
    BY DEF PolicyInv, PassStands
  <2>2. EffectiveClock = month.watermark /\ month.watermark \in Nat
    BY <2>1 DEF PolicyInv, PolicyTypeOK, EffectiveClock, Later
  <2>3. provider.window = {} \/ \E w \in provider.window : Contains(w, month.watermark)
    BY <2>1 DEF AvailableIn, ScheduleAllows
  <2>4. \A w \in provider.window : ValidWindow(w)
    BY DEF PolicyInv, PolicyTypeOK, ValidPolicy
  <2>5. provider.window = {} \/ \E w \in provider.window : EffectiveClock % Week \in Promised(w)
    BY <2>2, <2>3, <2>4, ContainsIsPromised
  <2> QED BY <2>1, <2>5 DEF AvailableIn, PolicyInv, PolicyTypeOK
<1>3. PolicyInv /\ [PolicyNext]_policyVars =>
        [/\ month'.month >= month.month /\ month'.watermark >= month.watermark
         /\ month'.month = month.month => month'.bytes >= month.bytes]_policyVars
  BY UsageStep
<1> QED BY <1>1, <1>2, <1>3, PolicyStep, PTL DEF PolicySpec, PolicyHolds, UsageNeverShrinks

-----------------------------------------------------------------------------
(* Mapping: the lease journal *)

RowStates == {"none", "active", "releasing", "released", "abandoned"}

LeaseRows == [state : RowStates, slot : {<<>>} \cup (Gateways \X Nat), revision : Nat]
MappingRequests == [at : {"idle", "release", "renew", "create"}, row : Nat, revision : Nat, fused : BOOLEAN]

MappingTypeOK ==
    /\ lease \in [Leases -> LeaseRows]
    /\ request \in MappingRequests
    /\ gateway \in Gateways /\ target \in Nat

\* LeaseRows are used in order, the one the node owns is the newest, and a row's mapping was
\* numbered when its first row was written.
RowsAreOrdered ==
    /\ \A l, k \in Leases : lease[l].state # "none" /\ k < l => lease[k].state # "none"
    /\ \A l \in Owned, k \in Leases : lease[k].state # "none" => k <= l
    /\ \A l \in Leases : lease[l].state # "none" =>
           \E g \in Gateways, n \in Nat : lease[l].slot = <<g, n>> /\ n <= l

\* What is under way is about the owned row, or there is none.
RequestFits ==
    /\ request.at \in {"release", "renew"} => request.row \in Owned
    /\ request.at = "create" => Owned = {}
    /\ request.at \in {"create", "renew"} => Unused # {}

\* A released row whose mapping exists has a successor that still stands for it.
ReleasedHasHeir ==
    \A l \in Leases :
        lease[l].state = "released" /\ lease[l].slot \in mapped =>
            \E k \in Leases : k > l /\ lease[k].slot = lease[l].slot /\ lease[k].state \notin {"none", "released"}

MappingInv == MappingTypeOK /\ RowsAreOrdered /\ RequestFits /\ ReleasedHasHeir /\ OfferedFitsTarget

LEMMA LeasesAreNumbers == Leases \subseteq Nat \ {0}
  BY MappingAssumption DEF Leases

\* A set of rows that is not empty has a least one.
LEMMA LeastRow ==
    ASSUME NEW S \in SUBSET Nat, S # {}
    PROVE  \E m \in S : \A n \in S : m <= n
<1> DEFINE R == OpToRel(<, Nat)
<1>1. \E m \in S : \A n \in S : ~ (<<n, m>> \in R)
  BY NatLessThanWellFounded, WFMin
<1>2. \A m, n \in Nat : m < n => <<m, n>> \in R
  BY DEF OpToRel
<1> HIDE DEF R
<1>3. PICK m \in S : \A n \in S : ~ (<<n, m>> \in R)
  BY <1>1
<1>4. \A n \in S : ~ (n < m)
  BY <1>2, <1>3
<1> QED BY <1>4

\* The next row is behind all that were used.
LEMMA NextLeaseIsNew ==
    ASSUME MappingInv, Unused # {}
    PROVE  /\ NextLease \in Leases /\ lease[NextLease].state = "none"
           /\ \A l \in Leases : lease[l].state # "none" => l < NextLease
           /\ \A k \in Leases : k < NextLease => lease[k].state # "none"
<1>1. Unused \in SUBSET Nat
  BY LeasesAreNumbers DEF Unused
<1>2. \E m \in Unused : \A n \in Unused : m <= n
  BY <1>1, LeastRow, Zenon
<1>3. NextLease \in Unused /\ \A n \in Unused : NextLease <= n
  BY <1>2 DEF NextLease
<1>4. PICK m : m = NextLease
  OBVIOUS
<1>5. /\ m \in Leases /\ lease[m].state = "none"
      /\ \A n \in Leases : lease[n].state = "none" => m <= n
  BY <1>3, <1>4 DEF Unused
<1>6. \A l, k \in Leases : lease[l].state # "none" /\ k < l => lease[k].state # "none"
  BY DEF MappingInv, RowsAreOrdered
<1>7. \A l \in Leases : lease[l].state # "none" => l < m
  BY <1>5, <1>6, LeasesAreNumbers
<1>8. \A l \in Leases : l < m => lease[l].state # "none"
  BY <1>5, LeasesAreNumbers
<1> QED BY <1>4, <1>5, <1>7, <1>8

\* A new mapping is not that of any row.
LEMMA NewSlotIsNew ==
    ASSUME MappingInv, Unused # {}
    PROVE  \A l \in Leases : lease[l].state # "none" => lease[l].slot # NewSlot
<1> SUFFICES ASSUME NEW l \in Leases, lease[l].state # "none" PROVE lease[l].slot # NewSlot
  OBVIOUS
<1>1. PICK g \in Gateways, n \in Nat : lease[l].slot = <<g, n>> /\ n <= l
  BY DEF MappingInv, RowsAreOrdered
<1>2. PICK m \in Leases : m = NextLease /\ l < m
  BY NextLeaseIsNew
<1>3. n # m
  BY <1>1, <1>2, LeasesAreNumbers
<1> QED BY <1>1, <1>2, <1>3 DEF NewSlot

\* A step that moves the owned row to another state.
LEMMA RowMoves ==
    ASSUME MappingInv, NEW l \in Owned, NEW s \in RowStates \ {"none"},
           lease' = [lease EXCEPT ![l].state = s]
    PROVE  /\ lease' \in [Leases -> LeaseRows]
           /\ lease'[l].state = s /\ lease'[l].slot = lease[l].slot
           /\ \A k \in Leases : k # l => lease'[k] = lease[k]
           /\ RowsAreOrdered'
           /\ Unused' = Unused /\ Owned' \subseteq {l} /\ (s \in {"active", "releasing"} => l \in Owned')
<1>1. l \in Leases /\ lease[l].state \in {"active", "releasing"}
  BY DEF Owned
<1>2. lease \in [Leases -> LeaseRows]
  BY DEF MappingInv, MappingTypeOK
<1>3. /\ lease' \in [Leases -> LeaseRows]
      /\ lease'[l].state = s /\ lease'[l].slot = lease[l].slot
      /\ \A k \in Leases : k # l => lease'[k] = lease[k]
  BY <1>1, <1>2 DEF LeaseRows
<1>4. \A k \in Leases : (lease'[k].state = "none" <=> lease[k].state = "none") /\ lease'[k].slot = lease[k].slot
  BY <1>1, <1>3
<1>5. Unused' = Unused
  BY <1>4 DEF Unused
<1>6. \A k \in Owned : k = l
  <2>1. \A k \in Owned : k \in Leases /\ k <= l /\ l <= k
    BY <1>1 DEF MappingInv, RowsAreOrdered, Owned
  <2> QED BY <1>1, <2>1, LeasesAreNumbers
<1>7. Owned' \subseteq {l} /\ (s \in {"active", "releasing"} => l \in Owned')
  BY <1>1, <1>3, <1>6 DEF Owned
<1>8. RowsAreOrdered'
  <2>1. \A i, k \in Leases : lease'[i].state # "none" /\ k < i => lease'[k].state # "none"
    BY <1>4 DEF MappingInv, RowsAreOrdered
  <2>2. \A i \in Owned', k \in Leases : lease'[k].state # "none" => k <= i
    BY <1>4, <1>7 DEF MappingInv, RowsAreOrdered
  <2>3. \A i \in Leases : lease'[i].state # "none" =>
            \E g \in Gateways, n \in Nat : lease'[i].slot = <<g, n>> /\ n <= i
    BY <1>4 DEF MappingInv, RowsAreOrdered
  <2> QED BY <2>1, <2>2, <2>3 DEF RowsAreOrdered
<1> QED BY <1>3, <1>5, <1>7, <1>8

\* The owned row stands for its mapping as long as it is not released.
LEMMA MovedHasHeir ==
    ASSUME MappingInv, NEW l \in Owned, NEW s \in RowStates \ {"none", "released"},
           lease' = [lease EXCEPT ![l].state = s], mapped' \subseteq mapped \cup {lease[l].slot}
    PROVE  ReleasedHasHeir'
<1>1. /\ lease'[l].state = s /\ lease'[l].slot = lease[l].slot
      /\ \A k \in Leases : k # l => lease'[k] = lease[k]
  BY RowMoves
<1>2. l \in Leases /\ \A k \in Leases : lease[k].state # "none" => k <= l
  BY DEF MappingInv, RowsAreOrdered, Owned
<1> SUFFICES ASSUME NEW j \in Leases, lease'[j].state = "released", lease'[j].slot \in mapped'
             PROVE  \E k \in Leases : /\ k > j /\ lease'[k].slot = lease'[j].slot
                                      /\ lease'[k].state \notin {"none", "released"}
  BY DEF ReleasedHasHeir
<1>3. j # l /\ lease[j].state = "released" /\ lease'[j] = lease[j]
  BY <1>1
<1>4. CASE lease[j].slot = lease[l].slot
  <2>1. l > j
    BY <1>2, <1>3, LeasesAreNumbers
  <2> QED BY <1>1, <1>2, <1>3, <1>4, <2>1
<1>5. CASE lease[j].slot # lease[l].slot
  <2>1. lease[j].slot \in mapped
    BY <1>3, <1>5
  <2>2. PICK k \in Leases : k > j /\ lease[k].slot = lease[j].slot /\ lease[k].state \notin {"none", "released"}
    BY <1>3, <2>1 DEF MappingInv, ReleasedHasHeir
  <2> QED BY <1>1, <1>3, <1>5, <2>2
<1> QED BY <1>4, <1>5

\* The owned row moves: its mapping is gone if it is released, and the pass goes on.
LEMMA MoveHolds ==
    ASSUME MappingInv, NEW l \in Owned, NEW s \in RowStates \ {"none"},
           lease' = [lease EXCEPT ![l].state = s], settled' = FALSE, UNCHANGED <<gateway, target>>,
           request' \in MappingRequests,
           IF s = "released" THEN mapped' = mapped \ {lease[l].slot}
                             ELSE mapped' \subseteq mapped \cup {lease[l].slot},
           \/ request'.at = "idle"
           \/ s = "releasing" /\ request'.at = "release" /\ request'.row = l
           \/ s \in {"released", "abandoned"} /\ request'.at = "create" /\ Unused # {}
    PROVE  MappingInv'
<1>1. /\ lease' \in [Leases -> LeaseRows]
      /\ lease'[l].state = s /\ lease'[l].slot = lease[l].slot
      /\ \A k \in Leases : k # l => lease'[k] = lease[k]
      /\ RowsAreOrdered'
      /\ Unused' = Unused /\ Owned' \subseteq {l} /\ (s \in {"active", "releasing"} => l \in Owned')
  BY RowMoves
<1>2. MappingTypeOK'
  BY <1>1 DEF MappingInv, MappingTypeOK, MappingRequests
<1>3. s \in {"released", "abandoned"} => Owned' = {}
  BY <1>1 DEF Owned
<1>4. RequestFits'
  BY <1>1, <1>3 DEF RequestFits
<1>5. OfferedFitsTarget'
  BY DEF OfferedFitsTarget
<1>6. CASE s # "released"
  BY <1>1, <1>2, <1>4, <1>5, <1>6, MovedHasHeir DEF MappingInv
<1>7. CASE s = "released"
  <2>1. mapped' = mapped \ {lease[l].slot}
    BY <1>7
  <2> SUFFICES ASSUME NEW j \in Leases, lease'[j].state = "released", lease'[j].slot \in mapped'
               PROVE  \E k \in Leases : /\ k > j /\ lease'[k].slot = lease'[j].slot
                                        /\ lease'[k].state \notin {"none", "released"}
    BY <1>1, <1>2, <1>4, <1>5 DEF ReleasedHasHeir, MappingInv
  <2>2. j # l /\ lease'[j] = lease[j] /\ lease[j].slot # lease[l].slot /\ lease[j].slot \in mapped
    BY <1>1, <2>1
  <2>3. PICK k \in Leases : k > j /\ lease[k].slot = lease[j].slot /\ lease[k].state \notin {"none", "released"}
    BY <2>2 DEF MappingInv, ReleasedHasHeir
  <2>4. lease'[k] = lease[k]
    BY <1>1, <2>2, <2>3
  <2> QED BY <2>2, <2>3, <2>4
<1> QED BY <1>6, <1>7

\* The journal stands: mappings end, or one is made that no row knows.
LEMMA StandHolds ==
    ASSUME MappingInv, lease' = lease, gateway' \in Gateways, target' \in Nat, request' \in MappingRequests,
           RequestFits', OfferedFitsTarget',
           mapped' \subseteq mapped \/ (Unused # {} /\ mapped' \subseteq mapped \cup {NewSlot})
    PROVE  MappingInv'
<1>1. MappingTypeOK' /\ RowsAreOrdered'
  BY DEF MappingInv, MappingTypeOK, RowsAreOrdered, Owned, MappingRequests
<1>2. \A l \in Leases : lease[l].state = "released" /\ lease[l].slot \in mapped' => lease[l].slot \in mapped
  BY NewSlotIsNew
<1>3. ReleasedHasHeir'
  BY <1>2 DEF MappingInv, ReleasedHasHeir
<1> QED BY <1>1, <1>3 DEF MappingInv

\* persist_mapping: the new row is the newest, and stands for its mapping.
LEMMA PersistHolds ==
    ASSUME MappingInv, Unused # {}, NEW p \in Nat, NEW slot, NEW r \in Nat,
           lease' = Persisted(NextLease, p, slot, r), mapped' = mapped \cup {slot},
           settled' = FALSE, UNCHANGED <<gateway, target>>, request' = NoRequest,
           \/ p = 0 /\ Owned = {} /\ slot = NewSlot
           \/ p \in Owned /\ slot = lease[p].slot
    PROVE  MappingInv'
<1>1. PICK n \in Leases : n = NextLease
  BY NextLeaseIsNew
<1>2. /\ lease[n].state = "none" /\ \A l \in Leases : lease[l].state # "none" => l < n
      /\ \A k \in Leases : k < n => lease[k].state # "none"
  BY <1>1, NextLeaseIsNew
<1>3. lease \in [Leases -> LeaseRows]
  BY DEF MappingInv, MappingTypeOK
<1>4. p # n /\ Owned \subseteq {p} /\ p \notin Leases \ Owned
  <2>1. CASE p = 0 /\ Owned = {}
    BY <2>1, LeasesAreNumbers
  <2>2. CASE p \in Owned
    <3>1. \A k \in Owned : k \in Leases /\ k <= p /\ p <= k /\ p \in Leases
      BY <2>2 DEF MappingInv, RowsAreOrdered, Owned
    <3>2. \A k \in Owned : k \in Nat /\ p \in Nat
      BY <3>1, LeasesAreNumbers
    <3>3. \A k \in Owned : k = p
      BY <3>1, <3>2
    <3> QED BY <1>2, <2>2, <3>3 DEF Owned
  <2> QED BY <2>1, <2>2
<1>5. \E g \in Gateways, m \in Nat : slot = <<g, m>> /\ m <= n
  <2>1. CASE slot = NewSlot
    <3>1. n \in Nat /\ n <= n /\ gateway \in Gateways
      BY LeasesAreNumbers DEF MappingInv, MappingTypeOK
    <3> QED BY <1>1, <2>1, <3>1 DEF NewSlot
  <2>2. CASE p \in Owned /\ slot = lease[p].slot
    <3>1. p \in Leases /\ lease[p].state # "none"
      BY <2>2 DEF Owned
    <3>2. PICK g \in Gateways, m \in Nat : slot = <<g, m>> /\ m <= p
      BY <2>2, <3>1 DEF MappingInv, RowsAreOrdered
    <3>3. m <= n
      BY <1>2, <3>1, <3>2, LeasesAreNumbers
    <3> QED BY <3>2, <3>3
  <2> QED BY <2>1, <2>2
<1>6. lease' = [k \in Leases |-> CASE k = n -> [state |-> "active", slot |-> slot, revision |-> r]
                                   [] k = p -> [lease[k] EXCEPT !.state = "released"]
                                   [] OTHER -> lease[k]]
  BY <1>1 DEF Persisted
<1>7. /\ lease'[n] = [state |-> "active", slot |-> slot, revision |-> r]
      /\ \A k \in Leases \ {n, p} : lease'[k] = lease[k]
  BY <1>4, <1>6
<1>8. p \in Leases => lease'[p] = [lease[p] EXCEPT !.state = "released"]
  BY <1>4, <1>6
<1>9. p \in Leases => lease[p].state # "none" /\ lease'[p].state = "released" /\ lease'[p].slot = lease[p].slot
  BY <1>3, <1>4, <1>8 DEF LeaseRows, Owned
<1>10. lease' \in [Leases -> LeaseRows]
  <2>1. slot \in {<<>>} \cup (Gateways \X Nat)
    BY <1>5
  <2>2. lease'[n] \in LeaseRows
    BY <1>7, <2>1 DEF LeaseRows, RowStates
  <2>3. p \in Leases => lease'[p] \in LeaseRows
    BY <1>3, <1>8 DEF LeaseRows, RowStates
  <2>4. \A k \in Leases : lease'[k] \in LeaseRows
    BY <1>3, <1>7, <2>2, <2>3
  <2> QED BY <1>6, <2>4
<1>11. /\ lease'[n].state = "active" /\ lease'[n].slot = slot
       /\ \A k \in Leases \ {n} : /\ lease'[k].state = "none" <=> lease[k].state = "none"
                                 /\ lease'[k].slot = lease[k].slot
  BY <1>7, <1>9
<1>12. Owned' = {n}
  BY <1>4, <1>7, <1>9, <1>11 DEF Owned
<1>13. RowsAreOrdered'
  <2>1. \A i, k \in Leases : lease'[i].state # "none" /\ k < i => lease'[k].state # "none"
    <3> SUFFICES ASSUME NEW i \in Leases, NEW k \in Leases, lease'[i].state # "none", k < i
                 PROVE  lease'[k].state # "none"
      OBVIOUS
    <3>1. CASE k = n
      BY <3>1, <1>11
    <3>2. CASE k # n /\ i = n
      BY <3>2, <1>2, <1>11
    <3>3. CASE k # n /\ i # n
      BY <3>3, <1>11 DEF MappingInv, RowsAreOrdered
    <3> QED BY <3>1, <3>2, <3>3
  <2>2. \A k \in Leases : lease'[k].state # "none" => k <= n
    BY <1>2, <1>11, LeasesAreNumbers
  <2>3. \A i \in Leases : lease'[i].state # "none" =>
            \E g \in Gateways, m \in Nat : lease'[i].slot = <<g, m>> /\ m <= i
    BY <1>5, <1>11 DEF MappingInv, RowsAreOrdered
  <2> QED BY <1>12, <2>1, <2>2, <2>3 DEF RowsAreOrdered
<1>14. ReleasedHasHeir'
  <2> SUFFICES ASSUME NEW j \in Leases, lease'[j].state = "released", lease'[j].slot \in mapped'
               PROVE  \E k \in Leases : /\ k > j /\ lease'[k].slot = lease'[j].slot
                                        /\ lease'[k].state \notin {"none", "released"}
    BY DEF ReleasedHasHeir
  <2>1. j # n /\ lease[j].state # "none" /\ lease'[j].slot = lease[j].slot
    BY <1>11
  <2>2. n > j
    BY <1>2, <2>1, LeasesAreNumbers
  <2>3. CASE lease[j].slot = slot
    BY <1>11, <2>1, <2>2, <2>3
  <2>4. CASE lease[j].slot # slot
    <3>1. j # p /\ lease[j].state = "released" /\ lease[j].slot \in mapped
      <4>1. j # p
        BY <1>4, <2>1, <2>4
      <4> QED BY <1>7, <2>1, <2>4, <4>1
    <3>2. PICK k \in Leases : k > j /\ lease[k].slot = lease[j].slot /\ lease[k].state \notin {"none", "released"}
      BY <3>1 DEF MappingInv, ReleasedHasHeir
    <3>3. CASE k = n
      BY <1>2, <2>1, <2>2, <3>2, <3>3
    <3>4. CASE k # n
      <4>1. k # p
        BY <1>4, <2>4, <3>2
      <4> QED BY <1>7, <2>1, <3>2, <3>4, <4>1
    <3> QED BY <3>3, <3>4
  <2> QED BY <2>3, <2>4
<1>15. MappingTypeOK' /\ RequestFits' /\ OfferedFitsTarget'
  BY <1>10 DEF MappingInv, MappingTypeOK, MappingRequests, RequestFits, OfferedFitsTarget, NoRequest
<1> QED BY <1>13, <1>14, <1>15 DEF MappingInv

LEMMA RequestsAreTyped ==
    ASSUME MappingInv
    PROVE  /\ request \in MappingRequests /\ NoRequest \in MappingRequests /\ AfterRelease \in MappingRequests
           /\ NoRequest.at = "idle"
           /\ AfterRelease.at = "idle" \/ (AfterRelease.at = "create" /\ Unused # {})
<1>1. request \in MappingRequests /\ NoRequest \in MappingRequests /\ NoRequest.at = "idle"
  BY DEF MappingInv, MappingTypeOK, NoRequest, MappingRequests
<1>2. request.revision \in Nat
  BY <1>1 DEF MappingRequests
<1>3. CASE request.revision # 0 /\ ~ request.fused /\ Unused # {}
  <2>1. AfterRelease = [at |-> "create", row |-> 0, revision |-> request.revision, fused |-> FALSE]
    BY <1>3 DEF AfterRelease
  <2> QED BY <1>1, <1>2, <1>3, <2>1 DEF MappingRequests
<1>4. CASE ~ (request.revision # 0 /\ ~ request.fused /\ Unused # {})
  BY <1>1, <1>4 DEF AfterRelease
<1> QED BY <1>3, <1>4

\* What a pass decides from the journal.
LEMMA PassHolds ==
    ASSUME MappingInv, NEW l \in Leases,
           AbandonForeign(l) \/ BeginRelease(l) \/ BeginRenewal(l) \/ BeginShutdown(l) \/ LeaseEnds(l)
    PROVE  MappingInv'
<1>1. l \in Nat /\ target \in Nat /\ gateway \in Gateways
  BY LeasesAreNumbers DEF MappingInv, MappingTypeOK
<1>2. CASE AbandonForeign(l)
  <2>1. /\ request.at = "idle" /\ l \in Owned /\ lease' = [lease EXCEPT ![l].state = "abandoned"]
        /\ settled' = FALSE /\ UNCHANGED <<gateway, target, request, mapped>>
    BY <1>2 DEF AbandonForeign
  <2> QED BY <2>1, MoveHolds, RequestsAreTyped DEF RowStates
<1>3. CASE BeginRelease(l)
  <2>1. /\ l \in Owned /\ lease' = [lease EXCEPT ![l].state = "releasing"]
        /\ request' = [at |-> "release", row |-> l, revision |-> target, fused |-> lastError = "fuse"]
        /\ settled' = FALSE /\ UNCHANGED <<gateway, target, mapped>>
    BY <1>3 DEF BeginRelease
  <2>2. request' \in MappingRequests /\ request'.at = "release" /\ request'.row = l
    BY <1>1, <2>1 DEF MappingRequests
  <2> QED BY <2>1, <2>2, MoveHolds DEF RowStates
<1>4. CASE BeginRenewal(l)
  <2>1. /\ l \in Owned /\ Unused # {}
        /\ request' = [at |-> "renew", row |-> l, revision |-> target, fused |-> FALSE]
        /\ UNCHANGED <<lease, gateway, target, mapped, ended, settled>>
    BY <1>4 DEF BeginRenewal
  <2>2. request' \in MappingRequests /\ request'.at = "renew" /\ request'.row = l
    BY <1>1, <2>1 DEF MappingRequests
  <2>3. RequestFits'
    BY <2>1, <2>2 DEF RequestFits, Owned, Unused
  <2>4. OfferedFitsTarget'
    BY <2>1 DEF MappingInv, OfferedFitsTarget, AtHome, HeartbeatCandidates
  <2> QED BY <1>1, <2>1, <2>2, <2>3, <2>4, StandHolds
<1>5. CASE BeginShutdown(l)
  <2>1. /\ l \in Owned /\ lease' = [lease EXCEPT ![l].state = "releasing"]
        /\ request' = [at |-> "release", row |-> l, revision |-> 0, fused |-> FALSE]
        /\ settled' = FALSE /\ UNCHANGED <<gateway, target, mapped>>
    BY <1>5 DEF BeginShutdown
  <2>2. request' \in MappingRequests /\ request'.at = "release" /\ request'.row = l
    BY <1>1, <2>1 DEF MappingRequests
  <2> QED BY <2>1, <2>2, MoveHolds DEF RowStates
<1>6. CASE LeaseEnds(l)
  <2>1. mapped' = mapped \ {lease[l].slot} /\ settled' = FALSE /\ UNCHANGED <<lease, gateway, target, request>>
    BY <1>6 DEF LeaseEnds
  <2>2. RequestFits' /\ OfferedFitsTarget'
    BY <2>1 DEF MappingInv, RequestFits, OfferedFitsTarget, Owned, Unused
  <2> QED BY <1>1, <2>1, <2>2, StandHolds, RequestsAreTyped
<1> QED BY <1>2, <1>3, <1>4, <1>5, <1>6

LEMMA ReleaseAnswerHolds ==
    ASSUME MappingInv, Released \/ ReleaseFails \/ ReleaseElsewhere
    PROVE  MappingInv'
<1>1. /\ request.at = "release" /\ settled' = FALSE /\ UNCHANGED <<gateway, target>>
      /\ request.row \in Owned /\ target \in Nat /\ gateway \in Gateways
  BY DEF Released, ReleaseFails, ReleaseElsewhere, MappingInv, MappingTypeOK, RequestFits
<1>2. PICK l \in Owned : l = request.row
  BY <1>1
<1>3. CASE Released
  <2>1. /\ mapped' = mapped \ {lease[l].slot} /\ lease' = [lease EXCEPT ![l].state = "released"]
        /\ request' = AfterRelease
    BY <1>2, <1>3 DEF Released
  <2> QED BY <1>1, <2>1, MoveHolds, RequestsAreTyped DEF RowStates
<1>4. CASE ReleaseFails /\ request.row \in ended
  <2>1. /\ mapped' \subseteq mapped /\ lease' = [lease EXCEPT ![l].state = "abandoned"]
        /\ request' = AfterRelease
    BY <1>2, <1>4 DEF ReleaseFails
  <2> QED BY <1>1, <2>1, MoveHolds, RequestsAreTyped DEF RowStates
<1>5. CASE ReleaseFails /\ request.row \notin ended
  <2>1. mapped' \subseteq mapped /\ lease' = lease /\ request' = NoRequest
    BY <1>2, <1>5 DEF ReleaseFails
  <2>2. RequestFits' /\ OfferedFitsTarget'
    BY <1>1, <2>1 DEF RequestFits, OfferedFitsTarget, NoRequest
  <2> QED BY <1>1, <2>1, <2>2, StandHolds, RequestsAreTyped
<1>6. CASE ReleaseElsewhere
  <2>1. /\ mapped' = mapped /\ lease' = [lease EXCEPT ![l].state = "abandoned"]
        /\ request' = AfterRelease
    BY <1>2, <1>6 DEF ReleaseElsewhere
  <2> QED BY <1>1, <2>1, MoveHolds, RequestsAreTyped DEF RowStates
<1> QED BY <1>3, <1>4, <1>5, <1>6

LEMMA RenewalAnswerHolds ==
    ASSUME MappingInv, Renewed \/ RenewalNotCommitted \/ RenewalPostponed \/ RenewalLost
    PROVE  MappingInv'
<1>1. /\ request.at = "renew" /\ settled' = FALSE /\ UNCHANGED <<gateway, target>> /\ request' = NoRequest
      /\ request.row \in Owned /\ Unused # {} /\ target \in Nat /\ gateway \in Gateways
  BY DEF Renewed, RenewalNotCommitted, RenewalPostponed, RenewalLost, MappingInv, MappingTypeOK, RequestFits
<1>2. PICK l \in Owned : l = request.row
  BY <1>1
<1>3. CASE Renewed
  <2>1. /\ lease' = Persisted(NextLease, l, lease[l].slot, request.revision)
        /\ mapped' = mapped \cup {lease[l].slot}
    BY <1>2, <1>3 DEF Renewed
  <2>2. l \in Nat /\ request.revision \in Nat
    BY LeasesAreNumbers DEF MappingInv, MappingTypeOK, MappingRequests, Owned
  <2> QED BY <1>1, <2>1, <2>2, PersistHolds
<1>4. CASE RenewalNotCommitted
  <2>1. mapped' = mapped \cup {lease[l].slot} /\ lease' = [lease EXCEPT ![l].state = "releasing"]
    BY <1>2, <1>4 DEF RenewalNotCommitted
  <2> QED BY <1>1, <2>1, MoveHolds, RequestsAreTyped DEF RowStates
<1>5. CASE RenewalPostponed
  <2>1. mapped' = mapped /\ lease' = lease
    BY <1>5 DEF RenewalPostponed
  <2>2. RequestFits' /\ OfferedFitsTarget'
    BY <1>1, <2>1 DEF RequestFits, OfferedFitsTarget, NoRequest
  <2> QED BY <1>1, <2>1, <2>2, StandHolds, RequestsAreTyped
<1>6. CASE RenewalLost
  <2>1. mapped' = mapped /\ lease' = [lease EXCEPT ![l].state = "abandoned"]
    BY <1>2, <1>6 DEF RenewalLost
  <2> QED BY <1>1, <2>1, MoveHolds, RequestsAreTyped DEF RowStates
<1> QED BY <1>3, <1>4, <1>5, <1>6

LEMMA CreateAnswerHolds ==
    ASSUME MappingInv, Created \/ CreateFails \/ CreateUnproven \/ CreateTimesOut
    PROVE  MappingInv'
<1>1. /\ request.at = "create" /\ settled' = FALSE /\ UNCHANGED <<gateway, target>> /\ request' = NoRequest
      /\ Owned = {} /\ Unused # {} /\ target \in Nat /\ gateway \in Gateways
  BY DEF Created, CreateFails, CreateUnproven, CreateTimesOut, MappingInv, MappingTypeOK, RequestFits
<1>2. CASE Created
  <2>1. lease' = Persisted(NextLease, 0, NewSlot, request.revision) /\ mapped' = mapped \cup {NewSlot}
    BY <1>2 DEF Created
  <2>2. 0 \in Nat /\ request.revision \in Nat
    BY DEF MappingInv, MappingTypeOK, MappingRequests
  <2> QED BY <1>1, <2>1, <2>2, PersistHolds
<1>3. CASE CreateFails \/ CreateUnproven \/ CreateTimesOut
  <2>1. lease' = lease /\ mapped' \subseteq mapped \cup {NewSlot}
    BY <1>3 DEF CreateFails, CreateUnproven, CreateTimesOut
  <2>2. RequestFits' /\ OfferedFitsTarget'
    BY <1>1, <2>1 DEF RequestFits, OfferedFitsTarget, NoRequest
  <2> QED BY <1>1, <2>1, <2>2, StandHolds, RequestsAreTyped
<1> QED BY <1>2, <1>3

\* What the journal calls released the router holds for no row but an heir's, one row at most
\* is acted on, and after a pass that had nothing to do an offered mapping fits revision and
\* network, for every number of rows, revisions, networks and troubles (reconcile,
\* release_current, persist_mapping).
THEOREM MappingsOwned == MappingSpec => []MappingsAreOwned
<1>1. MappingInit => MappingInv
  <2> SUFFICES ASSUME MappingInit PROVE MappingInv
    OBVIOUS
  <2>1. /\ lease = [l \in Leases |-> NoLease] /\ gateway \in Gateways /\ target = 0 /\ request = NoRequest
        /\ settled = FALSE
    BY DEF MappingInit
  <2>2. \A l \in Leases : lease[l].state = "none"
    BY <2>1 DEF NoLease
  <2>3. NoLease \in LeaseRows
    BY DEF NoLease, LeaseRows, RowStates
  <2>4. MappingTypeOK
    BY <2>1, <2>3 DEF MappingTypeOK, NoRequest, MappingRequests
  <2>5. RowsAreOrdered /\ ReleasedHasHeir
    BY <2>2 DEF RowsAreOrdered, ReleasedHasHeir, Owned
  <2>6. RequestFits /\ OfferedFitsTarget
    BY <2>1 DEF RequestFits, OfferedFitsTarget, NoRequest
  <2> QED BY <2>4, <2>5, <2>6 DEF MappingInv
<1>2. MappingInv /\ [MappingNext]_mappingVars => MappingInv'
  <2> SUFFICES ASSUME MappingInv, [MappingNext]_mappingVars PROVE MappingInv'
    OBVIOUS
  <2>0. target \in Nat /\ gateway \in Gateways
    BY DEF MappingInv, MappingTypeOK
  <2>1. CASE \E l \in Leases :
               AbandonForeign(l) \/ BeginRelease(l) \/ BeginRenewal(l) \/ BeginShutdown(l) \/ LeaseEnds(l)
    BY <2>1, PassHolds, Zenon
  <2>2. CASE BeginCreate
    <3>1. /\ Owned = {} /\ Unused # {}
          /\ request' = [at |-> "create", row |-> 0, revision |-> target, fused |-> FALSE]
          /\ UNCHANGED <<lease, gateway, target, mapped, ended, settled>>
      BY <2>2 DEF BeginCreate
    <3>2. request' \in MappingRequests /\ request'.at = "create"
      BY <2>0, <3>1 DEF MappingRequests
    <3>3. RequestFits'
      BY <3>1, <3>2 DEF RequestFits, Owned, Unused
    <3>4. OfferedFitsTarget'
      BY <3>1 DEF MappingInv, OfferedFitsTarget, AtHome, HeartbeatCandidates
    <3> QED BY <2>0, <3>1, <3>2, <3>3, <3>4, StandHolds
  <2>3. CASE Rest
    <3>1. /\ \A l \in Owned : AtHome(l) /\ ~ MustRelease(l)
          /\ UNCHANGED <<lease, gateway, target, request, mapped, ended>>
      BY <2>3 DEF Rest
    <3>2. RequestFits'
      BY <3>1 DEF MappingInv, RequestFits, Owned, Unused
    <3>3. \A l \in Leases : lease[l].state = "active" => AtHome(l) /\ l \in HeartbeatCandidates
      BY <3>1 DEF Owned, MustRelease, HeartbeatCandidates
    <3>4. OfferedFitsTarget'
      BY <3>1, <3>3 DEF OfferedFitsTarget, AtHome, HeartbeatCandidates
    <3> QED BY <2>0, <3>1, <3>2, <3>4, StandHolds, RequestsAreTyped
  <2>4. CASE RouterAnswers
    BY <2>4, ReleaseAnswerHolds, RenewalAnswerHolds, CreateAnswerHolds, Zenon DEF RouterAnswers
  <2>5. CASE CrashMapping
    <3>1. /\ request' = NoRequest /\ settled' = FALSE /\ UNCHANGED <<lease, gateway, target>>
      BY <2>5 DEF CrashMapping
    <3>2. mapped' \subseteq mapped \/ (request.at = "create" /\ mapped' \subseteq mapped \cup {NewSlot})
      BY <2>5 DEF CrashMapping
    <3>3. RequestFits' /\ OfferedFitsTarget'
      BY <3>1 DEF RequestFits, OfferedFitsTarget, NoRequest
    <3>4. request.at = "create" => Unused # {}
      BY DEF MappingInv, RequestFits
    <3> QED BY <2>0, <3>1, <3>2, <3>3, <3>4, StandHolds, RequestsAreTyped
  <2>6. CASE \E g \in Gateways : ChangeNetwork(g)
    <3>1. gateway' \in Gateways /\ settled' = FALSE /\ UNCHANGED <<lease, target, request, mapped>>
      BY <2>6 DEF ChangeNetwork
    <3>2. RequestFits' /\ OfferedFitsTarget'
      BY <3>1 DEF MappingInv, RequestFits, OfferedFitsTarget, Owned, Unused
    <3> QED BY <2>0, <3>1, <3>2, StandHolds, RequestsAreTyped
  <2>7. CASE \E r \in 0 .. MaxTarget : ChangeTarget(r)
    <3>1. target' \in Nat /\ settled' = FALSE /\ UNCHANGED <<lease, gateway, request, mapped>>
      BY <2>7, MappingAssumption DEF ChangeTarget
    <3>2. RequestFits' /\ OfferedFitsTarget'
      BY <3>1 DEF MappingInv, RequestFits, OfferedFitsTarget, Owned, Unused
    <3> QED BY <2>0, <3>1, <3>2, StandHolds, RequestsAreTyped
  <2>8. CASE UNCHANGED mappingVars
    <3>1. UNCHANGED <<lease, gateway, target, request, mapped, ended, settled>>
      BY <2>8 DEF mappingVars
    <3>2. RequestFits' /\ OfferedFitsTarget'
      BY <3>1 DEF MappingInv, RequestFits, OfferedFitsTarget, Owned, Unused, AtHome, HeartbeatCandidates
    <3> QED BY <2>0, <3>1, <3>2, StandHolds, RequestsAreTyped
  <2> QED BY <2>1, <2>2, <2>3, <2>4, <2>5, <2>6, <2>7, <2>8 DEF MappingNext
<1>3. MappingInv => MappingsAreOwned
  <2> SUFFICES ASSUME MappingInv PROVE ReleasedIsGone /\ OfferedFitsTarget
    BY DEF MappingsAreOwned
  <2>1. Owned = {} \/ \E l \in Owned : Owned = {l}
    <3>1. \A l, k \in Owned : l \in Leases /\ k \in Leases /\ l <= k /\ k <= l
      BY DEF MappingInv, RowsAreOrdered, Owned
    <3>2. \A l, k \in Owned : l \in Nat /\ k \in Nat /\ l <= k /\ k <= l
      BY <3>1, LeasesAreNumbers
    <3>3. \A l, k \in Owned : l = k
      BY <3>2
    <3> QED BY <3>3
  <2>2. Cardinality(Owned) <= 1
    <3>1. Cardinality(Owned) = 0 \/ Cardinality(Owned) = 1
      BY <2>1, FS_EmptySet, FS_Singleton, Zenon
    <3> QED BY <3>1
  <2> QED BY <2>2 DEF MappingInv, ReleasedIsGone, ReleasedHasHeir
<1> QED BY <1>1, <1>2, <1>3, PTL DEF MappingSpec

\* What a heartbeat offers leads to the listener of the revision that is served, through a
\* mapping that is the node's own or through the provider's forwarding (mapping.rs, policy.rs).
THEOREM OffersOwned == MappingSpec /\ ManualSpec => []OffersAreOwned
  BY MappingsOwned, ManualForwarded, PTL DEF OffersAreOwned

-----------------------------------------------------------------------------
(* AccessLog: the import of the access log *)

LogTypeOK ==
    /\ log \in [rotation : 0..MaxRotation, length : Nat] /\ known \in BOOLEAN /\ offset \in Nat
    /\ pull \in [at : {"idle", "opened", "read"}, start : Nat,
                 lines : SUBSET ((0..MaxRotation) \X (1..MaxLine)), next : Nat]
    /\ imports \in [0..MaxRotation -> [1..MaxLine -> Nat]]

\* A line of the log that is being written was imported before.
Imported(i) == imports[log.rotation][i] # 0

\* Nothing is imported of a log that is not yet written, and of the one that is written
\* nothing behind the offset; an offset of an earlier log stands only before the first import.
OffsetIsBehind ==
    /\ \A g \in 0..MaxRotation, i \in 1..MaxLine : g > log.rotation => imports[g][i] = 0
    /\ \A i \in 1..MaxLine : Imported(i) => 2 * i <= offset /\ offset <= log.length

\* The same of the offset that a pull started from and of the one it will store.
PullIsAhead ==
    /\ pull.at # "idle" => \A i \in 1..MaxLine : Imported(i) => 2 * i <= pull.start /\ pull.start <= log.length
    /\ pull.at = "read" =>
         /\ pull.start <= pull.next /\ \A i \in 1..MaxLine : Imported(i) => pull.next <= log.length
         /\ \A g \in 0..MaxRotation, i \in 1..MaxLine : <<g, i>> \in pull.lines =>
                /\ imports[g][i] = 0 /\ g <= log.rotation
                /\ g = log.rotation => 2 * i <= pull.next /\ pull.next <= log.length

LogInv == LogTypeOK /\ OffsetIsBehind /\ PullIsAhead /\ LinesImportedOnce

LEMMA LogGrowsHolds ==
    ASSUME LogInv, LogGrows
    PROVE  LogInv'
<1>1. /\ log' = [log EXCEPT !.length = @ + 1] /\ UNCHANGED <<known, pull, offset, imports>>
  BY DEF LogGrows
<1>2. /\ log.length \in Nat /\ offset \in Nat /\ pull.start \in Nat /\ pull.next \in Nat
      /\ log'.length = log.length + 1 /\ log'.rotation = log.rotation
      /\ log' \in [rotation : 0..MaxRotation, length : Nat]
  BY <1>1 DEF LogInv, LogTypeOK
<1>3. /\ offset <= log.length => offset <= log'.length
      /\ pull.start <= log.length => pull.start <= log'.length
      /\ pull.next <= log.length => pull.next <= log'.length
  BY <1>2
<1>4. LogTypeOK' /\ LinesImportedOnce'
  BY <1>1, <1>2 DEF LogInv, LogTypeOK, LinesImportedOnce
<1>5. OffsetIsBehind'
  BY <1>1, <1>2, <1>3 DEF LogInv, OffsetIsBehind, Imported
<1>6. PullIsAhead'
  BY <1>1, <1>2, <1>3 DEF LogInv, PullIsAhead, Imported
<1> QED BY <1>4, <1>5, <1>6 DEF LogInv

LEMMA LogRotatesHolds ==
    ASSUME LogInv, LogRotates
    PROVE  LogInv'
<1>1. /\ log.rotation < MaxRotation /\ log' = [rotation |-> log.rotation + 1, length |-> 0]
      /\ UNCHANGED <<known, pull, offset, imports>>
  BY DEF LogRotates
<1>2. /\ MaxRotation \in Nat /\ log.rotation \in 0..MaxRotation /\ log'.length = 0
      /\ log'.rotation = log.rotation + 1
  BY <1>1, AccessLogAssumption DEF LogInv, LogTypeOK
<1>3. /\ log'.rotation \in 0..MaxRotation /\ log'.rotation > log.rotation
      /\ \A g \in 0..MaxRotation : (g > log'.rotation => g > log.rotation) /\
             (g <= log.rotation => g <= log'.rotation /\ g # log'.rotation)
  BY <1>1, <1>2
<1>4. \A i \in 1..MaxLine : ~ Imported(i)'
  BY <1>1, <1>3 DEF LogInv, OffsetIsBehind, Imported
<1>5. LogTypeOK' /\ LinesImportedOnce'
  BY <1>1, <1>3 DEF LogInv, LogTypeOK, LinesImportedOnce
<1>6. OffsetIsBehind'
  BY <1>1, <1>3, <1>4 DEF LogInv, OffsetIsBehind
<1>7. PullIsAhead'
  BY <1>1, <1>3, <1>4 DEF LogInv, PullIsAhead
<1> QED BY <1>5, <1>6, <1>7 DEF LogInv

LEMMA OpenAccessLogHolds ==
    ASSUME LogInv, OpenAccessLog
    PROVE  LogInv'
<1>1. /\ pull' = [NoPull EXCEPT !.at = "opened", !.start = StartOffset] /\ UNCHANGED <<log, known, offset, imports>>
  BY DEF OpenAccessLog
<1>2. log.length \in Nat /\ offset \in Nat
  BY DEF LogInv, LogTypeOK
<1>3. StartOffset \in Nat /\ (offset <= log.length => StartOffset = offset)
  BY <1>2 DEF StartOffset
<1>4. pull'.at = "opened" /\ pull'.start = StartOffset
  BY <1>1 DEF NoPull
<1>5. pull' \in [at : {"idle", "opened", "read"}, start : Nat,
                 lines : SUBSET ((0..MaxRotation) \X (1..MaxLine)), next : Nat]
  BY <1>1, <1>3 DEF NoPull
<1>6. LogTypeOK' /\ LinesImportedOnce' /\ OffsetIsBehind'
  BY <1>1, <1>5 DEF LogInv, LogTypeOK, LinesImportedOnce, OffsetIsBehind, Imported
<1>7. PullIsAhead'
  BY <1>1, <1>3, <1>4 DEF LogInv, OffsetIsBehind, PullIsAhead, Imported
<1> QED BY <1>6, <1>7 DEF LogInv

LEMMA ReadAccessLogHolds ==
    ASSUME LogInv, ReadAccessLog
    PROVE  LogInv'
<1> DEFINE last == IF log.length > pull.start THEN log.length ELSE pull.start
           whole == {<<log.rotation, i>> : i \in WholeLines(pull.start, log.length)}
<1>1. /\ pull.at = "opened" /\ pull' = [pull EXCEPT !.at = "read", !.lines = whole, !.next = last]
      /\ UNCHANGED <<log, known, offset, imports>>
  BY DEF ReadAccessLog
<1>2. /\ log.length \in Nat /\ pull.start \in Nat /\ log.rotation \in 0..MaxRotation
      /\ \A i \in 1..MaxLine : i \in Nat
  BY AccessLogAssumption DEF LogInv, LogTypeOK
<1>3. \A g \in 0..MaxRotation, i \in 1..MaxLine : <<g, i>> \in whole =>
          g = log.rotation /\ pull.start <= 2 * (i - 1) /\ 2 * i <= log.length
  BY DEF WholeLines
<1>4. whole \in SUBSET ((0..MaxRotation) \X (1..MaxLine))
  BY <1>2 DEF WholeLines
<1>5. /\ last \in Nat /\ pull.start <= last /\ (pull.start <= log.length => last <= log.length)
      /\ log.length <= last
  BY <1>2
<1>6. \A i \in 1..MaxLine : pull.start <= 2 * (i - 1) /\ 2 * i <= log.length =>
          /\ ~ (2 * i <= pull.start) /\ 2 * i <= last /\ last <= log.length
  BY <1>2
<1> HIDE DEF last, whole
<1>7. /\ pull'.at = "read" /\ pull'.start = pull.start /\ pull'.lines = whole /\ pull'.next = last
      /\ pull' \in [at : {"idle", "opened", "read"}, start : Nat,
                    lines : SUBSET ((0..MaxRotation) \X (1..MaxLine)), next : Nat]
  BY <1>1, <1>4, <1>5 DEF LogInv, LogTypeOK
<1>8. LogTypeOK' /\ LinesImportedOnce' /\ OffsetIsBehind'
  BY <1>1, <1>7 DEF LogInv, LogTypeOK, LinesImportedOnce, OffsetIsBehind, Imported
<1>9. \A i \in 1..MaxLine : Imported(i) => 2 * i <= pull.start /\ pull.start <= log.length
  BY <1>1 DEF LogInv, PullIsAhead
<1>10. \A g \in 0..MaxRotation, i \in 1..MaxLine : <<g, i>> \in whole =>
           /\ imports[g][i] = 0 /\ g <= log.rotation
           /\ g = log.rotation => 2 * i <= last /\ last <= log.length
  BY <1>2, <1>3, <1>6, <1>9 DEF Imported
<1>11. PullIsAhead'
  BY <1>1, <1>5, <1>7, <1>9, <1>10 DEF PullIsAhead, Imported
<1> QED BY <1>8, <1>11 DEF LogInv

LEMMA StoreAccessLogHolds ==
    ASSUME LogInv, StoreAccessLog
    PROVE  LogInv'
<1>1. /\ pull.at = "read" /\ offset' = pull.next /\ pull' = NoPull /\ UNCHANGED <<log, known>>
      /\ imports' = [g \in 0..MaxRotation |-> [i \in 1..MaxLine |->
                       IF known /\ <<g, i>> \in pull.lines THEN imports[g][i] + 1 ELSE imports[g][i]]]
  BY DEF StoreAccessLog
<1>2. /\ pull.start \in Nat /\ pull.next \in Nat /\ log.length \in Nat /\ log.rotation \in 0..MaxRotation
      /\ \A g \in 0..MaxRotation : g \in Nat
      /\ \A i \in 1..MaxLine : i \in Nat
      /\ \A g \in 0..MaxRotation, i \in 1..MaxLine : imports[g][i] \in Nat
  BY AccessLogAssumption DEF LogInv, LogTypeOK
<1>3. \A g \in 0..MaxRotation, i \in 1..MaxLine :
          \/ imports'[g][i] = imports[g][i]
          \/ <<g, i>> \in pull.lines /\ imports'[g][i] = imports[g][i] + 1
  BY <1>1
<1>4. \A g \in 0..MaxRotation, i \in 1..MaxLine :
          \/ imports'[g][i] = imports[g][i]
          \/ <<g, i>> \in pull.lines /\ imports'[g][i] = 1
  <2>1. \A g \in 0..MaxRotation, i \in 1..MaxLine : <<g, i>> \in pull.lines => imports[g][i] = 0
    BY <1>1 DEF LogInv, PullIsAhead
  <2> SUFFICES ASSUME NEW g \in 0..MaxRotation, NEW i \in 1..MaxLine
               PROVE  \/ imports'[g][i] = imports[g][i]
                      \/ <<g, i>> \in pull.lines /\ imports'[g][i] = 1
    OBVIOUS
  <2>2. CASE imports'[g][i] = imports[g][i]
    BY <2>2
  <2>3. CASE <<g, i>> \in pull.lines /\ imports'[g][i] = imports[g][i] + 1
    <3>1. imports[g][i] = 0
      BY <2>1, <2>3
    <3> QED BY <2>3, <3>1
  <2> QED BY <1>3, <2>2, <2>3
<1>5. pull' \in [at : {"idle", "opened", "read"}, start : Nat,
                 lines : SUBSET ((0..MaxRotation) \X (1..MaxLine)), next : Nat]
      /\ pull'.at = "idle"
  BY <1>1 DEF NoPull
<1>6. imports' \in [0..MaxRotation -> [1..MaxLine -> Nat]]
  BY <1>1, <1>2
<1>7. LogTypeOK'
  BY <1>1, <1>2, <1>5, <1>6 DEF LogInv, LogTypeOK
<1>8. LinesImportedOnce'
  <2>1. \A g \in 0..MaxRotation, i \in 1..MaxLine : imports[g][i] <= 1
    BY DEF LogInv, LinesImportedOnce
  <2>2. ASSUME NEW g \in 0..MaxRotation, NEW i \in 1..MaxLine PROVE imports'[g][i] <= 1
    <3>1. CASE imports'[g][i] = imports[g][i]
      BY <2>1, <3>1
    <3>2. CASE imports'[g][i] = 1
      BY <3>2
    <3> QED BY <1>4, <3>1, <3>2
  <2> QED BY <2>2 DEF LinesImportedOnce
<1>9. PullIsAhead'
  BY <1>5 DEF PullIsAhead
<1>10. \A g \in 0..MaxRotation, i \in 1..MaxLine : g > log.rotation => imports'[g][i] = 0
  BY <1>1, <1>2, <1>4 DEF LogInv, OffsetIsBehind, PullIsAhead
<1>11. ASSUME NEW i \in 1..MaxLine, Imported(i)'
       PROVE  2 * i <= pull.next /\ pull.next <= log.length
  <2>1. CASE Imported(i)
    <3>1. 2 * i <= pull.start /\ pull.start <= pull.next /\ pull.next <= log.length
      BY <1>1, <2>1 DEF LogInv, PullIsAhead
    <3> QED BY <1>2, <3>1
  <2>2. CASE ~ Imported(i)
    <3>1. <<log.rotation, i>> \in pull.lines
      BY <1>1, <1>2, <1>4, <1>11, <2>2 DEF Imported
    <3> QED BY <1>1, <1>2, <3>1 DEF LogInv, PullIsAhead
  <2> QED BY <2>1, <2>2
<1>12. OffsetIsBehind'
  BY <1>1, <1>10, <1>11 DEF OffsetIsBehind
<1> QED BY <1>7, <1>8, <1>9, <1>12 DEF LogInv

\* A step of the identities, or a pull that dies.
LEMMA LogStands ==
    ASSUME LogInv, UNCHANGED <<log, offset, imports>>, known' \in BOOLEAN, pull' = pull \/ pull' = NoPull
    PROVE  LogInv'
<1>1. CASE pull' = pull
  BY <1>1 DEF LogInv, LogTypeOK, OffsetIsBehind, PullIsAhead, LinesImportedOnce, Imported
<1>2. CASE pull' = NoPull
  <2>1. pull' \in [at : {"idle", "opened", "read"}, start : Nat,
                   lines : SUBSET ((0..MaxRotation) \X (1..MaxLine)), next : Nat]
        /\ pull'.at = "idle"
    BY <1>2 DEF NoPull
  <2> QED BY <2>1 DEF LogInv, LogTypeOK, OffsetIsBehind, PullIsAhead, LinesImportedOnce, Imported
<1> QED BY <1>1, <1>2

\* However often the log is pulled and truncated, whatever a pull that died had read and
\* wherever Xray was writing, no line becomes two connection events, for logs of any length
\* and any number of rotations (sync_access_log).
THEOREM LinesOnce == LogSpec => []LinesImportedOnce
<1>1. LogInit => LogInv
  <2> SUFFICES ASSUME LogInit PROVE LogInv
    OBVIOUS
  <2>1. /\ log = [rotation |-> 0, length |-> 0] /\ known \in BOOLEAN /\ pull = NoPull /\ offset = 0
        /\ imports = [g \in 0..MaxRotation |-> [i \in 1..MaxLine |-> 0]]
    BY DEF LogInit
  <2>2. \A g \in 0..MaxRotation, i \in 1..MaxLine : imports[g][i] = 0
    BY <2>1
  <2>3. log.rotation \in 0..MaxRotation /\ pull.at = "idle" /\ 0 <= 1
    BY <2>1, AccessLogAssumption DEF NoPull
  <2>4. LogTypeOK
    BY <2>1, <2>3 DEF LogTypeOK, NoPull
  <2>5. OffsetIsBehind /\ PullIsAhead /\ LinesImportedOnce
    BY <2>2, <2>3 DEF OffsetIsBehind, PullIsAhead, LinesImportedOnce, Imported
  <2> QED BY <2>4, <2>5 DEF LogInv
<1>2. LogInv /\ [LogNext]_logVars => LogInv'
  <2> SUFFICES ASSUME LogInv, [LogNext]_logVars PROVE LogInv'
    OBVIOUS
  <2>1. CASE LogGrows
    BY <2>1, LogGrowsHolds
  <2>2. CASE LogRotates
    BY <2>2, LogRotatesHolds
  <2>3. CASE IdentityChanges
    BY <2>3, LogStands DEF IdentityChanges, LogInv, LogTypeOK
  <2>4. CASE OpenAccessLog
    BY <2>4, OpenAccessLogHolds
  <2>5. CASE ReadAccessLog
    BY <2>5, ReadAccessLogHolds
  <2>6. CASE StoreAccessLog
    BY <2>6, StoreAccessLogHolds
  <2>7. CASE PullDies
    BY <2>7, LogStands DEF PullDies, LogInv, LogTypeOK
  <2>8. CASE UNCHANGED logVars
    BY <2>8, LogStands DEF logVars, LogInv, LogTypeOK
  <2> QED BY <2>1, <2>2, <2>3, <2>4, <2>5, <2>6, <2>7, <2>8 DEF LogNext
<1>3. LogInv => LinesImportedOnce
  BY DEF LogInv
<1> QED BY <1>1, <1>2, <1>3, PTL DEF LogSpec

-----------------------------------------------------------------------------
(* Usage: the Console's counters *)

LedgerRows ==
    [legacy : Nat, since : Nat, row : BOOLEAN, month : Nat, used : Nat, counted : Nat, metered : BOOLEAN, last : Nat]

RefreshRows ==
    [at : {"idle", "loaded", "identified", "sampled"}, users : SUBSET Clients, stats : [Clients -> Nat], taken : Nat]

UsageTypeOK ==
    /\ meter \in [users : SUBSET Clients, counter : [Clients -> Nat], carried : [Clients -> Nat]]
    /\ ledger \in [Clients -> LedgerRows]
    /\ refresh \in [Refreshers -> RefreshRows]
    /\ samples \in [taken : Nat, stored : Nat, overtaken : BOOLEAN] /\ period \in Nat

\* What a row has counted, and the counter value it has seen, once the first schema is taken over.
Charge(row) == IF row.legacy = 0 \/ row.row THEN row.counted ELSE row.counted + row.legacy
Mark(row) == IF row.metered THEN row.last ELSE row.legacy

Sampled(r) == refresh[r].at = "sampled"

\* Samples are numbered as they are taken, and none is stored twice.
SamplesAreNumbered ==
    /\ samples.stored <= samples.taken
    /\ \A r \in Refreshers : Sampled(r) => refresh[r].taken <= samples.taken /\ refresh[r].taken # samples.stored
    /\ \A q, r \in Refreshers : Sampled(q) /\ Sampled(r) /\ q # r => refresh[q].taken # refresh[r].taken

\* With what u had carried when each sample was taken: the samples that are not yet stored,
\* in their order, and then the counter charge u no more than was carried.
ChargesFit(u, at) ==
    /\ Charge(ledger[u]) + CounterDelta(meter.counter[u], Mark(ledger[u])) <= meter.carried[u]
    /\ \A r \in Refreshers : Sampled(r) =>
         /\ at[r] + CounterDelta(meter.counter[u], refresh[r].stats[u]) <= meter.carried[u]
         /\ refresh[r].taken > samples.stored =>
                Charge(ledger[u]) + CounterDelta(refresh[r].stats[u], Mark(ledger[u])) <= at[r]
    /\ \A q, r \in Refreshers : Sampled(q) /\ Sampled(r) /\ refresh[q].taken < refresh[r].taken =>
         at[q] + CounterDelta(refresh[r].stats[u], refresh[q].stats[u]) <= at[r]

UsageInv ==
    /\ UsageTypeOK /\ SamplesAreNumbered
    /\ ~ samples.overtaken => \A u \in Clients : \E at \in [Refreshers -> Nat] : ChargesFit(u, at)

LEMMA DeltaIsNumber ==
    ASSUME NEW a \in Nat, NEW b \in Nat
    PROVE  /\ CounterDelta(a, b) \in Nat /\ CounterDelta(a + 1, b) <= CounterDelta(a, b) + 1
           /\ CounterDelta(0, b) = 0 /\ CounterDelta(a, a) = 0
  BY DEF CounterDelta

LEMMA ChargeIsNumber ==
    ASSUME NEW row \in LedgerRows
    PROVE  Charge(row) \in Nat /\ Mark(row) \in Nat /\ row.counted <= Charge(row)
<1>1. row.counted \in Nat /\ row.legacy \in Nat /\ row.last \in Nat
  BY DEF LedgerRows
<1> QED BY <1>1 DEF Charge, Mark

\* Taking over the first schema changes neither.
LEMMA MigrationKeeps ==
    ASSUME NEW row \in LedgerRows, period \in Nat
    PROVE  LET new == MigrateLegacyUsage(row)
           IN  /\ new \in LedgerRows /\ Charge(new) = Charge(row) /\ Mark(new) = Mark(row)
               /\ new.counted = Charge(row) /\ (IF new.metered THEN new.last ELSE 0) = Mark(row)
<1> DEFINE first == IF row.legacy = 0 \/ row.row THEN row
                    ELSE [row EXCEPT !.row = TRUE, !.month = LegacyMonth(row), !.used = row.legacy,
                                     !.counted = @ + row.legacy]
           new == MigrateLegacyUsage(row)
<1>1. /\ row.legacy \in Nat /\ row.counted \in Nat /\ row.last \in Nat
      /\ row.row \in BOOLEAN /\ row.metered \in BOOLEAN
  BY DEF LedgerRows
<1>2. /\ first \in LedgerRows /\ first.legacy = row.legacy /\ first.counted = Charge(row)
      /\ first.metered = row.metered /\ first.last = row.last /\ (first.legacy = 0 \/ first.row)
  <2>1. CASE row.legacy = 0 \/ row.row
    BY <2>1 DEF Charge
  <2>2. CASE ~ (row.legacy = 0 \/ row.row)
    <3>1. first = [row EXCEPT !.row = TRUE, !.month = LegacyMonth(row), !.used = row.legacy, !.counted = @ + row.legacy]
      BY <2>2
    <3>2. row.counted + row.legacy \in Nat /\ LegacyMonth(row) \in Nat
      BY <1>1 DEF LegacyMonth, LedgerRows
    <3> QED BY <1>1, <2>2, <3>1, <3>2 DEF LedgerRows, Charge
  <2> QED BY <2>1, <2>2
<1>3. new = IF row.legacy = 0 \/ row.metered THEN first ELSE [first EXCEPT !.metered = TRUE, !.last = row.legacy]
  BY DEF MigrateLegacyUsage
<1> HIDE DEF first, new
<1>4. CASE row.legacy = 0 \/ row.metered
  <2>1. new = first
    BY <1>3, <1>4
  <2>2. Charge(new) = Charge(row)
    BY <1>2, <2>1 DEF Charge
  <2>3. Mark(new) = Mark(row) /\ (IF new.metered THEN new.last ELSE 0) = Mark(row)
    BY <1>2, <1>4, <2>1 DEF Mark
  <2> QED BY <1>2, <2>1, <2>2, <2>3 DEF new
<1>5. CASE ~ (row.legacy = 0 \/ row.metered)
  <2>1. new = [first EXCEPT !.metered = TRUE, !.last = row.legacy]
    BY <1>3, <1>5
  <2>2. /\ new \in LedgerRows /\ new.legacy = row.legacy /\ new.counted = Charge(row) /\ new.row = first.row
        /\ new.metered = TRUE /\ new.last = row.legacy
    BY <1>1, <1>2, <2>1 DEF LedgerRows
  <2>3. Charge(new) = Charge(row)
    BY <1>2, <2>2 DEF Charge
  <2>4. Mark(new) = Mark(row) /\ (IF new.metered THEN new.last ELSE 0) = Mark(row)
    BY <1>5, <2>2 DEF Mark
  <2> QED BY <2>2, <2>3, <2>4 DEF new
<1> QED BY <1>4, <1>5

\* Accounting charges the counter's delta and remembers the counter.
LEMMA AccountedCharges ==
    ASSUME NEW row \in LedgerRows, NEW now \in Nat, period \in Nat
    PROVE  LET new == Accounted(row, now)
           IN  /\ new \in LedgerRows /\ Mark(new) = now
               /\ Charge(new) = Charge(row) + CounterDelta(now, Mark(row))
<1> DEFINE migrated == MigrateLegacyUsage(row)
           delta == CounterDelta(now, IF migrated.metered THEN migrated.last ELSE 0)
           sum == IF migrated.row /\ migrated.month = period THEN migrated.used + delta ELSE delta
           new == Accounted(row, now)
<1>1. /\ migrated \in LedgerRows /\ migrated.counted = Charge(row)
      /\ (IF migrated.metered THEN migrated.last ELSE 0) = Mark(row)
  BY MigrationKeeps
<1>2. new = [migrated EXCEPT !.row = TRUE, !.month = period, !.metered = TRUE, !.last = now,
                             !.used = sum, !.counted = @ + delta]
  BY DEF Accounted
<1>3. delta = CounterDelta(now, Mark(row)) /\ delta \in Nat
  BY <1>1, DeltaIsNumber, ChargeIsNumber
<1>4. migrated.used \in Nat /\ migrated.counted \in Nat
  BY <1>1 DEF LedgerRows
<1>5. sum \in Nat /\ migrated.counted + delta \in Nat
  BY <1>3, <1>4
<1> HIDE DEF sum, delta, migrated
<1>6. /\ new \in LedgerRows /\ new.row = TRUE /\ new.metered = TRUE /\ new.last = now
      /\ new.counted = migrated.counted + delta
  BY <1>1, <1>2, <1>5 DEF LedgerRows
<1> HIDE DEF new
<1>7. Mark(new) = now /\ Charge(new) = Charge(row) + CounterDelta(now, Mark(row))
  BY <1>1, <1>3, <1>6 DEF Mark, Charge
<1> QED BY <1>6, <1>7 DEF new

\* The numbers of the invariant.
LEMMA UsageNumbers ==
    ASSUME UsageInv, NEW u \in Clients
    PROVE  /\ meter.counter[u] \in Nat /\ meter.carried[u] \in Nat
           /\ Charge(ledger[u]) \in Nat /\ Mark(ledger[u]) \in Nat /\ ledger[u].counted <= Charge(ledger[u])
           /\ CounterDelta(meter.counter[u], Mark(ledger[u])) \in Nat
           /\ \A r \in Refreshers :
                  /\ refresh[r].stats[u] \in Nat /\ refresh[r].taken \in Nat
                  /\ CounterDelta(meter.counter[u], refresh[r].stats[u]) \in Nat
                  /\ CounterDelta(refresh[r].stats[u], Mark(ledger[u])) \in Nat
<1>1. meter.counter[u] \in Nat /\ meter.carried[u] \in Nat /\ ledger[u] \in LedgerRows
  BY DEF UsageInv, UsageTypeOK
<1>2. \A r \in Refreshers : refresh[r].stats[u] \in Nat /\ refresh[r].taken \in Nat
  BY DEF UsageInv, UsageTypeOK, RefreshRows
<1>3. Charge(ledger[u]) \in Nat /\ Mark(ledger[u]) \in Nat /\ ledger[u].counted <= Charge(ledger[u])
  BY <1>1, ChargeIsNumber
<1> QED BY <1>1, <1>2, <1>3, DeltaIsNumber

\* A step that takes no sample and stores none.
LEMMA SamplesStand ==
    ASSUME UsageInv, UsageTypeOK', UNCHANGED <<meter, samples>>,
           \A u \in Clients : Charge(ledger'[u]) <= Charge(ledger[u]) /\ Mark(ledger'[u]) = Mark(ledger[u]),
           \A r \in Refreshers : Sampled(r)' => refresh'[r] = refresh[r]
    PROVE  UsageInv'
<1>1. \A r \in Refreshers : Sampled(r)' => Sampled(r) /\ refresh'[r] = refresh[r]
  BY DEF Sampled
<1>2. SamplesAreNumbered'
  BY <1>1 DEF UsageInv, SamplesAreNumbered
<1>3. ASSUME ~ samples.overtaken, NEW u \in Clients
      PROVE  \E at \in [Refreshers -> Nat] : ChargesFit(u, at)'
  <2>1. PICK at \in [Refreshers -> Nat] : ChargesFit(u, at)
    BY <1>3 DEF UsageInv
  <2>2. Charge(ledger'[u]) \in Nat /\ Charge(ledger'[u]) <= Charge(ledger[u]) /\ Mark(ledger'[u]) = Mark(ledger[u])
    BY ChargeIsNumber DEF UsageTypeOK
  <2>3. Charge(ledger'[u]) + CounterDelta(meter.counter[u], Mark(ledger[u])) <= meter.carried[u]
    BY <2>1, <2>2, UsageNumbers DEF ChargesFit
  <2>4. \A r \in Refreshers : Sampled(r) /\ refresh[r].taken > samples.stored =>
            Charge(ledger'[u]) + CounterDelta(refresh[r].stats[u], Mark(ledger[u])) <= at[r]
    <3> SUFFICES ASSUME NEW r \in Refreshers, Sampled(r), refresh[r].taken > samples.stored
                 PROVE  Charge(ledger'[u]) + CounterDelta(refresh[r].stats[u], Mark(ledger[u])) <= at[r]
      OBVIOUS
    <3>1. Charge(ledger[u]) + CounterDelta(refresh[r].stats[u], Mark(ledger[u])) <= at[r]
      BY <2>1 DEF ChargesFit
    <3> QED BY <2>2, <3>1, UsageNumbers
  <2>5. ChargesFit(u, at)'
    BY <1>1, <2>1, <2>2, <2>3, <2>4 DEF ChargesFit
  <2> QED BY <2>5
<1> QED BY <1>2, <1>3 DEF UsageInv

LEMMA CarriesHolds ==
    ASSUME UsageInv, NEW v \in Clients, Carries(v)
    PROVE  UsageInv'
<1>1. /\ meter' = [meter EXCEPT !.counter[v] = @ + 1, !.carried[v] = @ + 1]
      /\ UNCHANGED <<identities, ledger, refresh, samples, period>>
  BY DEF Carries
<1>2. UsageTypeOK'
  <2>1. /\ meter \in [users : SUBSET Clients, counter : [Clients -> Nat], carried : [Clients -> Nat]]
        /\ meter.counter[v] + 1 \in Nat /\ meter.carried[v] + 1 \in Nat
    BY DEF UsageInv, UsageTypeOK
  <2>2. meter' = [users |-> meter.users, counter |-> [meter.counter EXCEPT ![v] = meter.counter[v] + 1],
                  carried |-> [meter.carried EXCEPT ![v] = meter.carried[v] + 1]]
    BY <1>1, <2>1
  <2>3. meter' \in [users : SUBSET Clients, counter : [Clients -> Nat], carried : [Clients -> Nat]]
    BY <2>1, <2>2
  <2> QED BY <1>1, <2>3 DEF UsageInv, UsageTypeOK
<1>3. SamplesAreNumbered'
  BY <1>1 DEF UsageInv, SamplesAreNumbered, Sampled
<1>4. ASSUME ~ samples.overtaken, NEW u \in Clients
      PROVE  \E at \in [Refreshers -> Nat] : ChargesFit(u, at)'
  <2>1. PICK at \in [Refreshers -> Nat] : ChargesFit(u, at)
    BY <1>4 DEF UsageInv
  <2>2. PICK c \in Nat, d \in Nat : c = meter.counter[u] /\ d = meter.carried[u]
    BY UsageNumbers
  <2>3. \/ meter'.counter[u] = c /\ meter'.carried[u] = d
        \/ meter'.counter[u] = c + 1 /\ meter'.carried[u] = d + 1
    BY <1>1, <2>2 DEF UsageInv, UsageTypeOK
  <2>4. ASSUME NEW x \in Nat, NEW b \in Nat, x + CounterDelta(c, b) <= d
        PROVE  x + CounterDelta(meter'.counter[u], b) <= meter'.carried[u]
    <3>0. c + 1 \in Nat
      OBVIOUS
    <3>1. /\ CounterDelta(c, b) \in Nat /\ CounterDelta(c + 1, b) \in Nat
          /\ CounterDelta(c + 1, b) <= CounterDelta(c, b) + 1
      BY <3>0, DeltaIsNumber, Zenon
    <3>2. x + CounterDelta(c + 1, b) <= d + 1
      BY <2>4, <3>1
    <3> QED BY <2>3, <2>4, <3>2
  <2>5. ChargesFit(u, at)'
    <3>1. Charge(ledger[u]) + CounterDelta(meter'.counter[u], Mark(ledger[u])) <= meter'.carried[u]
      BY <2>1, <2>2, <2>4, UsageNumbers DEF ChargesFit
    <3>2. \A r \in Refreshers : Sampled(r) =>
              at[r] + CounterDelta(meter'.counter[u], refresh[r].stats[u]) <= meter'.carried[u]
      BY <2>1, <2>2, <2>4, UsageNumbers DEF ChargesFit
    <3> QED BY <1>1, <2>1, <3>1, <3>2 DEF ChargesFit, Sampled
  <2> QED BY <2>5
<1> QED BY <1>1, <1>2, <1>3, <1>4 DEF UsageInv

LEMMA ReconfiguredHolds ==
    ASSUME UsageInv, Reconfigured
    PROVE  UsageInv'
<1>1. PICK us \in SUBSET Clients : meter' = [meter EXCEPT !.users = us, !.counter = [u \in Clients |-> 0]]
  BY DEF Reconfigured
<1>2. UNCHANGED <<identities, ledger, refresh, samples, period>>
  BY DEF Reconfigured
<1>3. UsageTypeOK' /\ \A u \in Clients : meter'.counter[u] = 0 /\ meter'.carried[u] = meter.carried[u]
  BY <1>1, <1>2 DEF UsageInv, UsageTypeOK
<1>4. SamplesAreNumbered'
  BY <1>2 DEF UsageInv, SamplesAreNumbered, Sampled
<1>5. ASSUME ~ samples.overtaken, NEW u \in Clients
      PROVE  \E at \in [Refreshers -> Nat] : ChargesFit(u, at)'
  <2>1. PICK at \in [Refreshers -> Nat] : ChargesFit(u, at)
    BY <1>5 DEF UsageInv
  <2>2. ASSUME NEW x \in Nat, NEW b \in Nat, x + CounterDelta(meter.counter[u], b) <= meter.carried[u]
        PROVE  x + CounterDelta(meter'.counter[u], b) <= meter'.carried[u]
    <3>1. CounterDelta(meter'.counter[u], b) = 0 /\ meter'.carried[u] = meter.carried[u]
      BY <1>3, DeltaIsNumber
    <3>2. CounterDelta(meter.counter[u], b) \in Nat /\ meter.carried[u] \in Nat
      BY DeltaIsNumber, UsageNumbers
    <3> QED BY <2>2, <3>1, <3>2
  <2>3. ChargesFit(u, at)'
    <3>1. Charge(ledger[u]) + CounterDelta(meter'.counter[u], Mark(ledger[u])) <= meter'.carried[u]
      BY <2>1, <2>2, UsageNumbers DEF ChargesFit
    <3>2. \A r \in Refreshers : Sampled(r) =>
              at[r] + CounterDelta(meter'.counter[u], refresh[r].stats[u]) <= meter'.carried[u]
      BY <2>1, <2>2, UsageNumbers DEF ChargesFit
    <3> QED BY <1>2, <2>1, <3>1, <3>2 DEF ChargesFit, Sampled
  <2> QED BY <2>3
<1> QED BY <1>2, <1>3, <1>4, <1>5 DEF UsageInv

\* A sample is taken when u has carried what it has.
LEMMA SampleHolds ==
    ASSUME UsageInv, NEW s \in Refreshers, Sample(s)
    PROVE  UsageInv'
<1>1. /\ refresh[s].at = "identified" /\ samples' = [samples EXCEPT !.taken = @ + 1]
      /\ refresh' = [refresh EXCEPT ![s].at = "sampled", ![s].stats = meter.counter,
                                    ![s].taken = samples.taken + 1, ![s].users = @ \cap meter.users]
      /\ UNCHANGED <<meter, identities, ledger, period>>
  BY DEF Sample
<1>2. /\ UsageTypeOK'
      /\ refresh'[s].at = "sampled" /\ refresh'[s].stats = meter.counter /\ refresh'[s].taken = samples.taken + 1
      /\ \A r \in Refreshers \ {s} : refresh'[r] = refresh[r]
      /\ samples'.taken = samples.taken + 1 /\ samples'.stored = samples.stored
      /\ samples'.overtaken = samples.overtaken /\ samples.taken \in Nat /\ samples.stored \in Nat
  <2>1. /\ samples \in [taken : Nat, stored : Nat, overtaken : BOOLEAN] /\ samples.taken + 1 \in Nat
        /\ meter.counter \in [Clients -> Nat]
        /\ refresh \in [Refreshers -> RefreshRows]
    BY DEF UsageInv, UsageTypeOK
  <2>2. /\ samples' \in [taken : Nat, stored : Nat, overtaken : BOOLEAN]
        /\ samples'.taken = samples.taken + 1 /\ samples'.stored = samples.stored
        /\ samples'.overtaken = samples.overtaken /\ samples.taken \in Nat /\ samples.stored \in Nat
    BY <1>1, <2>1
  <2>3. /\ refresh'[s] = [at |-> "sampled", users |-> refresh[s].users \cap meter.users,
                          stats |-> meter.counter, taken |-> samples.taken + 1]
        /\ \A r \in Refreshers \ {s} : refresh'[r] = refresh[r]
    BY <1>1, <2>1 DEF RefreshRows
  <2>4. refresh'[s] \in RefreshRows
    BY <2>1, <2>3 DEF RefreshRows
  <2>5. refresh' \in [Refreshers -> RefreshRows]
    BY <1>1, <2>1, <2>3, <2>4
  <2>6. UsageTypeOK'
    BY <1>1, <2>2, <2>5 DEF UsageInv, UsageTypeOK
  <2> QED BY <2>2, <2>3, <2>6
<1>3. /\ samples.stored <= samples.taken
      /\ \A r \in Refreshers : Sampled(r) =>
             refresh[r].taken \in Nat /\ refresh[r].taken <= samples.taken /\ refresh[r].taken # samples.stored
  BY DEF UsageInv, UsageTypeOK, RefreshRows, SamplesAreNumbered
<1>4. /\ ~ Sampled(s) /\ Sampled(s)'
      /\ \A r \in Refreshers \ {s} : (Sampled(r)' <=> Sampled(r)) /\ refresh'[r] = refresh[r]
  BY <1>1, <1>2 DEF Sampled
<1>5. /\ samples.stored <= samples.taken + 1 /\ samples.taken + 1 # samples.stored
      /\ samples.taken + 1 <= samples.taken + 1
      /\ \A r \in Refreshers : Sampled(r) =>
             /\ refresh[r].taken <= samples.taken + 1 /\ refresh[r].taken # samples.taken + 1
             /\ ~ (samples.taken + 1 < refresh[r].taken)
  BY <1>2, <1>3
<1>6. SamplesAreNumbered'
  <2>1. \A r \in Refreshers :
            Sampled(r)' => refresh'[r].taken <= samples'.taken /\ refresh'[r].taken # samples'.stored
    BY <1>2, <1>3, <1>4, <1>5
  <2>2. \A q, r \in Refreshers : Sampled(q)' /\ Sampled(r)' /\ q # r => refresh'[q].taken # refresh'[r].taken
    BY <1>2, <1>4, <1>5 DEF UsageInv, SamplesAreNumbered
  <2> QED BY <1>2, <1>5, <2>1, <2>2 DEF SamplesAreNumbered
<1>7. ASSUME ~ samples.overtaken, NEW u \in Clients
      PROVE  \E at \in [Refreshers -> Nat] : ChargesFit(u, at)'
  <2>1. PICK old \in [Refreshers -> Nat] : ChargesFit(u, old)
    BY <1>7 DEF UsageInv
  <2>2. PICK c \in Nat, d \in Nat : c = meter.counter[u] /\ d = meter.carried[u]
    BY UsageNumbers
  <2>3. PICK at \in [Refreshers -> Nat] : at = [old EXCEPT ![s] = d]
    BY <2>2
  <2>4. at[s] = d /\ \A r \in Refreshers \ {s} : at[r] = old[r]
    BY <2>3
  <2>5. refresh'[s].stats[u] = c /\ meter'.counter[u] = c /\ meter'.carried[u] = d /\ ledger' = ledger
    BY <1>1, <1>2, <2>2
  <2>6. d + CounterDelta(c, c) <= d
    <3>1. CounterDelta(c, c) = 0
      BY DeltaIsNumber
    <3> QED BY <3>1
  <2>7. \A r \in Refreshers : Sampled(r)' =>
          /\ at[r] + CounterDelta(c, refresh'[r].stats[u]) <= d
          /\ refresh'[r].taken > samples'.stored =>
                 Charge(ledger[u]) + CounterDelta(refresh'[r].stats[u], Mark(ledger[u])) <= at[r]
    <3> SUFFICES ASSUME NEW r \in Refreshers, Sampled(r)'
                 PROVE  /\ at[r] + CounterDelta(c, refresh'[r].stats[u]) <= d
                        /\ refresh'[r].taken > samples'.stored =>
                               Charge(ledger[u]) + CounterDelta(refresh'[r].stats[u], Mark(ledger[u])) <= at[r]
      OBVIOUS
    <3>1. CASE r = s
      BY <2>1, <2>2, <2>4, <2>5, <2>6, <3>1 DEF ChargesFit
    <3>2. CASE r # s
      BY <1>2, <1>4, <2>1, <2>2, <2>4, <3>2 DEF ChargesFit
    <3> QED BY <3>1, <3>2
  <2>8. \A q, r \in Refreshers : Sampled(q)' /\ Sampled(r)' /\ refresh'[q].taken < refresh'[r].taken =>
          at[q] + CounterDelta(refresh'[r].stats[u], refresh'[q].stats[u]) <= at[r]
    <3> SUFFICES ASSUME NEW q \in Refreshers, NEW r \in Refreshers, Sampled(q)', Sampled(r)',
                        refresh'[q].taken < refresh'[r].taken
                 PROVE  at[q] + CounterDelta(refresh'[r].stats[u], refresh'[q].stats[u]) <= at[r]
      OBVIOUS
    <3>1. q # s
      <4>1. ASSUME q = s PROVE FALSE
        <5>1. /\ refresh'[q].taken = samples.taken + 1 /\ samples.taken + 1 \in Nat
              /\ ~ (samples.taken + 1 < samples.taken + 1)
          BY <1>2, <4>1
        <5> QED BY <1>2, <1>4, <1>5, <4>1, <5>1
      <4> QED BY <4>1
    <3>2. CASE r = s
      BY <1>4, <2>1, <2>2, <2>4, <2>5, <3>1, <3>2 DEF ChargesFit
    <3>3. CASE r # s
      BY <1>4, <2>1, <2>4, <3>1, <3>3 DEF ChargesFit
    <3> QED BY <3>2, <3>3
  <2>9. Charge(ledger[u]) + CounterDelta(c, Mark(ledger[u])) <= d
    BY <2>1, <2>2 DEF ChargesFit
  <2>10. ChargesFit(u, at)'
    BY <2>5, <2>7, <2>8, <2>9 DEF ChargesFit
  <2> QED BY <2>10
<1> QED BY <1>2, <1>6, <1>7 DEF UsageInv

\* The stored sample is charged, and was the next in order unless one overtook it.
LEMMA SyncTrafficHolds ==
    ASSUME UsageInv, NEW s \in Refreshers, refresh[s].at = "sampled", refresh[s].users \subseteq identities,
           SyncTraffic(s)
    PROVE  UsageInv'
<1>1. /\ refresh' = [refresh EXCEPT ![s] = NoRefresh] /\ UNCHANGED <<meter, identities, period>>
      /\ ledger' = [u \in Clients |-> IF u \in refresh[s].users
                                        THEN Accounted(ledger[u], refresh[s].stats[u]) ELSE ledger[u]]
      /\ samples' = [samples EXCEPT !.stored = IF refresh[s].taken > @ THEN refresh[s].taken ELSE @,
                                    !.overtaken = @ \/ refresh[s].taken < samples.stored]
  BY DEF SyncTraffic
<1>2. /\ period \in Nat /\ \A u \in Clients : refresh[s].stats[u] \in Nat /\ ledger[u] \in LedgerRows
      /\ samples.taken \in Nat /\ samples.stored \in Nat
      /\ \A r \in Refreshers : refresh[r].taken \in Nat
  BY DEF UsageInv, UsageTypeOK, RefreshRows
<1>3. \A u \in Clients :
          \/ ledger'[u] = ledger[u]
          \/ /\ ledger'[u] \in LedgerRows /\ Mark(ledger'[u]) = refresh[s].stats[u]
             /\ Charge(ledger'[u]) = Charge(ledger[u]) + CounterDelta(refresh[s].stats[u], Mark(ledger[u]))
  BY <1>1, <1>2, AccountedCharges
<1>4. NoRefresh \in RefreshRows /\ NoRefresh.at # "sampled"
  BY DEF NoRefresh, RefreshRows
<1>5. /\ ~ Sampled(s)' /\ Sampled(s)
      /\ \A r \in Refreshers : Sampled(r)' => r # s /\ Sampled(r) /\ refresh'[r] = refresh[r]
  BY <1>1, <1>4 DEF Sampled, UsageInv, UsageTypeOK
<1>6. /\ samples'.taken = samples.taken
      /\ samples'.stored = IF refresh[s].taken > samples.stored THEN refresh[s].taken ELSE samples.stored
      /\ samples'.overtaken = (samples.overtaken \/ refresh[s].taken < samples.stored)
      /\ samples' \in [taken : Nat, stored : Nat, overtaken : BOOLEAN]
  BY <1>1, <1>2 DEF UsageInv, UsageTypeOK
<1>7. UsageTypeOK'
  <2>1. ledger' \in [Clients -> LedgerRows]
    BY <1>1, <1>2, <1>3
  <2>2. refresh' \in [Refreshers -> RefreshRows]
    BY <1>1, <1>4 DEF UsageInv, UsageTypeOK
  <2> QED BY <1>1, <1>6, <2>1, <2>2 DEF UsageInv, UsageTypeOK
<1>8. /\ samples.stored <= samples.taken
      /\ \A r \in Refreshers : Sampled(r) => refresh[r].taken <= samples.taken /\ refresh[r].taken # samples.stored
      /\ \A r \in Refreshers : Sampled(r) /\ r # s => refresh[r].taken # refresh[s].taken
  BY <1>5 DEF UsageInv, SamplesAreNumbered
<1>9. SamplesAreNumbered'
  <2>1. samples'.stored = refresh[s].taken \/ samples'.stored = samples.stored
    BY <1>6
  <2>2. samples'.stored <= samples'.taken
    BY <1>5, <1>6, <1>8, <2>1
  <2>3. \A r \in Refreshers :
            Sampled(r)' => refresh'[r].taken <= samples'.taken /\ refresh'[r].taken # samples'.stored
    BY <1>5, <1>6, <1>8, <2>1
  <2>4. \A q, r \in Refreshers : Sampled(q)' /\ Sampled(r)' /\ q # r => refresh'[q].taken # refresh'[r].taken
    BY <1>5 DEF UsageInv, SamplesAreNumbered
  <2> QED BY <2>2, <2>3, <2>4 DEF SamplesAreNumbered
<1>10. ASSUME ~ samples'.overtaken, NEW u \in Clients
       PROVE  \E at \in [Refreshers -> Nat] : ChargesFit(u, at)'
  <2>1. ~ samples.overtaken /\ ~ (refresh[s].taken < samples.stored)
    BY <1>6, <1>10
  <2>2. refresh[s].taken > samples.stored /\ samples'.stored = refresh[s].taken
    <3>1. refresh[s].taken # samples.stored
      BY <1>5, <1>8
    <3>2. refresh[s].taken > samples.stored
      BY <1>2, <2>1, <3>1
    <3> QED BY <1>6, <3>2
  <2>3. PICK at \in [Refreshers -> Nat] : ChargesFit(u, at)
    BY <2>1 DEF UsageInv
  <2>4. PICK c \in Nat, d \in Nat, v \in Nat, x \in Nat, m \in Nat :
            /\ c = meter.counter[u] /\ d = meter.carried[u] /\ v = refresh[s].stats[u]
            /\ x = Charge(ledger[u]) /\ m = Mark(ledger[u])
    BY UsageNumbers
  <2>5. /\ x + CounterDelta(c, m) <= d /\ x + CounterDelta(v, m) <= at[s] /\ at[s] + CounterDelta(c, v) <= d
        /\ at[s] \in Nat /\ CounterDelta(v, m) \in Nat /\ CounterDelta(c, v) \in Nat
    BY <1>5, <2>2, <2>3, <2>4, DeltaIsNumber DEF ChargesFit
  <2>6. \A r \in Refreshers : Sampled(r)' =>
          /\ at[r] + CounterDelta(c, refresh[r].stats[u]) <= d
          /\ refresh[r].taken > refresh[s].taken =>
                /\ x + CounterDelta(refresh[r].stats[u], m) <= at[r]
                /\ at[s] + CounterDelta(refresh[r].stats[u], v) <= at[r]
    <3> SUFFICES ASSUME NEW r \in Refreshers, Sampled(r)'
                 PROVE  /\ at[r] + CounterDelta(c, refresh[r].stats[u]) <= d
                        /\ refresh[r].taken > refresh[s].taken =>
                              /\ x + CounterDelta(refresh[r].stats[u], m) <= at[r]
                              /\ at[s] + CounterDelta(refresh[r].stats[u], v) <= at[r]
      OBVIOUS
    <3>1. Sampled(r)
      BY <1>5
    <3>2. refresh[r].taken > refresh[s].taken =>
              refresh[r].taken > samples.stored /\ refresh[s].taken < refresh[r].taken
      BY <1>2, <2>2
    <3> QED BY <1>5, <2>3, <2>4, <3>1, <3>2 DEF ChargesFit
  <2>7. \A q, r \in Refreshers : Sampled(q)' /\ Sampled(r)' /\ refresh'[q].taken < refresh'[r].taken =>
          at[q] + CounterDelta(refresh'[r].stats[u], refresh'[q].stats[u]) <= at[r]
    BY <1>5, <2>3 DEF ChargesFit
  <2>8. /\ Charge(ledger'[u]) + CounterDelta(c, Mark(ledger'[u])) <= d
        /\ \A r \in Refreshers : Sampled(r)' /\ refresh[r].taken > refresh[s].taken =>
               Charge(ledger'[u]) + CounterDelta(refresh[r].stats[u], Mark(ledger'[u])) <= at[r]
    <3>1. CASE ledger'[u] = ledger[u]
      BY <2>4, <2>5, <2>6, <3>1
    <3>2. CASE Mark(ledger'[u]) = v /\ Charge(ledger'[u]) = x + CounterDelta(v, m)
      <4>1. x + CounterDelta(v, m) + CounterDelta(c, v) <= d
        BY <2>5
      <4>2. ASSUME NEW r \in Refreshers, Sampled(r)', refresh[r].taken > refresh[s].taken
            PROVE  x + CounterDelta(v, m) + CounterDelta(refresh[r].stats[u], v) <= at[r]
        <5>1. at[s] + CounterDelta(refresh[r].stats[u], v) <= at[r]
          BY <2>6, <4>2
        <5>2. CounterDelta(refresh[r].stats[u], v) \in Nat /\ at[r] \in Nat
          BY DeltaIsNumber, UsageNumbers
        <5> QED BY <2>5, <5>1, <5>2
      <4> QED BY <3>2, <4>1, <4>2
    <3> QED BY <1>3, <2>4, <3>1, <3>2
  <2>9. ChargesFit(u, at)'
    <3>1. meter'.counter[u] = c /\ meter'.carried[u] = d
      BY <1>1, <2>4
    <3> QED BY <1>5, <2>2, <2>6, <2>7, <2>8, <3>1 DEF ChargesFit
  <2> QED BY <2>9
<1> QED BY <1>7, <1>9, <1>10 DEF UsageInv

\* sync_identities takes over the first schema and charges nothing.
LEMMA SyncIdentitiesKeeps ==
    ASSUME UsageInv, NEW us, SyncIdentities(us)
    PROVE  /\ ledger' \in [Clients -> LedgerRows]
           /\ \A u \in Clients : Charge(ledger'[u]) <= Charge(ledger[u]) /\ Mark(ledger'[u]) = Mark(ledger[u])
<1>1. ledger' = [u \in Clients |-> IF u \in us THEN MigrateLegacyUsage(ledger[u]) ELSE ledger[u]]
  BY DEF SyncIdentities
<1>2. period \in Nat /\ \A u \in Clients : ledger[u] \in LedgerRows
  BY DEF UsageInv, UsageTypeOK
<1>3. \A u \in Clients :
          ledger'[u] \in LedgerRows /\ Charge(ledger'[u]) = Charge(ledger[u]) /\ Mark(ledger'[u]) = Mark(ledger[u])
  BY <1>1, <1>2, MigrationKeeps
<1>4. \A u \in Clients : Charge(ledger[u]) \in Nat
  BY <1>2, ChargeIsNumber
<1> QED BY <1>1, <1>3, <1>4

\* A refresh that begins, identifies its users or ends without storing.
LEMMA RefreshHolds ==
    ASSUME UsageInv, NEW s \in Refreshers, NEW next \in RefreshRows, next.at # "sampled",
           refresh' = [refresh EXCEPT ![s] = next], UNCHANGED <<meter, samples, period>>,
           ledger' = ledger \/ \E us : SyncIdentities(us)
    PROVE  UsageInv'
<1>1. /\ refresh' \in [Refreshers -> RefreshRows] /\ refresh'[s] = next
      /\ \A r \in Refreshers : r # s => refresh'[r] = refresh[r]
  BY DEF UsageInv, UsageTypeOK
<1>2. /\ ledger' \in [Clients -> LedgerRows]
      /\ \A u \in Clients : Charge(ledger'[u]) <= Charge(ledger[u]) /\ Mark(ledger'[u]) = Mark(ledger[u])
  <2>1. CASE ledger' = ledger
    <3>1. \A u \in Clients : Charge(ledger[u]) \in Nat
      BY UsageNumbers
    <3> QED BY <2>1, <3>1 DEF UsageInv, UsageTypeOK
  <2>2. CASE \E us : SyncIdentities(us)
    BY <2>2, SyncIdentitiesKeeps
  <2> QED BY <2>1, <2>2
<1>3. UsageTypeOK'
  BY <1>1, <1>2 DEF UsageInv, UsageTypeOK
<1>4. \A r \in Refreshers : Sampled(r)' => refresh'[r] = refresh[r]
  BY <1>1 DEF Sampled
<1> QED BY <1>2, <1>3, <1>4, SamplesStand

LEMMA SetQuotaHolds ==
    ASSUME UsageInv, NEW v \in Clients, SetQuota(v)
    PROVE  UsageInv'
<1>1. ledger' = [ledger EXCEPT ![v].row = TRUE] /\ UNCHANGED <<meter, identities, refresh, samples, period>>
  BY DEF SetQuota
<1>2. \A u \in Clients : ledger[u] \in LedgerRows
  BY DEF UsageInv, UsageTypeOK
<1>3. \A u \in Clients : ledger'[u] = ledger[u] \/ ledger'[u] = [ledger[u] EXCEPT !.row = TRUE]
  BY <1>1 DEF UsageInv, UsageTypeOK
<1>4. ASSUME NEW row \in LedgerRows, NEW new, new = row \/ new = [row EXCEPT !.row = TRUE]
      PROVE  new \in LedgerRows /\ Charge(new) <= Charge(row) /\ Mark(new) = Mark(row)
  <2>1. row.counted \in Nat /\ row.legacy \in Nat
    BY DEF LedgerRows
  <2>2. CASE new = row
    BY <2>1, <2>2 DEF Charge
  <2>3. CASE new = [row EXCEPT !.row = TRUE]
    <3>1. /\ new \in LedgerRows /\ new.row = TRUE /\ new.counted = row.counted /\ new.legacy = row.legacy
          /\ new.metered = row.metered /\ new.last = row.last
      BY <2>3 DEF LedgerRows
    <3> QED BY <2>1, <3>1 DEF Charge, Mark
  <2> QED BY <1>4, <2>2, <2>3
<1>5. \A u \in Clients :
          ledger'[u] \in LedgerRows /\ Charge(ledger'[u]) <= Charge(ledger[u]) /\ Mark(ledger'[u]) = Mark(ledger[u])
  BY <1>2, <1>3, <1>4
<1>6. ledger' \in [Clients -> LedgerRows]
  BY <1>1, <1>5 DEF UsageInv, UsageTypeOK
<1>7. UsageTypeOK'
  BY <1>1, <1>6 DEF UsageInv, UsageTypeOK
<1> QED BY <1>1, <1>5, <1>7, SamplesStand

\* As long as samples are stored in the order they were taken no user is charged more than
\* was carried, for every number of users, overlapping refreshes, restarts and months
\* (refresh_traffic, sync_traffic, migrate_legacy_usage).
THEOREM ChargedCarried == UsageSpec => []ChargedWasCarried
<1>1. UsageInit => UsageInv
  <2> SUFFICES ASSUME UsageInit PROVE UsageInv
    OBVIOUS
  <2>1. PICK u0 \in SUBSET Clients, before \in 0..1, since \in Nat :
          /\ meter = [users |-> u0, counter |-> [u \in Clients |-> before], carried |-> [u \in Clients |-> before]]
          /\ ledger = [u \in Clients |-> [legacy |-> before, since |-> since, row |-> FALSE, month |-> 0, used |-> 0,
                                          counted |-> 0, metered |-> FALSE, last |-> 0]]
    <3>1. PICK u0 \in SUBSET Clients, before \in 0..1 : \E since \in 0..before :
            /\ meter = [users |-> u0, counter |-> [u \in Clients |-> before], carried |-> [u \in Clients |-> before]]
            /\ ledger = [u \in Clients |-> [legacy |-> before, since |-> since, row |-> FALSE, month |-> 0, used |-> 0,
                                            counted |-> 0, metered |-> FALSE, last |-> 0]]
      BY Zenon DEF UsageInit
    <3>2. 0..before \subseteq Nat
      OBVIOUS
    <3> QED BY <3>1, <3>2, Zenon
  <2>2. /\ refresh = [r \in Refreshers |-> NoRefresh] /\ period = 1
        /\ samples = [taken |-> 0, stored |-> 0, overtaken |-> FALSE]
    BY DEF UsageInit
  <2>3. NoRefresh \in RefreshRows /\ NoRefresh.at # "sampled"
    BY DEF NoRefresh, RefreshRows
  <2>4. UsageTypeOK
    BY <2>1, <2>2, <2>3 DEF UsageTypeOK, LedgerRows
  <2>5. \A r \in Refreshers : ~ Sampled(r)
    BY <2>2, <2>3 DEF Sampled
  <2>6. SamplesAreNumbered
    BY <2>2, <2>5 DEF SamplesAreNumbered
  <2>7. ASSUME NEW u \in Clients PROVE \E at \in [Refreshers -> Nat] : ChargesFit(u, at)
    <3>1. /\ meter.counter[u] = before /\ meter.carried[u] = before /\ before \in Nat
          /\ Charge(ledger[u]) = before /\ Mark(ledger[u]) = before
      BY <2>1 DEF Charge, Mark
    <3>2. before + CounterDelta(before, before) <= before
      <4>1. CounterDelta(before, before) = 0
        BY <3>1, DeltaIsNumber
      <4> QED BY <3>1, <4>1
    <3>3. [r \in Refreshers |-> 0] \in [Refreshers -> Nat]
      OBVIOUS
    <3>4. \A at \in [Refreshers -> Nat] : ChargesFit(u, at)
      BY <2>5, <3>1, <3>2 DEF ChargesFit
    <3> QED BY <3>3, <3>4
  <2> QED BY <2>4, <2>6, <2>7 DEF UsageInv
<1>2. UsageInv /\ [UsageNext]_usageVars => UsageInv'
  <2> SUFFICES ASSUME UsageInv, [UsageNext]_usageVars PROVE UsageInv'
    OBVIOUS
  <2>0. /\ refresh \in [Refreshers -> RefreshRows] /\ period \in Nat /\ meter.users \in SUBSET Clients
        /\ \A u \in Clients : Charge(ledger[u]) <= Charge(ledger[u])
    <3>1. \A u \in Clients : Charge(ledger[u]) \in Nat
      BY UsageNumbers
    <3> QED BY <3>1 DEF UsageInv, UsageTypeOK
  <2>1. CASE \E u \in Clients : Carries(u) \/ SetQuota(u)
    BY <2>1, CarriesHolds, SetQuotaHolds
  <2>2. CASE Reconfigured
    BY <2>2, ReconfiguredHolds
  <2>3. CASE MonthPasses
    <3>1. period' = period + 1 /\ UNCHANGED <<meter, identities, ledger, refresh, samples>>
      BY <2>3 DEF MonthPasses
    <3>2. UsageTypeOK'
      BY <2>0, <3>1 DEF UsageInv, UsageTypeOK
    <3> QED BY <2>0, <3>1, <3>2, SamplesStand
  <2>4. ASSUME NEW s \in Refreshers, Begin(s) PROVE UsageInv'
    <3>1. PICK next : next = [NoRefresh EXCEPT !.at = "loaded", !.users = meter.users]
      OBVIOUS
    <3>2. next \in RefreshRows /\ next.at # "sampled"
      BY <2>0, <3>1 DEF NoRefresh, RefreshRows
    <3>3. refresh' = [refresh EXCEPT ![s] = next] /\ UNCHANGED <<meter, ledger, samples, period>>
      BY <2>4, <3>1 DEF Begin
    <3> QED BY <3>2, <3>3, RefreshHolds
  <2>5. ASSUME NEW s \in Refreshers, Identify(s) PROVE UsageInv'
    <3>1. PICK next : next = [refresh[s] EXCEPT !.at = "identified"]
      OBVIOUS
    <3>2. next \in RefreshRows /\ next.at # "sampled"
      BY <2>0, <3>1 DEF RefreshRows
    <3>3. /\ refresh' = [refresh EXCEPT ![s] = next] /\ UNCHANGED <<meter, samples, period>>
          /\ SyncIdentities(refresh[s].users)
      BY <2>0, <2>5, <3>1 DEF Identify
    <3> QED BY <3>2, <3>3, RefreshHolds
  <2>6. ASSUME NEW s \in Refreshers, Sample(s) PROVE UsageInv'
    BY <2>6, SampleHolds
  <2>7. ASSUME NEW s \in Refreshers,
               Abandon(s) \/ (SyncTraffic(s) /\ ~ (refresh[s].users \subseteq identities))
        PROVE  UsageInv'
    <3>1. NoRefresh \in RefreshRows /\ NoRefresh.at # "sampled"
      BY DEF NoRefresh, RefreshRows
    <3>2. refresh' = [refresh EXCEPT ![s] = NoRefresh] /\ UNCHANGED <<meter, ledger, samples, period>>
      BY <2>7 DEF Abandon, SyncTraffic
    <3> QED BY <3>1, <3>2, RefreshHolds
  <2>8. ASSUME NEW s \in Refreshers, SyncTraffic(s), refresh[s].users \subseteq identities PROVE UsageInv'
    <3>1. refresh[s].at = "sampled"
      BY <2>8 DEF SyncTraffic
    <3> QED BY <2>8, <3>1, SyncTrafficHolds
  <2>9. CASE PullIdentities
    <3>1. SyncIdentities(meter.users) /\ UNCHANGED <<meter, refresh, samples, period>>
      BY <2>9 DEF PullIdentities
    <3>2. /\ ledger' \in [Clients -> LedgerRows]
          /\ \A u \in Clients : Charge(ledger'[u]) <= Charge(ledger[u]) /\ Mark(ledger'[u]) = Mark(ledger[u])
      BY <3>1, SyncIdentitiesKeeps
    <3>3. UsageTypeOK'
      BY <3>1, <3>2 DEF UsageInv, UsageTypeOK
    <3> QED BY <3>1, <3>2, <3>3, SamplesStand
  <2>10. CASE UNCHANGED usageVars
    <3>1. UNCHANGED <<meter, ledger, refresh, samples, period>>
      BY <2>10 DEF usageVars
    <3>2. UsageTypeOK'
      BY <3>1 DEF UsageInv, UsageTypeOK
    <3> QED BY <2>0, <3>1, <3>2, SamplesStand
  <2> QED BY <2>1, <2>2, <2>3, <2>4, <2>5, <2>6, <2>7, <2>8, <2>9, <2>10 DEF UsageNext
<1>3. UsageInv => ChargedWasCarried
  <2> SUFFICES ASSUME UsageInv, ~ samples.overtaken, NEW u \in Clients
               PROVE  ledger[u].counted <= meter.carried[u]
    BY DEF ChargedWasCarried
  <2>1. PICK at \in [Refreshers -> Nat] : ChargesFit(u, at)
    BY DEF UsageInv
  <2>2. Charge(ledger[u]) + CounterDelta(meter.counter[u], Mark(ledger[u])) <= meter.carried[u]
    BY <2>1 DEF ChargesFit
  <2>3. ledger[u].counted \in Nat
    BY DEF UsageInv, UsageTypeOK, LedgerRows
  <2> QED BY <2>2, <2>3, UsageNumbers
<1> QED BY <1>1, <1>2, <1>3, PTL DEF UsageSpec

\* What the Console shows of its users' traffic was carried, and no line of the access log is
\* an event twice (sync_traffic and sync_access_log of db.rs).
THEOREM UsageTrue == UsageSpec /\ LogSpec => []UsageIsTrue
  BY ChargedCarried, LinesOnce, PTL DEF UsageIsTrue

-----------------------------------------------------------------------------
(* Sums over finite sets: what MapThenSumSet computes is a recursive       *)
(* function of the subsets, and every fact about it follows from a         *)
(* smallest subset at which it would fail.                                 *)

First(s) == CHOOSE x \in s : TRUE
Total(w, S) == MapThenSumSet(LAMBDA x : w[x], S)

\* h adds up the elements of every subset of S, one after the other.
AddsUp(h, w, S) ==
    \A s \in SUBSET S : h[s] = IF s = {} THEN 0 ELSE w[First(s)] + h[s \ {First(s)}]
Sums(g, w, S) == g \in [SUBSET S -> Nat] /\ AddsUp(g, w, S)

LEMMA LeastSubset ==
    ASSUME NEW S, IsFiniteSet(S), NEW B \in SUBSET (SUBSET S), B # {}
    PROVE  \E s \in B : \A t \in SUBSET s : t # s => t \notin B
<1>1. PICK sizes : sizes = {Cardinality(s) : s \in B}
  OBVIOUS
<1>2. \A s \in B : IsFiniteSet(s) /\ Cardinality(s) \in Nat
  BY FS_Subset, FS_CardinalityType
<1>3. sizes \in SUBSET Nat /\ sizes # {}
  BY <1>1, <1>2
<1>4. PICK m \in sizes : \A n \in sizes : m <= n
  BY <1>3, LeastRow
<1>5. PICK s \in B : Cardinality(s) = m
  BY <1>1, <1>4
<1>6. ASSUME NEW t \in SUBSET s, t # s, t \in B PROVE FALSE
  <2>1. Cardinality(t) <= Cardinality(s) /\ Cardinality(s) # Cardinality(t)
    BY <1>2, <1>6, FS_Subset
  <2>2. Cardinality(s) <= Cardinality(t)
    BY <1>1, <1>4, <1>5, <1>6
  <2>3. Cardinality(s) \in Nat /\ Cardinality(t) \in Nat
    BY <1>2, <1>6
  <2> QED BY <2>1, <2>2, <2>3
<1> QED BY <1>5, <1>6

LEMMA FirstIn ==
    ASSUME NEW s, s # {}
    PROVE  First(s) \in s
  BY DEF First

LEMMA SumsAgree ==
    ASSUME NEW S, NEW T, IsFiniteSet(S), NEW w, NEW g, NEW h, Sums(g, w, S), Sums(h, w, T),
           NEW s \in SUBSET S, s \in SUBSET T
    PROVE  g[s] = h[s]
<1>1. PICK B : B = {r \in SUBSET (S \cap T) : g[r] # h[r]}
  OBVIOUS
<1>2. SUFFICES ASSUME B # {} PROVE FALSE
  BY <1>1
<1>3. B \in SUBSET (SUBSET S)
  BY <1>1
<1>4. PICK r \in B : \A t \in SUBSET r : t # r => t \notin B
  BY <1>2, <1>3, LeastSubset
<1>5. r \in SUBSET S /\ r \in SUBSET T /\ g[r] # h[r]
  BY <1>1
<1>6. CASE r = {}
  BY <1>5, <1>6 DEF Sums, AddsUp
<1>7. CASE r # {}
  <2>1. PICK x : x = First(r)
    OBVIOUS
  <2>2. x \in r
    BY <1>7, <2>1, FirstIn
  <2>3. r \ {x} \in SUBSET (S \cap T) /\ r \ {x} # r /\ r \ {x} \in SUBSET r
    BY <1>5, <2>2
  <2>4. g[r \ {x}] = h[r \ {x}]
    BY <1>1, <1>4, <2>3
  <2>5. g[r] = w[x] + g[r \ {x}] /\ h[r] = w[x] + h[r \ {x}]
    BY <1>5, <1>7, <2>1 DEF Sums, AddsUp
  <2> QED BY <1>5, <2>4, <2>5
<1> QED BY <1>6, <1>7

LEMMA SumsExist ==
    ASSUME NEW S, IsFiniteSet(S), NEW w, \A x \in S : w[x] \in Nat
    PROVE  \E g : Sums(g, w, S)
<1>1. PICK B : B = {s \in SUBSET S : ~ \E g : Sums(g, w, s)}
  OBVIOUS
<1>2. SUFFICES ASSUME B # {} PROVE FALSE
  BY <1>1
<1>3. PICK s \in B : \A t \in SUBSET s : t # s => t \notin B
  <2>1. B \in SUBSET (SUBSET S)
    BY <1>1
  <2> QED BY <1>2, <2>1, LeastSubset
<1>4. s \in SUBSET S /\ ~ \E g : Sums(g, w, s)
  BY <1>1
<1>5. \A t \in SUBSET s : t # s => \E g : Sums(g, w, t)
  BY <1>1, <1>3, <1>4
<1>6. PICK G : G = [t \in SUBSET s |-> CHOOSE g : Sums(g, w, t)]
  OBVIOUS
<1>7. \A t \in SUBSET s : t # s => Sums(G[t], w, t)
  BY <1>5, <1>6
<1>8. \A t \in SUBSET s : t # s => G[t][t] \in Nat
  BY <1>7 DEF Sums, AddsUp
<1>9. PICK x : x = First(s)
  OBVIOUS
<1>10. s # {} => x \in s /\ s \ {x} \in SUBSET s /\ s \ {x} # s
  BY <1>9, FirstIn
<1>11. PICK h : h = [t \in SUBSET s |-> IF t # s THEN G[t][t]
                                        ELSE IF s = {} THEN 0 ELSE w[x] + G[s \ {x}][s \ {x}]]
  OBVIOUS
<1>12. h \in [SUBSET s -> Nat]
  <2>1. s # {} => w[x] + G[s \ {x}][s \ {x}] \in Nat
    BY <1>4, <1>8, <1>10
  <2> QED BY <1>8, <1>11, <2>1
<1>13. ASSUME NEW t \in SUBSET s
       PROVE  h[t] = IF t = {} THEN 0 ELSE w[First(t)] + h[t \ {First(t)}]
  <2>1. CASE t = s
    <3>1. CASE s = {}
      BY <1>11, <2>1, <3>1
    <3>2. CASE s # {}
      BY <1>9, <1>10, <1>11, <2>1, <3>2
    <3> QED BY <3>1, <3>2
  <2>2. CASE t # s
    <3>1. h[t] = G[t][t] /\ Sums(G[t], w, t)
      BY <1>7, <1>11, <2>2
    <3>2. CASE t = {}
      BY <3>1, <3>2 DEF Sums, AddsUp
    <3>3. CASE t # {}
      <4>1. PICK y : y = First(t)
        OBVIOUS
      <4>2. y \in t /\ t \ {y} \in SUBSET s /\ t \ {y} # s /\ t \ {y} \in SUBSET t
        BY <3>3, <4>1, FirstIn
      <4>3. h[t \ {y}] = G[t \ {y}][t \ {y}] /\ Sums(G[t \ {y}], w, t \ {y})
        BY <1>7, <1>11, <4>2
      <4>4. IsFiniteSet(t)
        BY <1>4, FS_Subset
      <4>5. G[t][t \ {y}] = G[t \ {y}][t \ {y}]
        <5>1. PICK f, e, r : f = G[t] /\ r = t \ {y} /\ e = G[r]
          OBVIOUS
        <5>2. Sums(f, w, t) /\ Sums(e, w, r) /\ r \in SUBSET t /\ r \in SUBSET r
          BY <3>1, <4>2, <4>3, <5>1
        <5>3. f[r] = e[r]
          BY <4>4, <5>2, SumsAgree
        <5> QED BY <5>1, <5>3
      <4>6. G[t][t] = w[y] + G[t][t \ {y}]
        BY <3>1, <3>3, <4>1 DEF Sums, AddsUp
      <4> QED BY <3>1, <3>3, <4>1, <4>3, <4>5, <4>6
    <3> QED BY <3>2, <3>3
  <2> QED BY <2>1, <2>2
<1>14. Sums(h, w, s)
  BY <1>12, <1>13 DEF Sums, AddsUp
<1> QED BY <1>4, <1>14

\* A function of the subsets that adds one element after the other computes the sum.
LEMMA FoldIs ==
    ASSUME NEW S, IsFiniteSet(S), NEW w, NEW g, Sums(g, w, S), NEW h, AddsUp(h, w, S)
    PROVE  h[S] = g[S]
<1>1. PICK B : B = {r \in SUBSET S : g[r] # h[r]}
  OBVIOUS
<1>2. SUFFICES ASSUME B # {} PROVE FALSE
  BY <1>1
<1>3. PICK r \in B : \A t \in SUBSET r : t # r => t \notin B
  BY <1>1, <1>2, LeastSubset
<1>4. r \in SUBSET S /\ g[r] # h[r]
  BY <1>1
<1>5. CASE r = {}
  BY <1>4, <1>5 DEF Sums, AddsUp
<1>6. CASE r # {}
  <2>1. PICK x : x = First(r)
    OBVIOUS
  <2>2. x \in r
    BY <1>6, <2>1, FirstIn
  <2>3. r \ {x} \in SUBSET S /\ r \ {x} # r /\ r \ {x} \in SUBSET r
    BY <1>4, <2>2
  <2>4. g[r \ {x}] = h[r \ {x}]
    BY <1>1, <1>3, <2>3
  <2>5. g[r] = w[x] + g[r \ {x}] /\ h[r] = w[x] + h[r \ {x}]
    BY <1>4, <1>6, <2>1 DEF Sums, AddsUp
  <2> QED BY <1>4, <2>4, <2>5
<1> QED BY <1>5, <1>6

LEMMA TotalIs ==
    ASSUME NEW S, IsFiniteSet(S), NEW w, NEW g, Sums(g, w, S)
    PROVE  Total(w, S) = g[S]
<1> DEFINE Folded(h) ==
             h = [s \in SUBSET S |-> IF s = {} THEN 0 ELSE w[CHOOSE x \in s : TRUE] + h[s \ {CHOOSE x \in s : TRUE}]]
           iter == CHOOSE h : Folded(h)
<1>1. Folded(g)
  BY DEF Sums, AddsUp, First
<1>2. Folded(iter)
  BY <1>1
<1>3. Total(w, S) = iter[S]
  BY DEF Total, MapThenSumSet, MapThenFoldSet
<1>4. PICK h : Folded(h) /\ Total(w, S) = h[S]
  BY <1>2, <1>3
<1>5. AddsUp(h, w, S)
  BY <1>4 DEF AddsUp, First
<1>6. h[S] = g[S]
  BY <1>5, FoldIs
<1> QED BY <1>4, <1>6

LEMMA FoldTotals ==
    ASSUME NEW S, IsFiniteSet(S), NEW w, \A x \in S : w[x] \in Nat, NEW h, AddsUp(h, w, S)
    PROVE  h[S] = Total(w, S)
<1>1. PICK g : Sums(g, w, S)
  BY SumsExist
<1>2. h[S] = g[S]
  BY <1>1, FoldIs
<1> QED BY <1>1, <1>2, TotalIs

\* A sum is a number: that of nothing is zero, and one element is taken after the other.
LEMMA TotalUnfolds ==
    ASSUME NEW S, IsFiniteSet(S), NEW w, \A x \in S : w[x] \in Nat
    PROVE  /\ Total(w, S) \in Nat
           /\ Total(w, S) = IF S = {} THEN 0 ELSE w[First(S)] + Total(w, S \ {First(S)})
<1>1. PICK g : Sums(g, w, S)
  BY SumsExist
<1>2. Total(w, S) = g[S]
  BY <1>1, TotalIs
<1>3. g[S] \in Nat /\ g[S] = IF S = {} THEN 0 ELSE w[First(S)] + g[S \ {First(S)}]
  BY <1>1 DEF Sums, AddsUp
<1>4. ASSUME S # {} PROVE Total(w, S \ {First(S)}) = g[S \ {First(S)}]
  <2>1. PICK R \in SUBSET S : R = S \ {First(S)}
    OBVIOUS
  <2>2. IsFiniteSet(R) /\ \A x \in R : w[x] \in Nat
    BY FS_Subset
  <2>3. PICK h : Sums(h, w, R)
    BY <2>2, SumsExist
  <2>4. Total(w, R) = h[R]
    BY <2>2, <2>3, TotalIs
  <2>5. g[R] = h[R]
    BY <1>1, <2>3, SumsAgree
  <2> QED BY <2>1, <2>4, <2>5
<1> QED BY <1>2, <1>3, <1>4

\* The elements may be taken in any order.
LEMMA TotalTakes ==
    ASSUME NEW S, IsFiniteSet(S), NEW w, \A x \in S : w[x] \in Nat, NEW e \in S
    PROVE  Total(w, S) = w[e] + Total(w, S \ {e})
<1>1. PICK B : B = {s \in SUBSET S : \E x \in s : Total(w, s) # w[x] + Total(w, s \ {x})}
  OBVIOUS
<1>2. SUFFICES ASSUME B # {} PROVE FALSE
  BY <1>1
<1>3. B \in SUBSET (SUBSET S)
  BY <1>1
<1>4. PICK s \in B : \A t \in SUBSET s : t # s => t \notin B
  BY <1>2, <1>3, LeastSubset
<1>5. PICK x \in s : Total(w, s) # w[x] + Total(w, s \ {x})
  BY <1>1
<1>6. PICK y : y = First(s)
  OBVIOUS
<1>7. y \in s /\ s \in SUBSET S
  BY <1>1, <1>6, FirstIn
<1>8. \A t \in SUBSET S : IsFiniteSet(t) /\ \A z \in t : w[z] \in Nat
  BY FS_Subset
<1>9. Total(w, s) = w[y] + Total(w, s \ {y})
  BY <1>5, <1>6, <1>7, <1>8, TotalUnfolds
<1>10. x # y
  BY <1>5, <1>9
<1>11. PICK r : r = (s \ {y}) \ {x}
  OBVIOUS
<1>12. r = (s \ {x}) \ {y} /\ r \in SUBSET S
  BY <1>7, <1>11
<1>13. \A t \in SUBSET s : t # s => \A z \in t : Total(w, t) = w[z] + Total(w, t \ {z})
  BY <1>1, <1>4, <1>7
<1>14. Total(w, s \ {y}) = w[x] + Total(w, r)
  <2>1. s \ {y} \in SUBSET s /\ s \ {y} # s /\ x \in s \ {y}
    BY <1>5, <1>7, <1>10
  <2> QED BY <1>11, <1>13, <2>1
<1>15. Total(w, s \ {x}) = w[y] + Total(w, r)
  <2>1. s \ {x} \in SUBSET s /\ s \ {x} # s /\ y \in s \ {x}
    BY <1>5, <1>7, <1>10
  <2> QED BY <1>12, <1>13, <2>1
<1>16. Total(w, r) \in Nat /\ w[x] \in Nat /\ w[y] \in Nat
  BY <1>5, <1>7, <1>8, <1>12, TotalUnfolds
<1> QED BY <1>5, <1>9, <1>14, <1>15, <1>16

LEMMA TotalSame ==
    ASSUME NEW S, IsFiniteSet(S), NEW v, NEW w, \A x \in S : w[x] \in Nat /\ v[x] = w[x]
    PROVE  Total(v, S) = Total(w, S)
<1>1. PICK g : Sums(g, w, S)
  BY SumsExist
<1>2. Sums(g, v, S)
  <2>1. \A s \in SUBSET S : s # {} => First(s) \in S
    BY FirstIn
  <2> QED BY <1>1, <2>1 DEF Sums, AddsUp
<1>3. \A x \in S : v[x] \in Nat
  OBVIOUS
<1> QED BY <1>1, <1>2, <1>3, TotalIs

LEMMA TotalPlus ==
    ASSUME NEW S, IsFiniteSet(S), NEW u, NEW v, NEW w,
           \A x \in S : u[x] \in Nat /\ v[x] \in Nat /\ w[x] = u[x] + v[x]
    PROVE  Total(w, S) = Total(u, S) + Total(v, S)
<1>1. PICK f, g : Sums(f, u, S) /\ Sums(g, v, S)
  BY SumsExist
<1>2. PICK h : h = [s \in SUBSET S |-> f[s] + g[s]]
  OBVIOUS
<1>3. h \in [SUBSET S -> Nat]
  BY <1>1, <1>2 DEF Sums, AddsUp
<1>4. ASSUME NEW s \in SUBSET S
      PROVE  h[s] = IF s = {} THEN 0 ELSE w[First(s)] + h[s \ {First(s)}]
  <2>1. CASE s = {}
    <3>1. f[s] = 0 /\ g[s] = 0
      BY <1>1, <2>1 DEF Sums, AddsUp
    <3> QED BY <1>2, <2>1, <3>1
  <2>2. CASE s # {}
    <3>1. PICK x : x = First(s)
      OBVIOUS
    <3>2. x \in S /\ s \ {x} \in SUBSET S
      BY <2>2, <3>1, FirstIn
    <3>3. f[s] = u[x] + f[s \ {x}] /\ g[s] = v[x] + g[s \ {x}]
      BY <1>1, <2>2, <3>1 DEF Sums, AddsUp
    <3>4. f[s \ {x}] \in Nat /\ g[s \ {x}] \in Nat
      BY <1>1, <3>2 DEF Sums, AddsUp
    <3>5. h[s] = f[s] + g[s] /\ h[s \ {x}] = f[s \ {x}] + g[s \ {x}]
      BY <1>2, <3>2
    <3>6. u[x] \in Nat /\ v[x] \in Nat /\ w[x] = u[x] + v[x]
      BY <3>2
    <3>7. h[s] = w[x] + h[s \ {x}]
      BY <3>3, <3>4, <3>5, <3>6
    <3> QED BY <2>2, <3>1, <3>7
  <2> QED BY <2>1, <2>2
<1>5. Sums(h, w, S)
  BY <1>3, <1>4 DEF Sums, AddsUp
<1>6. \A x \in S : w[x] \in Nat
  OBVIOUS
<1>7. Total(w, S) = h[S] /\ Total(u, S) = f[S] /\ Total(v, S) = g[S]
  BY <1>1, <1>5, <1>6, TotalIs
<1> QED BY <1>2, <1>7

LEMMA TotalZero ==
    ASSUME NEW S, IsFiniteSet(S), NEW w, \A x \in S : w[x] = 0
    PROVE  Total(w, S) = 0
<1>1. \A x \in S : w[x] \in Nat /\ w[x] = w[x] + w[x]
  OBVIOUS
<1>2. Total(w, S) = Total(w, S) + Total(w, S)
  BY <1>1, TotalPlus
<1>3. Total(w, S) \in Nat
  BY <1>1, TotalUnfolds
<1>4. \A t \in Nat : t = t + t => t = 0
  OBVIOUS
<1> QED BY <1>2, <1>3, <1>4, Zenon

\* A sum over a range is the sum of its parts.
LEMMA TotalSplits ==
    ASSUME NEW a \in Nat, NEW b \in Nat, NEW c \in Nat, a <= b + 1, b <= c,
           NEW w, \A x \in a .. c : w[x] \in Nat
    PROVE  Total(w, a .. c) = Total(w, a .. b) + Total(w, b + 1 .. c)
<1>1. PICK B : B = {n \in b .. c : Total(w, a .. n) # Total(w, a .. b) + Total(w, b + 1 .. n)}
  OBVIOUS
<1>2. SUFFICES ASSUME B # {} PROVE FALSE
  BY <1>1
<1>3. B \in SUBSET Nat
  BY <1>1
<1>4. PICK n \in B : \A m \in B : n <= m
  BY <1>2, <1>3, LeastRow
<1>5. n \in Nat /\ b <= n /\ n <= c /\ Total(w, a .. n) # Total(w, a .. b) + Total(w, b + 1 .. n)
  BY <1>1
<1>6. \A i \in Nat, j \in Nat : a <= i /\ j <= c =>
         IsFiniteSet(i .. j) /\ (\A x \in i .. j : w[x] \in Nat) /\ Total(w, i .. j) \in Nat
  <2> SUFFICES ASSUME NEW i \in Nat, NEW j \in Nat, a <= i, j <= c
               PROVE  IsFiniteSet(i .. j) /\ (\A x \in i .. j : w[x] \in Nat) /\ Total(w, i .. j) \in Nat
    OBVIOUS
  <2>1. PICK S : S = i .. j
    OBVIOUS
  <2>2. IsFiniteSet(S)
    BY <2>1, FS_Interval
  <2>3. \A x \in S : w[x] \in Nat
    <3>1. S \subseteq a .. c
      BY <2>1
    <3> QED BY <3>1
  <2>4. Total(w, S) \in Nat
    BY <2>2, <2>3, TotalUnfolds
  <2> QED BY <2>1, <2>2, <2>3, <2>4
<1>7. CASE n = b
  <2>1. b + 1 .. n = {} /\ IsFiniteSet(b + 1 .. n)
    BY <1>5, <1>7, FS_EmptySet
  <2>2. Total(w, b + 1 .. n) = 0
    BY <2>1, TotalZero
  <2>3. Total(w, a .. b) \in Nat
    BY <1>6
  <2> QED BY <1>5, <1>7, <2>2, <2>3
<1>8. CASE n # b
  <2>1. n - 1 \in b .. c /\ n - 1 \in Nat /\ ~ n <= n - 1 /\ n \in a .. n /\ n \in b + 1 .. n
    BY <1>5, <1>8
  <2>2. Total(w, a .. n - 1) = Total(w, a .. b) + Total(w, b + 1 .. n - 1)
    BY <1>1, <1>4, <2>1
  <2>3. (a .. n) \ {n} = a .. n - 1 /\ (b + 1 .. n) \ {n} = b + 1 .. n - 1
    BY <1>5
  <2>4. Total(w, a .. n) = w[n] + Total(w, a .. n - 1)
    <3>1. PICK S : S = a .. n
      OBVIOUS
    <3>2. IsFiniteSet(S) /\ (\A x \in S : w[x] \in Nat) /\ n \in S
      BY <1>5, <1>6, <2>1, <3>1
    <3>3. Total(w, S) = w[n] + Total(w, S \ {n})
      BY <3>2, TotalTakes
    <3> QED BY <2>3, <3>1, <3>3
  <2>5. Total(w, b + 1 .. n) = w[n] + Total(w, b + 1 .. n - 1)
    <3>1. PICK S : S = b + 1 .. n
      OBVIOUS
    <3>2. IsFiniteSet(S) /\ (\A x \in S : w[x] \in Nat) /\ n \in S
      BY <1>5, <1>6, <2>1, <3>1
    <3>3. Total(w, S) = w[n] + Total(w, S \ {n})
      BY <3>2, TotalTakes
    <3> QED BY <2>3, <3>1, <3>3
  <2>6. /\ Total(w, a .. b) \in Nat /\ Total(w, b + 1 .. n - 1) \in Nat /\ w[n] \in Nat
    BY <1>5, <1>6, <2>1
  <2> QED BY <1>5, <2>2, <2>4, <2>5, <2>6
<1> QED BY <1>7, <1>8

-----------------------------------------------------------------------------
(* Telemetry: every byte that was counted is in one place *)

Counters == [Users -> Nat]
EventRows ==
    [kind : {"traffic", "status"}, user : Users \cup {"none"}, bytes : Nat]
Statuses == {"none", "restarted", "reset", "unavailable", "invalid"}
BaselineRows == [generation : Nat, counter : Counters, status : Statuses]
FlightRows == [first : Nat, last : Nat]

TelemetryTypeOK ==
    /\ child \in [generation : Nat \ {0}, counter : Counters, fresh : BOOLEAN] /\ carried \in Counters
    /\ collecting \in [generation : Nat, counter : Counters]
    /\ baseline \in BaselineRows
    /\ pending \in Counters /\ usage \in [bytes : Nat, past : Nat] /\ events \in Seq(EventRows)
    /\ retained \in Nat /\ confirmed \in Nat /\ upload \in [at : {"idle", "cursor", "sent"}, sequence : Nat]
    /\ flights \in SUBSET FlightRows /\ totals \in [cursor : Nat, bytes : Counters]

\* What each event of a spool holds for a member.
Weigh(es, u) ==
    [n \in 1 .. Len(es) |-> IF es[n].kind = "traffic" /\ es[n].user = u THEN es[n].bytes ELSE 0]

\* What is behind the cursor of Control.
Behind(es, u, cursor) == Total(Weigh(es, u), cursor + 1 .. Len(es))

AccountedFor ==
    [u \in Users |-> totals.bytes[u] + Behind(events, u, totals.cursor) + pending[u]]

\* What a counter grew by since it was read; nothing when it went back.
Growth(now, before) == IF now >= before THEN now - before ELSE 0

\* What the next collection may still add to the traffic of a member.
Uncounted(u) ==
    IF baseline.generation = child.generation THEN Growth(child.counter[u], baseline.counter[u]) ELSE 0

UsageSummed == usage.bytes + usage.past = Total(AccountedFor, Users)
AccountsFit == \A u \in Users : AccountedFor[u] + Uncounted(u) <= carried[u]

\* The same for the answer that is not yet applied and the collection after it: the child may
\* have been restarted since, under the same generation.
AnswerFits ==
    collecting.generation = child.generation =>
      \A u \in Users : AccountedFor[u] + Delta(collecting, u)
                         + Growth(child.counter[u], collecting.counter[u]) <= carried[u]

\* No generation is known that was not recorded.
CountersOrdered ==
    /\ baseline.generation <= child.generation /\ collecting.generation <= child.generation
    /\ collecting.generation = 0 => collecting = NoQuery

SpoolOrdered ==
    /\ retained <= confirmed + 1 /\ confirmed <= totals.cursor /\ totals.cursor <= Len(events)
    /\ \A b \in flights : 1 <= b.first /\ b.first <= b.last /\ b.last <= Len(events)

TelemetryInv == TelemetryTypeOK /\ UsageSummed /\ AccountsFit /\ AnswerFits /\ CountersOrdered /\ SpoolOrdered

LEMMA Weights ==
    ASSUME NEW es \in Seq(EventRows), NEW u
    PROVE  /\ \A n \in 1 .. Len(es) : Weigh(es, u)[n] \in Nat
           /\ Len(es) \in Nat
<1>1. \A n \in 1 .. Len(es) : es[n] \in EventRows
  OBVIOUS
<1> QED BY <1>1 DEF Weigh, EventRows

LEMMA BehindTyped ==
    ASSUME NEW es \in Seq(EventRows), NEW u, NEW c \in Nat
    PROVE  Behind(es, u, c) \in Nat
<1>1. PICK S : S = c + 1 .. Len(es)
  OBVIOUS
<1>2. S \subseteq 1 .. Len(es)
  BY <1>1, Weights
<1>3. IsFiniteSet(S)
  BY <1>1, FS_Interval, Weights
<1>4. \A n \in S : Weigh(es, u)[n] \in Nat
  BY <1>2, Weights
<1> QED BY <1>1, <1>3, <1>4, TotalUnfolds DEF Behind

LEMMA BytesAre ==
    ASSUME events \in Seq(EventRows), NEW u, NEW a \in Nat \ {0}, NEW b \in Nat, b <= Len(events)
    PROVE  Bytes(u, a, b) = Total(Weigh(events, u), a .. b)
<1> DEFINE Weight(n) == IF events[n].kind = "traffic" /\ events[n].user = u THEN events[n].bytes ELSE 0
           Folded(h) == h = [s \in SUBSET (a .. b) |->
                               IF s = {} THEN 0
                               ELSE Weight(CHOOSE x \in s : TRUE) + h[s \ {CHOOSE x \in s : TRUE}]]
           iter == CHOOSE h : Folded(h)
<1>1. Bytes(u, a, b) = iter[a .. b]
  BY DEF Bytes, MapThenSumSet, MapThenFoldSet
<1>2. PICK w : w = Weigh(events, u)
  OBVIOUS
<1>3. \A n \in a .. b : n \in 1 .. Len(events) /\ w[n] \in Nat /\ w[n] = Weight(n)
  <2>1. \A n \in a .. b : n \in 1 .. Len(events)
    BY Weights
  <2> QED BY <1>2, <2>1, Weights DEF Weigh
<1>4. IsFiniteSet(a .. b)
  BY FS_Interval
<1> HIDE DEF Weight
<1>5. PICK g : Sums(g, w, a .. b)
  <2>1. PICK S : S = a .. b
    OBVIOUS
  <2>2. \E g : Sums(g, w, S)
    BY <1>3, <1>4, <2>1, SumsExist
  <2> QED BY <2>1, <2>2
<1>6. \A s \in SUBSET (a .. b) : s # {} => Weight(First(s)) = w[First(s)]
  BY <1>3, FirstIn
<1>7. Folded(g)
  BY <1>5, <1>6 DEF Sums, AddsUp, First
<1>8. Folded(iter)
  BY <1>7
<1>9. PICK h : Folded(h) /\ Bytes(u, a, b) = h[a .. b]
  BY <1>1, <1>8
<1>10. AddsUp(h, w, a .. b)
  BY <1>6, <1>9 DEF AddsUp, First
<1>11. PICK S : S = a .. b
  OBVIOUS
<1>12. h[S] = Total(w, S)
  <2>1. IsFiniteSet(S) /\ (\A x \in S : w[x] \in Nat) /\ AddsUp(h, w, S)
    BY <1>3, <1>4, <1>10, <1>11
  <2> QED BY <2>1, FoldTotals
<1> QED BY <1>2, <1>9, <1>11, <1>12

\* Events are appended: what was behind the cursor stays there.
LEMMA BehindGrows ==
    ASSUME NEW es \in Seq(EventRows), NEW new \in Seq(EventRows), NEW u, NEW c \in Nat, c <= Len(es)
    PROVE  Behind(es \o new, u, c) =
             Behind(es, u, c) + Total(Weigh(es \o new, u), Len(es) + 1 .. Len(es \o new))
<1>1. PICK all, n, m : all = es \o new /\ n = Len(es) /\ m = Len(all)
  OBVIOUS
<1>2. all \in Seq(EventRows) /\ n \in Nat /\ m \in Nat /\ n <= m /\ \A i \in 1 .. n : all[i] = es[i]
  BY <1>1
<1>3. PICK w : w = Weigh(all, u)
  OBVIOUS
<1>4. \A x \in c + 1 .. m : w[x] \in Nat
  <2>1. c + 1 .. m \subseteq 1 .. m
    BY <1>2
  <2> QED BY <1>1, <1>2, <1>3, <2>1, Weights
<1>5. Total(w, c + 1 .. m) = Total(w, c + 1 .. n) + Total(w, n + 1 .. m)
  <2>1. c + 1 \in Nat /\ c + 1 <= n + 1 /\ n <= m
    BY <1>1, <1>2
  <2> QED BY <1>2, <1>4, <2>1, TotalSplits
<1>6. Total(w, c + 1 .. n) = Behind(es, u, c)
  <2>1. PICK S : S = c + 1 .. n
    OBVIOUS
  <2>2. S \subseteq 1 .. n /\ IsFiniteSet(S)
    BY <1>2, <2>1, FS_Interval
  <2>3. \A x \in S : Weigh(es, u)[x] \in Nat /\ w[x] = Weigh(es, u)[x]
    <3>1. \A x \in S : x \in 1 .. Len(es) /\ x \in 1 .. Len(all) /\ all[x] = es[x]
      BY <1>1, <1>2, <2>2
    <3>2. \A x \in S : Weigh(es, u)[x] \in Nat
      BY <3>1, Weights
    <3> QED BY <1>3, <3>1, <3>2 DEF Weigh
  <2>4. Total(w, S) = Total(Weigh(es, u), S)
    BY <2>2, <2>3, TotalSame
  <2> QED BY <1>1, <2>1, <2>4 DEF Behind
<1> QED BY <1>1, <1>3, <1>5, <1>6 DEF Behind

LEMMA BehindStatus ==
    ASSUME NEW es \in Seq(EventRows), NEW new \in Seq(EventRows), NEW u, NEW c \in Nat, c <= Len(es),
           \A i \in 1 .. Len(new) : new[i].kind # "traffic"
    PROVE  Behind(es \o new, u, c) = Behind(es, u, c)
<1>1. PICK all, n, m : all = es \o new /\ n = Len(es) /\ m = Len(all)
  OBVIOUS
<1>2. PICK S : S = n + 1 .. m
  OBVIOUS
<1>3. \A x \in S : x \in 1 .. m /\ all[x].kind # "traffic"
  BY <1>1, <1>2
<1>4. IsFiniteSet(S)
  BY <1>1, <1>2, FS_Interval
<1>5. \A x \in S : Weigh(all, u)[x] = 0
  BY <1>1, <1>3 DEF Weigh
<1>6. Total(Weigh(all, u), S) = 0
  BY <1>4, <1>5, TotalZero
<1>7. Behind(es, u, c) \in Nat
  BY BehindTyped
<1> QED BY <1>1, <1>2, <1>6, <1>7, BehindGrows

LEMMA BehindTraffic ==
    ASSUME NEW es \in Seq(EventRows), NEW e \in EventRows, NEW u, NEW c \in Nat, c <= Len(es)
    PROVE  Behind(es \o <<e>>, u, c) =
             Behind(es, u, c) + (IF e.kind = "traffic" /\ e.user = u THEN e.bytes ELSE 0)
<1>1. PICK all, n, k : all = es \o <<e>> /\ n = Len(es) /\ k = n + 1
  OBVIOUS
<1>2. /\ <<e>> \in Seq(EventRows) /\ all \in Seq(EventRows) /\ n \in Nat /\ Len(all) = k
      /\ all[k] = e /\ k \in Nat /\ k \in 1 .. Len(all) /\ k .. k = {k}
  BY <1>1
<1>3. PICK w : w = Weigh(all, u)
  OBVIOUS
<1>4. w[k] \in Nat /\ w[k] = IF e.kind = "traffic" /\ e.user = u THEN e.bytes ELSE 0
  BY <1>2, <1>3, Weights DEF Weigh
<1>5. Total(w, {k}) = w[k]
  <2>1. IsFiniteSet({k}) /\ IsFiniteSet({}) /\ {k} \ {k} = {}
    BY FS_Singleton, FS_EmptySet
  <2>2. Total(w, {}) = 0
    BY <2>1, TotalZero
  <2>3. Total(w, {k}) = w[k] + Total(w, {k} \ {k})
    BY <1>4, <2>1, TotalTakes
  <2>4. {k} \ {k} = {}
    OBVIOUS
  <2>5. Total(w, {k}) = w[k] + 0
    BY <2>2, <2>3, <2>4
  <2> QED BY <1>4, <2>5
<1>6. Behind(all, u, c) = Behind(es, u, c) + Total(w, n + 1 .. Len(all))
  <2>1. PICK new \in Seq(EventRows) : new = <<e>>
    BY <1>2
  <2>2. Behind(es \o new, u, c) =
          Behind(es, u, c) + Total(Weigh(es \o new, u), Len(es) + 1 .. Len(es \o new))
    BY BehindGrows
  <2> QED BY <1>1, <1>3, <2>1, <2>2
<1> QED BY <1>1, <1>2, <1>4, <1>5, <1>6

-----------------------------------------------------------------------------

LEMMA AccountsTyped ==
    ASSUME TelemetryTypeOK
    PROVE  /\ AccountedFor \in Counters
           /\ \A u \in Users : /\ Behind(events, u, totals.cursor) \in Nat /\ pending[u] \in Nat
                               /\ totals.bytes[u] \in Nat /\ carried[u] \in Nat
                               /\ child.counter[u] \in Nat /\ baseline.counter[u] \in Nat
                               /\ collecting.counter[u] \in Nat
<1>1. \A u \in Users : /\ pending[u] \in Nat /\ totals.bytes[u] \in Nat /\ carried[u] \in Nat
                       /\ child.counter[u] \in Nat /\ baseline.counter[u] \in Nat
                       /\ collecting.counter[u] \in Nat
  BY DEF TelemetryTypeOK, Counters, BaselineRows
<1>2. \A u \in Users : Behind(events, u, totals.cursor) \in Nat
  BY BehindTyped DEF TelemetryTypeOK
<1>3. AccountedFor \in Counters
  BY <1>1, <1>2 DEF AccountedFor, Counters
<1> QED BY <1>1, <1>2, <1>3

\* A counter that carries one more grows by at most one, one that starts again by nothing.
LEMMA Growths ==
    ASSUME NEW now \in Nat, NEW before \in Nat
    PROVE  /\ Growth(now, before) \in Nat /\ Growth(0, before) = 0 /\ Growth(now, now) = 0
           /\ Growth(now + 1, before) \in Nat /\ Growth(now + 1, before) <= Growth(now, before) + 1
  BY DEF Growth

LEMMA DeltaIs ==
    ASSUME TelemetryTypeOK, NEW u \in Users
    PROVE  /\ Uncounted(u) \in Nat /\ Delta(collecting, u) \in Nat
           /\ Growth(child.counter[u], collecting.counter[u]) \in Nat
           /\ Delta(collecting, u) = IF baseline.generation = collecting.generation
                                     THEN Growth(collecting.counter[u], baseline.counter[u]) ELSE 0
<1>1. child.counter[u] \in Nat /\ baseline.counter[u] \in Nat /\ collecting.counter[u] \in Nat
  BY AccountsTyped
<1>2. Delta(collecting, u) = IF baseline.generation = collecting.generation
                             THEN Growth(collecting.counter[u], baseline.counter[u]) ELSE 0
  BY DEF Delta, Growth
<1>3. /\ Growth(child.counter[u], collecting.counter[u]) \in Nat
      /\ Growth(child.counter[u], baseline.counter[u]) \in Nat
      /\ Growth(collecting.counter[u], baseline.counter[u]) \in Nat
  BY <1>1, Growths
<1> QED BY <1>2, <1>3 DEF Uncounted

LEMMA AccountsStand ==
    ASSUME TelemetryTypeOK, UsageSummed, AccountsFit, AnswerFits, UNCHANGED <<child, carried>>,
           usage'.bytes + usage'.past = usage.bytes + usage.past,
           collecting' = collecting \/ collecting' = NoQuery,
           baseline'.generation = baseline.generation, baseline'.counter = baseline.counter,
           AccountedFor' = AccountedFor
    PROVE  UsageSummed' /\ AccountsFit' /\ AnswerFits'
<1>1. \A u \in Users : Uncounted(u)' = Uncounted(u)
  BY DEF Uncounted
<1>2. usage'.bytes + usage'.past = Total(AccountedFor', Users)
  BY DEF UsageSummed
<1>3. UsageSummed'
  BY <1>2 DEF UsageSummed
<1>4. AnswerFits'
  <2>1. CASE collecting' = collecting
    <3>1. \A u \in Users : Delta(collecting, u)' = Delta(collecting, u)
      BY <2>1 DEF Delta
    <3> QED BY <2>1, <3>1 DEF AnswerFits
  <2>2. CASE collecting' = NoQuery
    <3>1. collecting'.generation = 0 /\ child'.generation # 0
      BY <2>2 DEF NoQuery, TelemetryTypeOK
    <3> QED BY <3>1 DEF AnswerFits
  <2> QED BY <2>1, <2>2
<1> QED BY <1>1, <1>3, <1>4 DEF AccountsFit

LEMMA CountersStand ==
    ASSUME CountersOrdered, child' = child, collecting' = collecting \/ collecting' = NoQuery,
           baseline'.generation = baseline.generation, TelemetryTypeOK
    PROVE  CountersOrdered'
<1>1. child.generation \in Nat \ {0} /\ NoQuery' = NoQuery /\ NoQuery.generation = 0
  BY DEF TelemetryTypeOK, NoQuery, Zero
<1> QED BY <1>1 DEF CountersOrdered

\* Steps of the upload that leave the accounts alone.
LEMMA UploadStands ==
    ASSUME TelemetryInv, TelemetryTypeOK', SpoolOrdered',
           UNCHANGED <<child, carried, baseline, pending, usage, events, totals>>,
           collecting' = collecting \/ collecting' = NoQuery
    PROVE  TelemetryInv'
<1>1. AccountedFor' = AccountedFor
  BY DEF AccountedFor
<1>2. UsageSummed' /\ AccountsFit' /\ AnswerFits'
  BY <1>1, AccountsStand DEF TelemetryInv
<1>3. CountersOrdered'
  BY CountersStand DEF TelemetryInv
<1> QED BY <1>2, <1>3 DEF TelemetryInv

LEMMA CarryTrafficHolds ==
    ASSUME TelemetryInv, NEW v \in Users, CarryTraffic(v)
    PROVE  TelemetryInv'
<1>1. /\ carried' = [carried EXCEPT ![v] = @ + 1] /\ child' = [child EXCEPT !.counter[v] = @ + 1]
      /\ UNCHANGED <<collecting, baseline, pending, usage, events, retained, confirmed, upload, flights, totals>>
  BY DEF CarryTraffic
<1>2. child \in [generation : Nat \ {0}, counter : Counters, fresh : BOOLEAN] /\ carried \in Counters
  BY DEF TelemetryInv, TelemetryTypeOK
<1>3. PICK counter : counter = [child.counter EXCEPT ![v] = @ + 1]
  OBVIOUS
<1>4. counter \in Counters /\ \A u \in Users : counter[u] = IF u = v THEN child.counter[u] + 1 ELSE child.counter[u]
  BY <1>2, <1>3 DEF Counters
<1>5. /\ child' \in [generation : Nat \ {0}, counter : Counters, fresh : BOOLEAN]
      /\ child'.counter = counter /\ child'.generation = child.generation
  <2>1. child' = [child EXCEPT !.counter = counter]
    BY <1>1, <1>3
  <2> QED BY <1>2, <1>4, <2>1
<1>6. carried' \in Counters /\ \A u \in Users : carried'[u] = IF u = v THEN carried[u] + 1 ELSE carried[u]
  BY <1>1, <1>2 DEF Counters
<1>7. TelemetryTypeOK'
  BY <1>1, <1>5, <1>6 DEF TelemetryInv, TelemetryTypeOK
<1>8. AccountedFor' = AccountedFor
  BY <1>1 DEF AccountedFor
<1>9. UsageSummed'
  <2>1. usage'.bytes + usage'.past = Total(AccountedFor', Users)
    BY <1>1, <1>8 DEF TelemetryInv, UsageSummed
  <2> QED BY <2>1 DEF UsageSummed
<1>10. ASSUME NEW u \in Users, NEW x \in Nat, NEW before \in Nat,
              x + Growth(child.counter[u], before) <= carried[u]
       PROVE  x + Growth(child'.counter[u], before) <= carried'[u]
  <2>1. PICK c, d : c = child.counter[u] /\ d = carried[u]
    OBVIOUS
  <2>2. c \in Nat /\ d \in Nat
    BY <1>2, <2>1 DEF Counters
  <2>3. /\ Growth(c, before) \in Nat /\ Growth(c + 1, before) \in Nat
        /\ Growth(c + 1, before) <= Growth(c, before) + 1
    BY <2>2, Growths
  <2>4. x + Growth(c, before) <= d
    BY <1>10, <2>1
  <2>5. CASE u = v
    <3>1. child'.counter[u] = c + 1 /\ carried'[u] = d + 1
      BY <1>4, <1>5, <1>6, <2>1, <2>5
    <3>2. x + Growth(c + 1, before) <= d + 1
      BY <2>2, <2>3, <2>4
    <3> QED BY <3>1, <3>2
  <2>6. CASE u # v
    <3>1. child'.counter[u] = c /\ carried'[u] = d
      BY <1>4, <1>5, <1>6, <2>1, <2>6
    <3> QED BY <2>4, <3>1
  <2> QED BY <2>5, <2>6
<1>11. AccountsFit'
  <2> SUFFICES ASSUME NEW u \in Users PROVE AccountedFor'[u] + Uncounted(u)' <= carried'[u]
    BY DEF AccountsFit
  <2>1. AccountedFor[u] \in Nat /\ carried[u] \in Nat /\ baseline.counter[u] \in Nat /\ carried'[u] \in Nat
    BY <1>6, AccountsTyped DEF TelemetryInv, Counters
  <2>2. AccountedFor[u] + Uncounted(u) <= carried[u]
    BY DEF TelemetryInv, AccountsFit
  <2>3. CASE baseline.generation = child.generation
    <3>1. AccountedFor[u] + Growth(child.counter[u], baseline.counter[u]) <= carried[u]
      BY <2>2, <2>3 DEF Uncounted
    <3>2. AccountedFor[u] + Growth(child'.counter[u], baseline.counter[u]) <= carried'[u]
      BY <1>10, <2>1, <3>1
    <3>3. Uncounted(u)' = Growth(child'.counter[u], baseline.counter[u])
      BY <1>1, <1>5, <2>3 DEF Uncounted
    <3> QED BY <1>8, <3>2, <3>3
  <2>4. CASE baseline.generation # child.generation
    <3>1. Uncounted(u) = 0 /\ Uncounted(u)' = 0
      BY <1>1, <1>5, <2>4 DEF Uncounted
    <3>2. AccountedFor[u] <= carried[u] /\ carried[u] <= carried'[u]
      BY <1>6, <2>1, <2>2, <3>1
    <3> QED BY <1>8, <2>1, <3>1, <3>2
  <2> QED BY <2>3, <2>4
<1>12. AnswerFits'
  <2> SUFFICES ASSUME collecting.generation = child.generation, NEW u \in Users
               PROVE  AccountedFor'[u] + Delta(collecting, u)'
                        + Growth(child'.counter[u], collecting'.counter[u]) <= carried'[u]
    BY <1>1, <1>5 DEF AnswerFits
  <2>1. PICK x : x = AccountedFor[u] + Delta(collecting, u)
    OBVIOUS
  <2>2. x \in Nat /\ collecting.counter[u] \in Nat
    <3>1. AccountedFor[u] \in Nat /\ Delta(collecting, u) \in Nat /\ collecting.counter[u] \in Nat
      BY AccountsTyped, DeltaIs DEF TelemetryInv, Counters
    <3> QED BY <2>1, <3>1
  <2>3. x + Growth(child.counter[u], collecting.counter[u]) <= carried[u]
    BY <2>1 DEF TelemetryInv, AnswerFits
  <2>4. x + Growth(child'.counter[u], collecting.counter[u]) <= carried'[u]
    BY <1>10, <2>2, <2>3
  <2>5. Delta(collecting, u)' = Delta(collecting, u) /\ collecting' = collecting
    BY <1>1 DEF Delta
  <2> QED BY <1>8, <2>1, <2>4, <2>5
<1>13. CountersOrdered'
  <2>1. NoQuery' = NoQuery
    BY DEF NoQuery, Zero
  <2> QED BY <1>1, <1>5, <2>1 DEF TelemetryInv, CountersOrdered
<1>14. SpoolOrdered'
  BY <1>1 DEF TelemetryInv, SpoolOrdered
<1> QED BY <1>7, <1>9, <1>11, <1>12, <1>13, <1>14 DEF TelemetryInv

\* A child that counts from zero has nothing left to count; a recorded generation ends what the
\* old one would still have counted.
LEMMA ChildChangeHolds ==
    ASSUME TelemetryInv, RestartChild \/ RecordGeneration
    PROVE  TelemetryInv'
<1>1. UNCHANGED <<carried, collecting, baseline, pending, usage, events, retained, confirmed, upload,
                  flights, totals>>
  BY DEF RestartChild, RecordGeneration
<1>2. /\ child \in [generation : Nat \ {0}, counter : Counters, fresh : BOOLEAN]
      /\ baseline.generation \in Nat /\ collecting.generation \in Nat
      /\ baseline.generation <= child.generation /\ collecting.generation <= child.generation
  BY DEF TelemetryInv, TelemetryTypeOK, CountersOrdered, BaselineRows
<1>3. Zero \in Counters /\ \A u \in Users : Zero[u] = 0
  BY DEF Zero, Counters
<1>4. /\ child' \in [generation : Nat \ {0}, counter : Counters, fresh : BOOLEAN]
      /\ \/ child'.generation = child.generation /\ child'.counter = Zero
         \/ child'.generation = child.generation + 1
  <2>1. CASE RestartChild
    BY <1>2, <1>3, <2>1 DEF RestartChild
  <2>2. CASE RecordGeneration
    <3>1. PICK n : n = child.generation + 1
      OBVIOUS
    <3>2. n \in Nat \ {0}
      BY <1>2, <3>1
    <3>3. child' = [generation |-> n, counter |-> child.counter, fresh |-> FALSE]
      BY <1>2, <2>2, <3>1 DEF RecordGeneration
    <3> QED BY <1>2, <3>1, <3>2, <3>3
  <2> QED BY <2>1, <2>2
<1>5. child.generation <= child'.generation /\ child.generation \in Nat /\ child'.generation \in Nat
  BY <1>2, <1>4
<1>6. TelemetryTypeOK'
  BY <1>1, <1>4 DEF TelemetryInv, TelemetryTypeOK
<1>7. AccountedFor' = AccountedFor
  BY <1>1 DEF AccountedFor
<1>8. UsageSummed'
  <2>1. usage'.bytes + usage'.past = Total(AccountedFor', Users)
    BY <1>1, <1>7 DEF TelemetryInv, UsageSummed
  <2> QED BY <2>1 DEF UsageSummed
<1>9. ASSUME NEW u \in Users, NEW g \in Nat, NEW before \in Nat, g <= child.generation, g = child'.generation
      PROVE  g = child.generation /\ Growth(child'.counter[u], before) = 0
  <2>1. g = child.generation /\ child'.counter = Zero
    BY <1>2, <1>4, <1>9
  <2> QED BY <1>3, <2>1, Growths
<1>10. AccountsFit'
  <2> SUFFICES ASSUME NEW u \in Users PROVE AccountedFor'[u] + Uncounted(u)' <= carried'[u]
    BY DEF AccountsFit
  <2>1. AccountedFor[u] \in Nat /\ carried[u] \in Nat /\ Uncounted(u) \in Nat /\ baseline.counter[u] \in Nat
    BY AccountsTyped, DeltaIs DEF TelemetryInv, Counters
  <2>2. AccountedFor[u] + Uncounted(u) <= carried[u]
    BY DEF TelemetryInv, AccountsFit
  <2>3. Uncounted(u)' = 0
    BY <1>1, <1>2, <1>9, <2>1 DEF Uncounted
  <2> QED BY <1>1, <1>7, <2>1, <2>2, <2>3
<1>11. AnswerFits'
  <2> SUFFICES ASSUME collecting.generation = child'.generation, NEW u \in Users
               PROVE  AccountedFor'[u] + Delta(collecting, u)'
                        + Growth(child'.counter[u], collecting'.counter[u]) <= carried'[u]
    BY <1>1 DEF AnswerFits
  <2>1. /\ AccountedFor[u] \in Nat /\ Delta(collecting, u) \in Nat /\ collecting.counter[u] \in Nat
        /\ Growth(child.counter[u], collecting.counter[u]) \in Nat /\ carried[u] \in Nat
    BY AccountsTyped, DeltaIs DEF TelemetryInv, Counters
  <2>2. collecting.generation = child.generation /\ Growth(child'.counter[u], collecting.counter[u]) = 0
    BY <1>2, <1>9, <2>1
  <2>3. AccountedFor[u] + Delta(collecting, u) + Growth(child.counter[u], collecting.counter[u]) <= carried[u]
    BY <2>2 DEF TelemetryInv, AnswerFits
  <2>4. Delta(collecting, u)' = Delta(collecting, u) /\ collecting' = collecting /\ carried' = carried
    BY <1>1 DEF Delta
  <2>5. AccountedFor[u] + Delta(collecting, u) + 0 <= carried[u]
    BY <2>1, <2>3
  <2> QED BY <1>7, <2>2, <2>4, <2>5
<1>12. CountersOrdered'
  <2>1. NoQuery' = NoQuery
    BY DEF NoQuery, Zero
  <2>2. baseline'.generation <= child'.generation /\ collecting'.generation <= child'.generation
    BY <1>1, <1>2, <1>5
  <2> QED BY <1>1, <2>1, <2>2 DEF TelemetryInv, CountersOrdered
<1>13. SpoolOrdered'
  BY <1>1 DEF TelemetryInv, SpoolOrdered
<1> QED BY <1>6, <1>8, <1>10, <1>11, <1>12, <1>13 DEF TelemetryInv

LEMMA QueryCountersHolds ==
    ASSUME TelemetryInv, QueryCounters
    PROVE  TelemetryInv'
<1>1. /\ collecting' = [generation |-> child.generation, counter |-> child.counter]
      /\ UNCHANGED <<child, carried, baseline, pending, usage, events, retained, confirmed, upload, flights, totals>>
  BY DEF QueryCounters, QueryUserTraffic
<1>2. /\ child.generation \in Nat \ {0} /\ child.counter \in Counters
      /\ \A u \in Users : child.counter[u] \in Nat
  BY DEF TelemetryInv, TelemetryTypeOK, Counters
<1>3. TelemetryTypeOK'
  BY <1>1, <1>2 DEF TelemetryInv, TelemetryTypeOK
<1>4. AccountedFor' = AccountedFor
  BY <1>1 DEF AccountedFor
<1>5. UsageSummed' /\ AccountsFit'
  <2>1. usage'.bytes + usage'.past = Total(AccountedFor', Users)
    BY <1>1, <1>4 DEF TelemetryInv, UsageSummed
  <2>2. \A u \in Users : Uncounted(u)' = Uncounted(u)
    BY <1>1 DEF Uncounted
  <2> QED BY <1>1, <1>4, <2>1, <2>2 DEF UsageSummed, AccountsFit, TelemetryInv
<1>6. AnswerFits'
  <2> SUFFICES ASSUME NEW u \in Users
               PROVE  AccountedFor'[u] + Delta(collecting, u)'
                        + Growth(child'.counter[u], collecting'.counter[u]) <= carried'[u]
    BY DEF AnswerFits
  <2>1. Growth(child'.counter[u], collecting'.counter[u]) = 0
    BY <1>1, <1>2, Growths
  <2>2. Delta(collecting, u)' = Uncounted(u)
    <3>1. /\ collecting'.generation = child.generation /\ collecting'.counter = child.counter
          /\ baseline' = baseline
      BY <1>1
    <3>2. Delta(collecting, u)' = IF baseline.generation = child.generation
                                     /\ child.counter[u] >= baseline.counter[u]
                                  THEN child.counter[u] - baseline.counter[u] ELSE 0
      BY <3>1 DEF Delta
    <3> QED BY <3>2 DEF Uncounted, Growth
  <2>3. AccountedFor[u] + Uncounted(u) <= carried[u] /\ AccountedFor[u] \in Nat /\ Uncounted(u) \in Nat
    BY AccountsTyped, DeltaIs DEF TelemetryInv, AccountsFit, Counters
  <2>4. AccountedFor[u] + Uncounted(u) + 0 <= carried[u]
    BY <2>3
  <2> QED BY <1>1, <1>4, <2>1, <2>2, <2>4
<1>7. CountersOrdered'
  BY <1>1, <1>2 DEF TelemetryInv, CountersOrdered
<1>8. SpoolOrdered'
  BY <1>1 DEF TelemetryInv, SpoolOrdered
<1> QED BY <1>3, <1>5, <1>6, <1>7, <1>8 DEF TelemetryInv

\* A month that is over is added to those before.
LEMMA CheckpointUsageHolds ==
    ASSUME TelemetryInv, CheckpointUsage
    PROVE  TelemetryInv'
<1>1. /\ usage' = [bytes |-> 0, past |-> usage.past + usage.bytes]
      /\ UNCHANGED <<child, carried, collecting, baseline, pending, events, retained, confirmed, upload,
                     flights, totals>>
  BY DEF CheckpointUsage, AddUsage
<1>2. usage.bytes \in Nat /\ usage.past \in Nat
  BY DEF TelemetryInv, TelemetryTypeOK
<1>3. usage' \in [bytes : Nat, past : Nat] /\ usage'.bytes + usage'.past = usage.bytes + usage.past
  BY <1>1, <1>2
<1>4. TelemetryTypeOK'
  BY <1>1, <1>3 DEF TelemetryInv, TelemetryTypeOK
<1>5. AccountedFor' = AccountedFor
  BY <1>1 DEF AccountedFor
<1>6. UsageSummed' /\ AccountsFit' /\ AnswerFits'
  BY <1>1, <1>3, <1>5, AccountsStand DEF TelemetryInv
<1>7. CountersOrdered'
  BY <1>1, CountersStand DEF TelemetryInv
<1>8. SpoolOrdered'
  BY <1>1 DEF TelemetryInv, SpoolOrdered
<1> QED BY <1>4, <1>6, <1>7, <1>8 DEF TelemetryInv

\* What a change of the collection status adds to the spool carries no traffic.
LEMMA StatusTyped ==
    ASSUME NEW before, NEW after, NEW new, new = StatusEvents(before, after)
    PROVE  new \in Seq(EventRows) /\ \A i \in 1 .. Len(new) : new[i].kind # "traffic"
<1>1. PICK r : r = CollectionStatus
  OBVIOUS
<1>2. r \in EventRows /\ r.kind # "traffic"
  BY <1>1 DEF CollectionStatus, EventRows
<1>3. \/ new = <<>> \/ new = <<r>> \/ new = <<r>> \o <<r>>
  <2>1. <<r>> \o <<>> = <<r>> /\ <<>> \o <<r>> = <<r>> /\ <<>> \o <<>> = <<>>
    OBVIOUS
  <2> QED BY <1>1, <2>1 DEF StatusEvents
<1>4. CASE new = <<>>
  BY <1>4
<1>5. CASE new = <<r>>
  BY <1>2, <1>5
<1>6. CASE new = <<r>> \o <<r>>
  <2>1. <<r>> \in Seq(EventRows)
    BY <1>2
  <2>2. new \in Seq(EventRows) /\ Len(new) = 2 /\ new[1] = r /\ new[2] = r
    BY <1>6, <2>1
  <2>3. \A i \in 1 .. 2 : i = 1 \/ i = 2
    OBVIOUS
  <2> QED BY <1>2, <2>2, <2>3
<1> QED BY <1>3, <1>4, <1>5, <1>6

\* Spooling status events leaves the accounts alone.
LEMMA StatusKeeps ==
    ASSUME TelemetryInv, NEW new \in Seq(EventRows), \A i \in 1 .. Len(new) : new[i].kind # "traffic",
           events' = events \o new, totals' = totals
    PROVE  /\ events' \in Seq(EventRows) /\ Len(events) <= Len(events')
           /\ \A u \in Users : Behind(events', u, totals'.cursor) = Behind(events, u, totals.cursor)
<1>1. events \in Seq(EventRows) /\ totals.cursor \in Nat /\ totals.cursor <= Len(events)
  BY DEF TelemetryInv, TelemetryTypeOK, SpoolOrdered
<1>2. events' \in Seq(EventRows) /\ Len(events) <= Len(events')
  BY <1>1
<1>3. \A u \in Users : Behind(events \o new, u, totals.cursor) = Behind(events, u, totals.cursor)
  BY <1>1, BehindStatus
<1> QED BY <1>2, <1>3

LEMMA SpoolGrows ==
    ASSUME TelemetryInv, events' \in Seq(EventRows), Len(events) <= Len(events'),
           UNCHANGED <<retained, confirmed, flights, totals>>
    PROVE  SpoolOrdered'
<1>1. Len(events) \in Nat /\ Len(events') \in Nat /\ totals.cursor \in Nat
  BY DEF TelemetryInv, TelemetryTypeOK
<1>2. totals'.cursor <= Len(events')
  BY <1>1 DEF TelemetryInv, SpoolOrdered
<1>3. ASSUME NEW b \in flights' PROVE 1 <= b.first /\ b.first <= b.last /\ b.last <= Len(events')
  <2>1. b.last \in Nat /\ b.first \in Nat /\ 1 <= b.first /\ b.first <= b.last /\ b.last <= Len(events)
    BY DEF TelemetryInv, TelemetryTypeOK, SpoolOrdered, FlightRows
  <2> QED BY <1>1, <2>1
<1> QED BY <1>2, <1>3 DEF TelemetryInv, SpoolOrdered

LEMMA QueryFailsHolds ==
    ASSUME TelemetryInv, NEW code \in {"unavailable", "invalid"}, QueryFails(code)
    PROVE  TelemetryInv'
<1>1. PICK new : new = StatusEvents(baseline.status, code) /\ events' = events \o new
  BY DEF QueryFails, Enqueued
<1>2. /\ baseline' = [baseline EXCEPT !.status = code]
      /\ UNCHANGED <<child, carried, collecting, pending, usage, retained, confirmed, upload, flights, totals>>
  BY DEF QueryFails
<1>4. new \in Seq(EventRows) /\ \A i \in 1 .. Len(new) : new[i].kind # "traffic"
  BY <1>1, StatusTyped
<1>5. /\ events' \in Seq(EventRows) /\ Len(events) <= Len(events')
      /\ \A u \in Users : Behind(events', u, totals'.cursor) = Behind(events, u, totals.cursor)
  BY <1>1, <1>2, <1>4, StatusKeeps
<1>6. /\ baseline' \in BaselineRows
      /\ baseline'.generation = baseline.generation /\ baseline'.counter = baseline.counter
  BY <1>2 DEF TelemetryInv, TelemetryTypeOK, BaselineRows, Statuses
<1>7. TelemetryTypeOK'
  BY <1>2, <1>5, <1>6 DEF TelemetryInv, TelemetryTypeOK
<1>8. AccountedFor' = AccountedFor
  BY <1>2, <1>5 DEF AccountedFor
<1>9. UsageSummed' /\ AccountsFit' /\ AnswerFits'
  BY <1>2, <1>6, <1>8, AccountsStand DEF TelemetryInv
<1>10. CountersOrdered'
  BY <1>2, <1>6, CountersStand DEF TelemetryInv
<1>11. SpoolOrdered'
  BY <1>2, <1>5, SpoolGrows
<1> QED BY <1>7, <1>9, <1>10, <1>11 DEF TelemetryInv

LEMMA FlushPendingHolds ==
    ASSUME TelemetryInv, NEW v \in Users, FlushPending(v)
    PROVE  TelemetryInv'
<1>1. PICK e : e = TrafficDelta(v, pending[v])
  OBVIOUS
<1>2. /\ events' = events \o <<e>> /\ pending' = [pending EXCEPT ![v] = 0]
      /\ UNCHANGED <<child, carried, collecting, baseline, usage, retained, confirmed, upload, flights, totals>>
  BY <1>1 DEF FlushPending, Enqueued, Taken
<1>3. pending \in Counters /\ events \in Seq(EventRows) /\ totals.cursor \in Nat /\ totals.cursor <= Len(events)
  BY DEF TelemetryInv, TelemetryTypeOK, SpoolOrdered
<1>4. pending[v] \in Nat
  BY <1>3 DEF Counters
<1>5. e \in EventRows /\ e.kind = "traffic" /\ e.user = v /\ e.bytes = pending[v]
  BY <1>1, <1>4 DEF TrafficDelta, EventRows
<1>6. events' \in Seq(EventRows) /\ Len(events) <= Len(events')
  BY <1>2, <1>3, <1>5
<1>7. pending' \in Counters /\ \A u \in Users : pending'[u] = IF u = v THEN 0 ELSE pending[u]
  BY <1>2, <1>3 DEF Counters
<1>8. TelemetryTypeOK'
  BY <1>2, <1>6, <1>7 DEF TelemetryInv, TelemetryTypeOK
<1>9. ASSUME NEW u \in Users
      PROVE  totals'.bytes[u] + Behind(events', u, totals'.cursor) + pending'[u]
               = totals.bytes[u] + Behind(events, u, totals.cursor) + pending[u]
  <2>1. totals.bytes[u] \in Nat /\ Behind(events, u, totals.cursor) \in Nat /\ pending[u] \in Nat
    BY AccountsTyped DEF TelemetryInv
  <2>2. Behind(events \o <<e>>, u, totals.cursor) =
          Behind(events, u, totals.cursor) + (IF e.kind = "traffic" /\ e.user = u THEN e.bytes ELSE 0)
    BY <1>3, <1>5, BehindTraffic
  <2>3. Behind(events', u, totals'.cursor) =
          Behind(events, u, totals.cursor) + (IF u = v THEN pending[u] ELSE 0)
    BY <1>2, <1>5, <2>2
  <2> QED BY <1>2, <1>7, <2>1, <2>3
<1>10. AccountedFor' = AccountedFor
  BY <1>9 DEF AccountedFor
<1>11. UsageSummed' /\ AccountsFit' /\ AnswerFits'
  BY <1>2, <1>10, AccountsStand DEF TelemetryInv
<1>12. CountersOrdered'
  BY <1>2, CountersStand DEF TelemetryInv
<1>13. SpoolOrdered'
  BY <1>2, <1>6, SpoolGrows
<1> QED BY <1>8, <1>11, <1>12, <1>13 DEF TelemetryInv

\* Counters that are applied move what they grew by to the pending deltas and to the usage.
LEMMA AppliedFits ==
    ASSUME TelemetryInv, TelemetryTypeOK', StillRunning(collecting), NEW turned \in BOOLEAN,
           pending' = [u \in Users |-> pending[u] + Delta(collecting, u)],
           usage' = AddUsage(SumOver([u \in Users |-> Delta(collecting, u)]), turned),
           baseline'.generation = collecting.generation, baseline'.counter = collecting.counter,
           collecting' = NoQuery, UNCHANGED <<child, carried, totals>>,
           \A u \in Users : Behind(events', u, totals'.cursor) = Behind(events, u, totals.cursor)
    PROVE  UsageSummed' /\ AccountsFit' /\ AnswerFits'
<1>1. collecting.generation = child.generation /\ child.generation \in Nat \ {0}
  BY DEF StillRunning, TelemetryInv, TelemetryTypeOK
<1>3. PICK d : d = [u \in Users |-> Delta(collecting, u)]
  OBVIOUS
<1>4. ASSUME NEW u \in Users
      PROVE  d[u] \in Nat /\ d[u] = Delta(collecting, u)
  BY <1>3, DeltaIs DEF TelemetryInv
<1>5. ASSUME NEW u \in Users PROVE AccountedFor'[u] = AccountedFor[u] + d[u]
  <2>1. totals.bytes[u] \in Nat /\ Behind(events, u, totals.cursor) \in Nat /\ pending[u] \in Nat
    BY AccountsTyped DEF TelemetryInv
  <2>2. AccountedFor[u] = totals.bytes[u] + Behind(events, u, totals.cursor) + pending[u]
    BY DEF AccountedFor
  <2>3. AccountedFor'[u] = totals'.bytes[u] + Behind(events', u, totals'.cursor) + pending'[u]
    BY DEF AccountedFor
  <2>4. pending'[u] = pending[u] + d[u]
    BY <1>4
  <2> QED BY <1>4, <2>1, <2>2, <2>3, <2>4
<1>6. UsageSummed'
  <2>1. IsFiniteSet(Users)
    BY TelemetryAssumption
  <2>2. PICK old, now : old = AccountedFor /\ now = AccountedFor'
    OBVIOUS
  <2>3. \A u \in Users : old[u] \in Nat /\ d[u] \in Nat /\ now[u] = old[u] + d[u]
    BY <1>4, <1>5, <2>2, AccountsTyped DEF TelemetryInv, Counters
  <2>4. Total(now, Users) = Total(old, Users) + Total(d, Users)
    BY <2>1, <2>3, TotalPlus
  <2>5. PICK sum : sum = SumOver(d)
    OBVIOUS
  <2>6. sum = Total(d, Users) /\ sum \in Nat
    <3>1. SumOver(d) = Total(d, Users)
      BY DEF SumOver, Total
    <3>2. Total(d, Users) \in Nat
      BY <1>4, <2>1, TotalUnfolds
    <3> QED BY <2>5, <3>1, <3>2
  <2>7. usage'.bytes + usage'.past = usage.bytes + usage.past + sum
    <3>1. usage' = AddUsage(sum, turned)
      BY <1>3, <2>5
    <3>2. usage.bytes \in Nat /\ usage.past \in Nat
      BY DEF TelemetryInv, TelemetryTypeOK
    <3>3. \/ usage'.bytes = sum /\ usage'.past = usage.past + usage.bytes
          \/ usage'.bytes = usage.bytes + sum /\ usage'.past = usage.past
      BY <3>1 DEF AddUsage
    <3> QED BY <2>6, <3>2, <3>3
  <2>8. usage'.bytes + usage'.past = Total(now, Users)
    BY <2>2, <2>4, <2>6, <2>7 DEF TelemetryInv, UsageSummed
  <2> QED BY <2>2, <2>8 DEF UsageSummed
<1>7. AccountsFit'
  <2> SUFFICES ASSUME NEW u \in Users PROVE AccountedFor'[u] + Uncounted(u)' <= carried'[u]
    BY DEF AccountsFit
  <2>1. Uncounted(u)' = Growth(child.counter[u], collecting.counter[u])
    BY <1>1 DEF Uncounted
  <2>2. AccountedFor[u] + Delta(collecting, u) + Growth(child.counter[u], collecting.counter[u]) <= carried[u]
    BY <1>1 DEF TelemetryInv, AnswerFits
  <2> QED BY <1>4, <1>5, <2>1, <2>2
<1>8. AnswerFits'
  BY <1>1 DEF AnswerFits, NoQuery
<1> QED BY <1>6, <1>7, <1>8

LEMMA ApplyCountersHolds ==
    ASSUME TelemetryInv, NEW turned \in BOOLEAN, ApplyCounters(turned)
    PROVE  TelemetryInv'
<1>1. /\ collecting' = NoQuery
      /\ UNCHANGED <<child, carried, retained, confirmed, upload, flights, totals>>
  BY DEF ApplyCounters
<1>2. PICK status, new : status = StatusOf(collecting) /\ new = StatusEvents(baseline.status, status)
  OBVIOUS
<1>3. NoQuery \in [generation : Nat, counter : Counters] /\ NoQuery' = NoQuery /\ NoQuery.generation = 0
  BY DEF NoQuery, Zero, Counters
<1>4. CASE UNCHANGED <<events, pending, usage, baseline>>
  <2>1. TelemetryTypeOK'
    BY <1>1, <1>3, <1>4 DEF TelemetryInv, TelemetryTypeOK
  <2>2. SpoolOrdered'
    BY <1>1, <1>4 DEF TelemetryInv, SpoolOrdered
  <2> QED BY <1>1, <1>4, <2>1, <2>2, UploadStands
<1>5. CASE /\ StillRunning(collecting) /\ events' = events \o new
           /\ pending' = [u \in Users |-> pending[u] + Delta(collecting, u)]
           /\ usage' = AddUsage(SumOver([u \in Users |-> Delta(collecting, u)]), turned)
           /\ baseline' = [generation |-> collecting.generation, counter |-> collecting.counter, status |-> status]
  <2>1. new \in Seq(EventRows) /\ \A i \in 1 .. Len(new) : new[i].kind # "traffic"
    BY <1>2, StatusTyped
  <2>2. /\ events' \in Seq(EventRows) /\ Len(events) <= Len(events')
        /\ \A u \in Users : Behind(events', u, totals'.cursor) = Behind(events, u, totals.cursor)
    BY <1>1, <1>5, <2>1, StatusKeeps
  <2>3. PICK d : d = [u \in Users |-> Delta(collecting, u)]
    OBVIOUS
  <2>4. d \in Counters
    BY <2>3, DeltaIs DEF Counters, TelemetryInv
  <2>5. pending' \in Counters
    <3>1. \A u \in Users : pending[u] \in Nat /\ d[u] \in Nat /\ pending'[u] = pending[u] + d[u]
      BY <1>5, <2>3, <2>4 DEF TelemetryInv, TelemetryTypeOK, Counters
    <3>2. pending' = [u \in Users |-> pending[u] + d[u]]
      BY <1>5, <2>3
    <3> QED BY <3>1, <3>2 DEF Counters
  <2>6. usage' \in [bytes : Nat, past : Nat]
    <3>1. PICK sum : sum = SumOver(d)
      OBVIOUS
    <3>2. sum \in Nat
      <4>1. SumOver(d) = Total(d, Users)
        BY DEF SumOver, Total
      <4>2. Total(d, Users) \in Nat
        BY <2>4, TelemetryAssumption, TotalUnfolds DEF Counters
      <4> QED BY <3>1, <4>1, <4>2
    <3>3. usage.bytes \in Nat /\ usage.past \in Nat /\ usage' = AddUsage(sum, turned)
      BY <1>5, <2>3, <3>1 DEF TelemetryInv, TelemetryTypeOK
    <3> QED BY <3>2, <3>3 DEF AddUsage
  <2>7. /\ baseline' \in BaselineRows
        /\ baseline'.generation = collecting.generation /\ baseline'.counter = collecting.counter
    <3>1. status \in Statuses
      BY <1>2 DEF StatusOf, Statuses
    <3> QED BY <1>5, <3>1 DEF TelemetryInv, TelemetryTypeOK, BaselineRows
  <2>8. TelemetryTypeOK'
    BY <1>1, <1>3, <2>2, <2>5, <2>6, <2>7 DEF TelemetryInv, TelemetryTypeOK
  <2>9. UsageSummed' /\ AccountsFit' /\ AnswerFits'
    BY <1>1, <1>5, <2>2, <2>7, <2>8, AppliedFits
  <2>10. CountersOrdered'
    <3>1. child.generation \in Nat \ {0} /\ collecting.generation = child.generation
      BY <1>5 DEF TelemetryInv, TelemetryTypeOK, StillRunning
    <3> QED BY <1>1, <1>3, <2>7, <3>1 DEF CountersOrdered
  <2>11. SpoolOrdered'
    BY <1>1, <2>2, SpoolGrows
  <2> QED BY <2>8, <2>9, <2>10, <2>11 DEF TelemetryInv
<1> QED BY <1>2, <1>4, <1>5 DEF ApplyCounters, Enqueued

\* A batch that is next moves what it holds from behind the cursor to the totals.
LEMMA IngestHolds ==
    ASSUME TelemetryInv, NEW b \in flights, Ingest(b)
    PROVE  TelemetryInv'
<1>1. /\ b.first = totals.cursor + 1 /\ totals' = [cursor |-> b.last, bytes |-> UpsertTrafficAggregate(b)]
      /\ UNCHANGED <<child, carried, collecting, baseline, pending, usage, events, retained, confirmed,
                     upload, flights>>
  BY DEF Ingest, IsNext
<1>2. /\ b.first \in Nat /\ b.last \in Nat /\ 1 <= b.first /\ b.first <= b.last /\ b.last <= Len(events)
      /\ totals.cursor \in Nat /\ events \in Seq(EventRows) /\ Len(events) \in Nat
  BY DEF TelemetryInv, TelemetryTypeOK, SpoolOrdered, FlightRows
<1>3. ASSUME NEW u \in Users
      PROVE  /\ Bytes(u, b.first, b.last) \in Nat
             /\ Behind(events, u, totals.cursor) = Bytes(u, b.first, b.last) + Behind(events, u, b.last)
  <2>1. PICK w, n : w = Weigh(events, u) /\ n = Len(events)
    OBVIOUS
  <2>2. \A x \in b.first .. n : w[x] \in Nat
    <3>1. b.first .. n \subseteq 1 .. Len(events)
      BY <1>2, <2>1
    <3> QED BY <1>2, <2>1, <3>1, Weights
  <2>3. Total(w, b.first .. n) = Total(w, b.first .. b.last) + Total(w, b.last + 1 .. n)
    <3>1. b.first \in Nat /\ b.last \in Nat /\ n \in Nat /\ b.first <= b.last + 1 /\ b.last <= n
      BY <1>2, <2>1
    <3> QED BY <2>2, <3>1, TotalSplits
  <2>4. Bytes(u, b.first, b.last) = Total(w, b.first .. b.last)
    <3>1. b.first \in Nat \ {0}
      BY <1>2
    <3> QED BY <1>2, <2>1, <3>1, BytesAre
  <2>5. Total(w, b.first .. b.last) \in Nat
    <3>1. PICK S : S = b.first .. b.last
      OBVIOUS
    <3>2. IsFiniteSet(S)
      <4>1. S \subseteq 1 .. Len(events)
        BY <1>2, <3>1
      <4>2. IsFiniteSet(1 .. Len(events))
        <5>1. 1 \in Int /\ Len(events) \in Int
          BY <1>2
        <5> QED BY <5>1, FS_Interval
      <4> QED BY <4>1, <4>2, FS_Subset
    <3>3. S \subseteq b.first .. n
      BY <1>2, <2>1, <3>1
    <3>4. Total(w, S) \in Nat
      BY <2>2, <3>2, <3>3, TotalUnfolds
    <3> QED BY <3>1, <3>4
  <2> QED BY <1>1, <2>1, <2>3, <2>4, <2>5 DEF Behind
<1>4. PICK sums : sums = UpsertTrafficAggregate(b)
  OBVIOUS
<1>5. \A u \in Users : sums[u] = totals.bytes[u] + Bytes(u, b.first, b.last) /\ totals.bytes[u] \in Nat
  BY <1>4, AccountsTyped DEF UpsertTrafficAggregate, TelemetryInv
<1>6. sums \in Counters
  BY <1>3, <1>4, <1>5 DEF UpsertTrafficAggregate, Counters
<1>7. totals'.cursor = b.last /\ totals'.bytes = sums
  BY <1>1, <1>4
<1>8. TelemetryTypeOK'
  BY <1>1, <1>2, <1>4, <1>6 DEF TelemetryInv, TelemetryTypeOK
<1>9. ASSUME NEW u \in Users
      PROVE  totals'.bytes[u] + Behind(events', u, totals'.cursor) + pending'[u]
               = totals.bytes[u] + Behind(events, u, totals.cursor) + pending[u]
  <2>1. totals.bytes[u] \in Nat /\ pending[u] \in Nat
    BY AccountsTyped DEF TelemetryInv
  <2>2. Behind(events, u, b.last) \in Nat
    BY <1>2, BehindTyped
  <2>3. totals'.bytes[u] = totals.bytes[u] + Bytes(u, b.first, b.last)
    BY <1>5, <1>7
  <2>4. Behind(events', u, totals'.cursor) = Behind(events, u, b.last) /\ pending' = pending
    BY <1>1, <1>7
  <2> QED BY <1>3, <2>1, <2>2, <2>3, <2>4
<1>10. AccountedFor' = AccountedFor
  BY <1>9 DEF AccountedFor
<1>11. UsageSummed' /\ AccountsFit' /\ AnswerFits'
  BY <1>1, <1>10, AccountsStand DEF TelemetryInv
<1>12. CountersOrdered'
  BY <1>1, CountersStand DEF TelemetryInv
<1>13. SpoolOrdered'
  <2>1. confirmed \in Nat /\ confirmed <= totals.cursor
    BY DEF TelemetryInv, TelemetryTypeOK, SpoolOrdered
  <2>2. confirmed' <= totals'.cursor /\ totals'.cursor <= Len(events')
    BY <1>1, <1>2, <1>7, <2>1
  <2> QED BY <1>1, <2>2 DEF TelemetryInv, SpoolOrdered
<1> QED BY <1>8, <1>11, <1>12, <1>13 DEF TelemetryInv

LEMMA SendBatchHolds ==
    ASSUME TelemetryInv, SendBatch
    PROVE  TelemetryInv'
<1>1. PICK b : b = Batch(upload.sequence)
  OBVIOUS
<1>2. /\ upload.sequence < Len(events) /\ flights' = flights \cup {b}
      /\ upload' = [at |-> "sent", sequence |-> b.last]
      /\ UNCHANGED <<child, carried, collecting, baseline, pending, usage, events, retained, confirmed, totals>>
  BY <1>1 DEF SendBatch
<1>3. upload.sequence \in Nat /\ Len(events) \in Nat /\ BatchLimit \in Nat \ {0}
  BY TelemetryAssumption DEF TelemetryInv, TelemetryTypeOK
<1>4. PICK last : last = IF Len(events) - upload.sequence < BatchLimit THEN Len(events)
                         ELSE upload.sequence + BatchLimit
  OBVIOUS
<1>5. b = [first |-> upload.sequence + 1, last |-> last]
  BY <1>1, <1>4 DEF Batch
<1>6. last \in Nat /\ upload.sequence + 1 <= last /\ last <= Len(events)
  BY <1>2, <1>3, <1>4
<1>7. b \in FlightRows /\ 1 <= b.first /\ b.first <= b.last /\ b.last <= Len(events)
  BY <1>3, <1>5, <1>6 DEF FlightRows
<1>8. TelemetryTypeOK'
  BY <1>2, <1>5, <1>6, <1>7 DEF TelemetryInv, TelemetryTypeOK
<1>9. SpoolOrdered'
  BY <1>2, <1>7 DEF TelemetryInv, SpoolOrdered
<1> QED BY <1>2, <1>8, <1>9, UploadStands

LEMMA TelemetryStep == TelemetryInv /\ [TelemetryNext]_telemetryVars => TelemetryInv'
<1> SUFFICES ASSUME TelemetryInv, [TelemetryNext]_telemetryVars PROVE TelemetryInv'
  OBVIOUS
<1>0. /\ NoQuery \in [generation : Nat, counter : Counters]
      /\ NoUpload \in [at : {"idle", "cursor", "sent"}, sequence : Nat]
      /\ totals.cursor \in Nat /\ upload.sequence \in Nat /\ retained \in Nat /\ confirmed \in Nat
      /\ retained <= confirmed + 1 /\ confirmed <= totals.cursor
  BY DEF NoQuery, NoUpload, Zero, Counters, TelemetryInv, TelemetryTypeOK, SpoolOrdered
<1>1. ASSUME NEW u \in Users, CarryTraffic(u) \/ FlushPending(u) PROVE TelemetryInv'
  BY <1>1, CarryTrafficHolds, FlushPendingHolds
<1>2. CASE RestartChild \/ RecordGeneration \/ QueryCounters \/ CheckpointUsage \/ SendBatch
  BY <1>2, ChildChangeHolds, QueryCountersHolds, CheckpointUsageHolds, SendBatchHolds
<1>9. ASSUME NEW turned \in BOOLEAN, ApplyCounters(turned) PROVE TelemetryInv'
  BY <1>9, ApplyCountersHolds
<1>10. ASSUME NEW code \in {"unavailable", "invalid"}, QueryFails(code) PROVE TelemetryInv'
  BY <1>10, QueryFailsHolds
<1>3. CASE Purge
  <2>1. /\ retained <= confirmed /\ retained' = retained + 1
        /\ UNCHANGED <<child, carried, collecting, baseline, pending, usage, events, confirmed, upload,
                       flights, totals>>
    BY <1>3 DEF Purge
  <2>2. TelemetryTypeOK'
    BY <1>0, <2>1 DEF TelemetryInv, TelemetryTypeOK
  <2>3. SpoolOrdered'
    BY <1>0, <2>1 DEF TelemetryInv, SpoolOrdered
  <2> QED BY <2>1, <2>2, <2>3, UploadStands
<1>4. CASE FetchCursor \/ EndUpload \/ CrashCollector
  <2>1. /\ upload' \in [at : {"idle", "cursor", "sent"}, sequence : Nat]
        /\ collecting' = collecting \/ collecting' = NoQuery
        /\ UNCHANGED <<child, carried, baseline, pending, usage, events, retained, confirmed, flights, totals>>
    BY <1>0, <1>4 DEF FetchCursor, EndUpload, CrashCollector
  <2>2. TelemetryTypeOK'
    BY <1>0, <2>1 DEF TelemetryInv, TelemetryTypeOK
  <2>3. SpoolOrdered'
    BY <2>1 DEF TelemetryInv, SpoolOrdered
  <2> QED BY <2>1, <2>2, <2>3, UploadStands
<1>5. CASE Acknowledged
  <2>1. /\ totals.cursor = upload.sequence
        /\ confirmed' = IF upload.sequence > confirmed THEN upload.sequence ELSE confirmed
        /\ upload' = [at |-> "cursor", sequence |-> upload.sequence]
        /\ UNCHANGED <<child, carried, collecting, baseline, pending, usage, events, retained, flights, totals>>
    BY <1>5 DEF Acknowledged
  <2>2. confirmed' \in Nat /\ retained <= confirmed' + 1 /\ confirmed' <= totals.cursor
    BY <1>0, <2>1
  <2>3. TelemetryTypeOK'
    BY <1>0, <2>1, <2>2 DEF TelemetryInv, TelemetryTypeOK
  <2>4. SpoolOrdered'
    BY <2>1, <2>2 DEF TelemetryInv, SpoolOrdered
  <2> QED BY <2>1, <2>3, <2>4, UploadStands
<1>6. ASSUME NEW b \in flights, LoseBatch(b) PROVE TelemetryInv'
  <2>1. /\ flights' = flights \ {b}
        /\ UNCHANGED <<child, carried, collecting, baseline, pending, usage, events, retained, confirmed,
                       upload, totals>>
    BY <1>6 DEF LoseBatch
  <2>2. TelemetryTypeOK'
    BY <2>1 DEF TelemetryInv, TelemetryTypeOK
  <2>3. SpoolOrdered'
    BY <2>1 DEF TelemetryInv, SpoolOrdered
  <2> QED BY <2>1, <2>2, <2>3, UploadStands
<1>7. ASSUME NEW b \in flights, Ingest(b) PROVE TelemetryInv'
  BY <1>7, IngestHolds
<1>8. CASE UNCHANGED telemetryVars
  <2>1. UNCHANGED <<child, carried, collecting, baseline, pending, usage, events, retained, confirmed,
                    upload, flights, totals>>
    BY <1>8 DEF telemetryVars
  <2>2. TelemetryTypeOK'
    BY <2>1 DEF TelemetryInv, TelemetryTypeOK
  <2>3. SpoolOrdered'
    BY <2>1 DEF TelemetryInv, SpoolOrdered
  <2> QED BY <2>1, <2>2, <2>3, UploadStands
<1> QED BY <1>1, <1>2, <1>3, <1>4, <1>5, <1>6, <1>7, <1>8, <1>9, <1>10 DEF TelemetryNext

LEMMA TelemetryStarts == TelemetryInit => TelemetryInv
<1> SUFFICES ASSUME TelemetryInit PROVE TelemetryInv
  OBVIOUS
<1>1. /\ child = [generation |-> 1, counter |-> Zero, fresh |-> FALSE] /\ carried = Zero /\ collecting = NoQuery
      /\ baseline = [generation |-> 0, counter |-> Zero, status |-> "none"] /\ pending = Zero
      /\ usage = [bytes |-> 0, past |-> 0]
      /\ events = <<>> /\ retained = 1 /\ confirmed = 0 /\ upload = NoUpload /\ flights = {}
      /\ totals = [cursor |-> 0, bytes |-> Zero]
  BY DEF TelemetryInit, NothingCollected, EmptySpool, NothingIngested
<1>2. Zero \in Counters /\ \A u \in Users : Zero[u] = 0
  BY DEF Zero, Counters
<1>3. events \in Seq(EventRows) /\ Len(events) = 0
  BY <1>1
<1>4. TelemetryTypeOK
  <2>1. child \in [generation : Nat \ {0}, counter : Counters, fresh : BOOLEAN]
    BY <1>1, <1>2
  <2>2. baseline \in BaselineRows
    BY <1>1, <1>2 DEF BaselineRows, Statuses
  <2> QED BY <1>1, <1>2, <1>3, <2>1, <2>2 DEF TelemetryTypeOK, NoQuery, NoUpload
<1>5. \A u \in Users : AccountedFor[u] = 0
  <2>1. ASSUME NEW u \in Users PROVE Behind(events, u, 0) = 0
    <3>1. 0 + 1 .. Len(events) = {} /\ IsFiniteSet({})
      BY <1>3, FS_EmptySet
    <3>2. Total(Weigh(events, u), {}) = 0
      BY <3>1, TotalZero
    <3> QED BY <3>1, <3>2 DEF Behind
  <2> QED BY <1>1, <1>2, <2>1 DEF AccountedFor
<1>6. UsageSummed
  <2>1. Total(AccountedFor, Users) = 0
    BY <1>5, TelemetryAssumption, TotalZero
  <2> QED BY <1>1, <2>1 DEF UsageSummed
<1>7. AccountsFit
  BY <1>1, <1>2, <1>5 DEF AccountsFit, Uncounted
<1>8. CountersOrdered /\ AnswerFits
  BY <1>1, <1>2 DEF CountersOrdered, AnswerFits, NoQuery
<1>9. SpoolOrdered
  BY <1>1, <1>3 DEF SpoolOrdered
<1> QED BY <1>4, <1>6, <1>7, <1>8, <1>9 DEF TelemetryInv

\* What was counted is somewhere exactly once, in Control's totals, in the spool behind its cursor
\* or pending; the provider's usage over its months is its sum, no more is charged than was carried,
\* and nothing is purged that Control has yet to ask for: whatever acknowledgement is lost, batch
\* late or repeated, month over, service dead or child restarted, under a new generation or under
\* its old one with counters that went back (telemetry.rs, policy.rs, sync.rs, ingest_telemetry of
\* db.rs), for every number of members, events and batches.
THEOREM TrafficCountedOnce == TelemetrySpec => []CountedOnce
<1>1. TelemetryInv => CountedOnce
  <2> SUFFICES ASSUME TelemetryInv PROVE CountedOnce
    OBVIOUS
  <2> DEFINE Accounts == [u \in Users |-> totals.bytes[u] + Bytes(u, totals.cursor + 1, Len(events)) + pending[u]]
  <2>1. ASSUME NEW u \in Users
        PROVE  Bytes(u, totals.cursor + 1, Len(events)) = Behind(events, u, totals.cursor)
    <3>1. totals.cursor + 1 \in Nat \ {0} /\ Len(events) \in Nat /\ Len(events) <= Len(events)
          /\ events \in Seq(EventRows)
      BY DEF TelemetryInv, TelemetryTypeOK
    <3> QED BY <3>1, BytesAre DEF Behind
  <2>2. Accounts = AccountedFor
    BY <2>1 DEF AccountedFor
  <2>3. usage.bytes + usage.past = SumOver(AccountedFor)
    BY DEF TelemetryInv, UsageSummed, SumOver, Total
  <2>4. ASSUME NEW u \in Users PROVE AccountedFor[u] <= carried[u]
    <3>1. AccountedFor[u] \in Nat /\ carried[u] \in Nat /\ Uncounted(u) \in Nat
      BY AccountsTyped, DeltaIs DEF TelemetryInv, Counters
    <3>2. AccountedFor[u] + Uncounted(u) <= carried[u]
      BY DEF TelemetryInv, AccountsFit
    <3> QED BY <3>1, <3>2
  <2>5. retained <= totals.cursor + 1 /\ confirmed <= totals.cursor
    <3>1. retained \in Nat /\ confirmed \in Nat /\ totals.cursor \in Nat
      BY DEF TelemetryInv, TelemetryTypeOK
    <3> QED BY <3>1 DEF TelemetryInv, SpoolOrdered
  <2>6. usage.bytes + usage.past = SumOver(Accounts) /\ \A u \in Users : Accounts[u] <= carried[u]
    <3> HIDE DEF Accounts
    <3> QED BY <2>2, <2>3, <2>4
  <2> QED BY <2>5, <2>6 DEF CountedOnce
<1> QED BY <1>1, TelemetryStarts, TelemetryStep, PTL DEF TelemetrySpec

-----------------------------------------------------------------------------
(* ConfigStore: the console's pair of files and the Xray it restarts *)

ConfigRows == [clients : SUBSET UserIds, setting : Nat, edit : Nat]
MetadataRows ==
    [exists : BOOLEAN, label : [UserIds -> Labels \cup {"none"}], noted : SUBSET UserIds, edit : Nat]
ServiceRequests == [kind : {"service"}, user : {"none"}, label : {"start", "stop", "restart"}]
SavingRows ==
    [at : {"idle", "read", "staged", "backup", "check", "metadata", "config", "rollback", "saved",
           "polling", "blind", "served"},
     request : Requests \cup ServiceRequests \cup {NoCommand},
     config : ConfigRows, metadata : MetadataRows, newConfig : ConfigRows, newMetadata : MetadataRows,
     backup : MetadataRows, pid : Nat, raced : BOOLEAN]
BrewedRows == [pid : Nat, runs : ConfigRows, wanted : {"none", "start", "stop", "restart"}, spawned : Nat]

ConsoleTypeOK ==
    /\ config \in ConfigRows /\ metadata \in MetadataRows
    /\ saving \in SavingRows /\ brewed \in BrewedRows
    /\ truth \in [config : ConfigRows, metadata : MetadataRows]
    /\ minted \in SUBSET UserIds

\* A file is as it was read, or somebody has edited it since.
Follows(now, read) == read.edit <= now.edit /\ (read.edit = now.edit => now = read)

Preparing == {"staged", "backup", "check", "metadata"}
Renaming == {"config", "rollback"}
Giving == {"create", "label"}

\* A command works on what the files were when it read them, and leaves what it made of it;
\* others only edit by hand.
ReadsStand ==
    /\ saving.at \in {"read"} \cup Preparing \cup Renaming => saving.request \in Requests
    /\ saving.at \in Preparing => Follows(metadata, saving.metadata)
    /\ saving.at = "check" => Follows(saving.backup, saving.metadata) /\ Follows(metadata, saving.backup)
    /\ saving.at \in {"metadata"} \cup Renaming => saving.backup = saving.metadata
    /\ saving.at \in Renaming => Follows(metadata, saving.newMetadata)
    /\ saving.at = "saved" /\ saving.request.kind \in Giving =>
         Follows(metadata, saving.newMetadata) /\ Follows(config, saving.newConfig)

\* In a pair, nobody but the user of the request is shown under its label.
Apart(r, c, m) == \A u \in c.clients \ {r.user} : LabelOf(u, m) # r.label

\* A label that is being given is nobody else's in the pair that the command makes.
LabelStands ==
    saving.at \in Preparing \cup Renaming \cup {"saved"} /\ saving.request.kind \in Giving =>
      Apart(saving.request, saving.newConfig, saving.newMetadata)

\* The pair on disk is the expected one, but between the two renames and after an edit
\* that no check could see.
PairStands ==
    /\ saving.at \notin Renaming \cup {"saved"} => config = truth.config /\ metadata = truth.metadata
    /\ saving.at = "metadata" /\ ~ saving.raced => metadata = saving.metadata
    /\ saving.at \in Renaming => config = truth.config
    /\ saving.at \in Renaming /\ ~ saving.raced =>
         metadata = saving.newMetadata /\ truth.metadata = saving.backup
    /\ saving.at = "saved" /\ ~ saving.raced => config = truth.config /\ metadata = truth.metadata

\* A process that a service command did not find when it began was started from the
\* configuration as it is, and nothing more is asked of it.
ServiceStands ==
    /\ saving.at \in {"polling", "served"} =>
         /\ Follows(config, saving.config)
         /\ brewed.pid \notin {0, saving.pid} => brewed.wanted = "none" /\ Follows(brewed.runs, saving.config)
    /\ saving.at = "served" /\ saving.request.label = "restart" => brewed.pid \notin {0, saving.pid}
    /\ saving.at \in {"polling", "blind"} => saving.request.kind = "service"

ConsoleInv == ConsoleTypeOK /\ ReadsStand /\ LabelStands /\ PairStands /\ ServiceStands

-----------------------------------------------------------------------------

LEMMA FollowsItself ==
    ASSUME NEW f, f.edit \in Nat
    PROVE  Follows(f, f)
  BY DEF Follows

LEMMA FollowsEdits ==
    ASSUME NEW f, NEW g, NEW h, f.edit \in Nat, g.edit \in Nat, h.edit = g.edit + 1, Follows(g, f)
    PROVE  Follows(h, f)
<1>1. f.edit <= h.edit /\ f.edit # h.edit
  BY DEF Follows
<1> QED BY <1>1 DEF Follows

LEMMA EditsTyped ==
    ASSUME ConsoleTypeOK
    PROVE  /\ config.edit \in Nat /\ metadata.edit \in Nat /\ saving.config.edit \in Nat
           /\ saving.metadata.edit \in Nat /\ saving.backup.edit \in Nat
           /\ saving.newConfig.edit \in Nat /\ saving.newMetadata.edit \in Nat /\ brewed.runs.edit \in Nat
<1>1. /\ saving.config \in ConfigRows /\ saving.newConfig \in ConfigRows /\ saving.metadata \in MetadataRows
      /\ saving.newMetadata \in MetadataRows /\ saving.backup \in MetadataRows
  BY DEF ConsoleTypeOK, SavingRows
<1>2. brewed.runs \in ConfigRows /\ config \in ConfigRows /\ metadata \in MetadataRows
  BY DEF ConsoleTypeOK, BrewedRows
<1> QED BY <1>1, <1>2 DEF ConfigRows, MetadataRows

LEMMA UnlockedTyped ==
    /\ FirstConfig \in ConfigRows /\ NoMetadata \in MetadataRows
    /\ Unlocked \in SavingRows
    /\ Unlocked.at = "idle" /\ Unlocked.raced = FALSE
<1>1. FirstConfig \in ConfigRows /\ NoMetadata \in MetadataRows
  BY DEF FirstConfig, NoMetadata, ConfigRows, MetadataRows
<1> QED BY <1>1 DEF Unlocked, SavingRows

\* What each command makes of the clients and of the labels; the rest of a file keeps its type.
LEMMA CreateMakes ==
    ASSUME NEW c \in ConfigRows, NEW m \in MetadataRows, NEW u \in UserIds, NEW l \in Labels,
           NEW pair, pair = CreateUser(c, m, u, l)
    PROVE  /\ pair.config \in ConfigRows /\ pair.metadata \in MetadataRows
           /\ pair.config.clients = c.clients \cup {u}
           /\ \A v \in UserIds : pair.metadata.label[v] = IF v = u THEN l ELSE m.label[v]
<1>1. pair.config = [clients |-> c.clients \cup {u}, setting |-> c.setting, edit |-> c.edit]
  BY DEF CreateUser, ConfigRows
<1>2. pair.metadata = [exists |-> TRUE, label |-> [m.label EXCEPT ![u] = l], noted |-> m.noted, edit |-> m.edit]
  BY DEF CreateUser, MetadataRows
<1>3. [m.label EXCEPT ![u] = l] \in [UserIds -> Labels \cup {"none"}]
  BY DEF MetadataRows
<1>4. pair.config \in ConfigRows
  BY <1>1 DEF ConfigRows
<1>5. pair.metadata \in MetadataRows
  BY <1>2, <1>3 DEF MetadataRows
<1>6. \A v \in UserIds : pair.metadata.label[v] = IF v = u THEN l ELSE m.label[v]
  BY <1>2 DEF MetadataRows
<1> QED BY <1>1, <1>2, <1>4, <1>5, <1>6

LEMMA LabelMakes ==
    ASSUME NEW c \in ConfigRows, NEW m \in MetadataRows, NEW u \in UserIds, NEW l \in Labels,
           NEW pair, pair = UpdateLabel(c, m, u, l)
    PROVE  /\ pair.config \in ConfigRows /\ pair.metadata \in MetadataRows
           /\ pair.config.clients = c.clients
           /\ \A v \in UserIds : pair.metadata.label[v] = IF v = u THEN l ELSE m.label[v]
<1>1. pair.config = c
  BY DEF UpdateLabel
<1>2. pair.metadata = [exists |-> TRUE, label |-> [m.label EXCEPT ![u] = l], noted |-> m.noted, edit |-> m.edit]
  BY DEF UpdateLabel, MetadataRows
<1>3. [m.label EXCEPT ![u] = l] \in [UserIds -> Labels \cup {"none"}]
  BY DEF MetadataRows
<1>4. pair.metadata \in MetadataRows
  BY <1>2, <1>3 DEF MetadataRows
<1>6. \A v \in UserIds : pair.metadata.label[v] = IF v = u THEN l ELSE m.label[v]
  BY <1>2 DEF MetadataRows
<1> QED BY <1>1, <1>2, <1>4, <1>6

LEMMA NoteMakes ==
    ASSUME NEW c \in ConfigRows, NEW m \in MetadataRows, NEW u \in UserIds,
           NEW pair, pair = UpdateNote(c, m, u)
    PROVE  /\ pair.config \in ConfigRows /\ pair.metadata \in MetadataRows
           /\ pair.config.clients = c.clients
           /\ pair.metadata.label = m.label
<1>1. pair.config = c
  BY DEF UpdateNote
<1>2. PICK noted \in SUBSET UserIds : noted = IF u \in m.noted THEN m.noted \ {u} ELSE m.noted \cup {u}
  BY DEF MetadataRows
<1>3. pair.metadata = [exists |-> TRUE, label |-> m.label, noted |-> noted, edit |-> m.edit]
  BY <1>2 DEF UpdateNote, MetadataRows
<1>4. pair.metadata \in MetadataRows
  BY <1>3 DEF MetadataRows
<1> QED BY <1>1, <1>3, <1>4

LEMMA SettingMakes ==
    ASSUME NEW c \in ConfigRows, NEW m \in MetadataRows, NEW pair, pair = UpdateConfig(c, m)
    PROVE  /\ pair.config \in ConfigRows /\ pair.metadata \in MetadataRows
           /\ pair.config.clients = c.clients
           /\ pair.metadata.label = m.label
<1>1. pair.config = [clients |-> c.clients, setting |-> c.setting + 1, edit |-> c.edit]
  BY DEF UpdateConfig, ConfigRows
<1>2. pair.metadata = [exists |-> TRUE, label |-> m.label, noted |-> m.noted, edit |-> m.edit]
  BY DEF UpdateConfig, MetadataRows
<1>3. c.setting + 1 \in Nat
  BY DEF ConfigRows
<1>4. pair.config \in ConfigRows
  BY <1>1, <1>3 DEF ConfigRows
<1>5. pair.metadata \in MetadataRows
  BY <1>2 DEF MetadataRows
<1> QED BY <1>1, <1>2, <1>4, <1>5

LEMMA DeleteMakes ==
    ASSUME NEW c \in ConfigRows, NEW m \in MetadataRows, NEW u \in UserIds,
           NEW pair, pair = DeleteUser(c, m, u)
    PROVE  /\ pair.config \in ConfigRows /\ pair.metadata \in MetadataRows
           /\ pair.config.clients = c.clients \ {u}
           /\ \A v \in UserIds : pair.metadata.label[v] = IF v = u THEN "none" ELSE m.label[v]
<1>1. pair.config = [clients |-> c.clients \ {u}, setting |-> c.setting, edit |-> c.edit]
  BY DEF DeleteUser, ConfigRows
<1>2. pair.metadata =
        [exists |-> TRUE, label |-> [m.label EXCEPT ![u] = "none"], noted |-> m.noted \ {u}, edit |-> m.edit]
  BY DEF DeleteUser, MetadataRows
<1>3. [m.label EXCEPT ![u] = "none"] \in [UserIds -> Labels \cup {"none"}]
  BY DEF MetadataRows
<1>4. pair.config \in ConfigRows
  BY <1>1 DEF ConfigRows
<1>5. pair.metadata \in MetadataRows
  BY <1>2, <1>3 DEF MetadataRows
<1>6. \A v \in UserIds : pair.metadata.label[v] = IF v = u THEN "none" ELSE m.label[v]
  BY <1>2 DEF MetadataRows
<1> QED BY <1>1, <1>2, <1>4, <1>5, <1>6

LEMMA CandidateTyped ==
    ASSUME NEW r \in Requests, NEW c \in ConfigRows, NEW m \in MetadataRows
    PROVE  Candidate(r, c, m).config \in ConfigRows /\ Candidate(r, c, m).metadata \in MetadataRows
<1>0. PICK pair : pair = Candidate(r, c, m)
  OBVIOUS
<1>1. CASE r.kind = "create"
  <2>1. PICK u \in UserIds, l \in Labels : pair = CreateUser(c, m, u, l)
    BY <1>0, <1>1 DEF Candidate, Requests
  <2> QED BY <1>0, <2>1, CreateMakes
<1>2. CASE r.kind = "label"
  <2>1. PICK u \in UserIds, l \in Labels : pair = UpdateLabel(c, m, u, l)
    BY <1>0, <1>2 DEF Candidate, Requests
  <2> QED BY <1>0, <2>1, LabelMakes
<1>3. CASE r.kind = "note"
  <2>1. PICK u \in UserIds : pair = UpdateNote(c, m, u)
    BY <1>0, <1>3 DEF Candidate, Requests
  <2> QED BY <1>0, <2>1, NoteMakes
<1>4. CASE r.kind = "update"
  <2>1. pair = UpdateConfig(c, m)
    BY <1>0, <1>4 DEF Candidate
  <2> QED BY <1>0, <2>1, SettingMakes
<1>5. CASE r.kind = "delete"
  <2>1. PICK u \in UserIds : pair = DeleteUser(c, m, u)
    BY <1>0, <1>5 DEF Candidate, Requests
  <2> QED BY <1>0, <2>1, DeleteMakes
<1> QED BY <1>1, <1>2, <1>3, <1>4, <1>5 DEF Requests

\* A command that gives a label was accepted because nobody else is shown under it.
LEMMA CandidateApart ==
    ASSUME NEW q \in Requests, q.kind \in Giving, NEW c \in ConfigRows, NEW m \in MetadataRows,
           Accepts(q, c, m), NEW pair, pair = Candidate(q, c, m)
    PROVE  Apart(q, pair.config, pair.metadata)
<1>1. PICK u \in UserIds, l \in Labels : u = q.user /\ l = q.label
  BY DEF Requests, Giving
<1>2. EnsureLabelUnique(c, m, l, {u})
  BY <1>1 DEF Giving, Accepts, EnsureLabelUnique
<1>3. /\ pair.config.clients \subseteq c.clients \cup {u}
      /\ \A v \in UserIds : pair.metadata.label[v] = IF v = u THEN l ELSE m.label[v]
  <2>1. CASE q.kind = "create"
    <3>1. pair = CreateUser(c, m, u, l)
      BY <1>1, <2>1 DEF Candidate
    <3> QED BY <3>1, CreateMakes
  <2>2. CASE q.kind = "label"
    <3>1. pair = UpdateLabel(c, m, u, l)
      BY <1>1, <2>2 DEF Candidate
    <3> QED BY <3>1, LabelMakes
  <2> QED BY <2>1, <2>2 DEF Giving
<1>4. ASSUME NEW v \in pair.config.clients \ {u} PROVE LabelOf(v, pair.metadata) # l
  <2>1. v \in c.clients \ {u} /\ v \in UserIds
    BY <1>3 DEF ConfigRows
  <2>2. LabelOf(v, pair.metadata) = LabelOf(v, m)
    BY <1>3, <2>1 DEF LabelOf
  <2> QED BY <1>2, <2>1, <2>2 DEF EnsureLabelUnique
<1> QED BY <1>1, <1>4 DEF Apart

\* A command that ends leaves the pair that is expected, or makes the pair it leaves expected.
LEMMA ReleasesHolds ==
    ASSUME ConsoleInv, NEW trusted \in BOOLEAN, Releases(trusted),
           config' = config, metadata' \in MetadataRows, UNCHANGED <<brewed, minted>>,
           trusted /\ ~ saving.raced => config' = truth.config /\ metadata' = truth.metadata
    PROVE  ConsoleInv'
<1>1. saving' = Unlocked
  BY DEF Releases
<1>2. /\ truth' \in [config : ConfigRows, metadata : MetadataRows]
      /\ truth'.config = config' /\ truth'.metadata = metadata'
  BY DEF Releases, ConsoleInv, ConsoleTypeOK
<1>3. ConsoleTypeOK'
  BY <1>1, <1>2, UnlockedTyped DEF ConsoleInv, ConsoleTypeOK
<1>4. (ReadsStand /\ LabelStands /\ PairStands /\ ServiceStands)'
  BY <1>1, <1>2, UnlockedTyped DEF ReadsStand, LabelStands, PairStands, ServiceStands, Preparing, Renaming
<1> QED BY <1>3, <1>4 DEF ConsoleInv

LEMMA RefusedHolds ==
    ASSUME ConsoleInv, Refused, saving.at \notin Renaming
    PROVE  ConsoleInv'
<1>1. Releases(TRUE) /\ UNCHANGED <<config, metadata, brewed, minted>>
  BY DEF Refused
<1>2. ~ saving.raced => config' = truth.config /\ metadata' = truth.metadata
  BY <1>1 DEF ConsoleInv, PairStands
<1> QED BY <1>1, <1>2, ReleasesHolds DEF ConsoleInv, ConsoleTypeOK

LEMMA ReadConfigHolds ==
    ASSUME ConsoleInv, NEW r \in Requests, ReadConfig(r)
    PROVE  ConsoleInv'
<1>1. UNCHANGED <<config, metadata, brewed, minted, truth>> /\ saving.at = "idle"
  BY DEF ReadConfig, LockConfigWrites
<1>2. saving' = [Unlocked EXCEPT !.at = "read", !.request = r, !.config = config]
  BY DEF ReadConfig
<1>3. saving' \in SavingRows /\ saving'.at = "read" /\ saving'.request = r /\ saving'.config = config
  BY <1>2, UnlockedTyped DEF ConsoleInv, ConsoleTypeOK, SavingRows
<1>4. ConsoleTypeOK'
  BY <1>1, <1>3 DEF ConsoleInv, ConsoleTypeOK
<1>5. ReadsStand' /\ LabelStands'
  BY <1>1, <1>3 DEF ReadsStand, LabelStands, Preparing, Renaming
<1>6. PairStands' /\ ServiceStands'
  BY <1>1, <1>3 DEF ConsoleInv, PairStands, ServiceStands, Preparing, Renaming
<1> QED BY <1>4, <1>5, <1>6 DEF ConsoleInv

LEMMA ReadMetadataHolds ==
    ASSUME ConsoleInv, ReadMetadata
    PROVE  ConsoleInv'
<1>0. saving.at = "read" /\ saving.request \in Requests /\ saving.config \in ConfigRows
  BY DEF ReadMetadata, ConsoleInv, ReadsStand, ConsoleTypeOK, SavingRows
<1>1. CASE ~ Accepts(saving.request, saving.config, metadata)
  <2>1. Refused
    BY <1>1 DEF ReadMetadata
  <2> QED BY <1>0, <2>1, RefusedHolds DEF Renaming
<1>2. CASE Accepts(saving.request, saving.config, metadata)
  <2>1. PICK pair : pair = Candidate(saving.request, saving.config, metadata)
    OBVIOUS
  <2>2. /\ saving' = [saving EXCEPT !.at = "staged", !.metadata = metadata,
                                    !.newConfig = pair.config, !.newMetadata = pair.metadata]
        /\ UNCHANGED <<config, metadata, brewed, truth>>
        /\ minted' = IF saving.request.kind = "create" THEN minted \cup {saving.request.user} ELSE minted
    BY <1>2, <2>1 DEF ReadMetadata
  <2>3. pair.config \in ConfigRows /\ pair.metadata \in MetadataRows
    BY <1>0, <2>1, CandidateTyped DEF ConsoleInv, ConsoleTypeOK
  <2>4. minted' \in SUBSET UserIds
    BY <1>0, <2>2 DEF ConsoleInv, ConsoleTypeOK, Requests
  <2>5. /\ saving' \in SavingRows /\ saving'.at = "staged" /\ saving'.metadata = metadata
        /\ saving'.config = saving.config /\ saving'.request = saving.request
        /\ saving'.newConfig = pair.config /\ saving'.newMetadata = pair.metadata
    BY <2>2, <2>3 DEF ConsoleInv, ConsoleTypeOK, SavingRows
  <2>6. ConsoleTypeOK'
    BY <2>2, <2>4, <2>5 DEF ConsoleInv, ConsoleTypeOK
  <2>7. Follows(metadata, metadata)
    BY EditsTyped, FollowsItself DEF ConsoleInv
  <2>8. ReadsStand' /\ LabelStands'
    <3>1. ReadsStand'
      BY <1>0, <2>2, <2>5, <2>7 DEF ReadsStand, Preparing, Renaming
    <3>2. saving.request.kind \in Giving => Apart(saving.request, pair.config, pair.metadata)
      BY <1>0, <1>2, <2>1, CandidateApart DEF ConsoleInv, ConsoleTypeOK
    <3> QED BY <2>5, <3>1, <3>2 DEF LabelStands
  <2>9. PairStands' /\ ServiceStands'
    BY <1>0, <2>2, <2>5 DEF ConsoleInv, PairStands, ServiceStands, Renaming
  <2> QED BY <2>6, <2>8, <2>9 DEF ConsoleInv
<1> QED BY <1>1, <1>2

\* A step of a save that only moves on, or also copies the metadata as backup.
LEMMA SaveMoves ==
    ASSUME ConsoleInv, NEW at, UNCHANGED <<config, metadata, brewed, minted, truth>>,
           \/ saving.at = "staged" /\ at = "backup"
           \/ saving.at = "check" /\ at = "metadata" /\ EnsureUnchanged
           \/ saving.at = "config" /\ at = "rollback",
           saving' = [saving EXCEPT !.at = at]
    PROVE  ConsoleInv'
<1>1. /\ saving' \in SavingRows /\ saving'.at = at /\ saving'.raced = saving.raced
      /\ saving'.request = saving.request /\ saving'.config = saving.config
      /\ saving'.metadata = saving.metadata /\ saving'.newMetadata = saving.newMetadata
      /\ saving'.newConfig = saving.newConfig /\ saving'.backup = saving.backup
  BY DEF ConsoleInv, ConsoleTypeOK, SavingRows
<1>2. ConsoleTypeOK'
  BY <1>1 DEF ConsoleInv, ConsoleTypeOK
<1>3. saving.at = "check" => saving.backup = saving.metadata
  <2> SUFFICES ASSUME saving.at = "check" PROVE saving.backup = saving.metadata
    OBVIOUS
  <2>1. metadata = saving.metadata
    BY DEF EnsureUnchanged
  <2>2. Follows(saving.backup, saving.metadata) /\ Follows(metadata, saving.backup)
    BY DEF ConsoleInv, ReadsStand
  <2>3. saving.backup.edit = saving.metadata.edit
    <3>1. saving.backup.edit \in Nat /\ saving.metadata.edit \in Nat
      BY EditsTyped DEF ConsoleInv
    <3>2. saving.metadata.edit <= saving.backup.edit /\ saving.backup.edit <= saving.metadata.edit
      BY <2>1, <2>2 DEF Follows
    <3> QED BY <3>1, <3>2
  <2> QED BY <2>2, <2>3 DEF Follows
<1>4. ReadsStand'
  BY <1>1, <1>3 DEF ConsoleInv, ReadsStand, Preparing, Renaming
<1>5. LabelStands'
  BY <1>1 DEF ConsoleInv, LabelStands, Preparing, Renaming
<1>6. PairStands' /\ ServiceStands'
  BY <1>1 DEF ConsoleInv, PairStands, ServiceStands, Renaming, EnsureUnchanged
<1> QED BY <1>2, <1>4, <1>5, <1>6 DEF ConsoleInv

LEMMA CreateBackupHolds ==
    ASSUME ConsoleInv, CreateBackup
    PROVE  ConsoleInv'
<1>0. saving.at = "backup"
  BY DEF CreateBackup
<1>1. CASE Refused
  BY <1>0, <1>1, RefusedHolds DEF Renaming
<1>2. CASE /\ saving' = [saving EXCEPT !.at = "check", !.backup = metadata]
           /\ UNCHANGED <<config, metadata, brewed, minted, truth, mishaps>>
  <2>1. /\ saving' \in SavingRows /\ saving'.at = "check" /\ saving'.backup = metadata
        /\ saving'.request = saving.request /\ saving'.newConfig = saving.newConfig
        /\ saving'.metadata = saving.metadata /\ saving'.newMetadata = saving.newMetadata
    BY <1>2 DEF ConsoleInv, ConsoleTypeOK, SavingRows
  <2>2. ConsoleTypeOK'
    BY <1>2, <2>1 DEF ConsoleInv, ConsoleTypeOK
  <2>3. Follows(metadata, metadata)
    BY EditsTyped, FollowsItself DEF ConsoleInv
  <2>4. ReadsStand'
    BY <1>0, <1>2, <2>1, <2>3 DEF ConsoleInv, ReadsStand, Preparing, Renaming
  <2>5. LabelStands'
    BY <1>0, <2>1 DEF ConsoleInv, LabelStands, Preparing
  <2>6. PairStands' /\ ServiceStands'
    BY <1>0, <1>2, <2>1 DEF ConsoleInv, PairStands, ServiceStands, Renaming
  <2> QED BY <2>2, <2>4, <2>5, <2>6 DEF ConsoleInv
<1> QED BY <1>1, <1>2 DEF CreateBackup

LEMMA PersistMetadataHolds ==
    ASSUME ConsoleInv, PersistMetadata
    PROVE  ConsoleInv'
<1>0. saving.at = "metadata"
  BY DEF PersistMetadata
<1>1. CASE Refused
  BY <1>0, <1>1, RefusedHolds DEF Renaming
<1>2. CASE /\ metadata' = saving.newMetadata
           /\ saving' = [saving EXCEPT !.at = "config"]
           /\ UNCHANGED <<config, brewed, minted, truth, mishaps>>
  <2>1. /\ saving' \in SavingRows /\ saving'.at = "config" /\ saving'.raced = saving.raced
        /\ saving'.request = saving.request /\ saving'.newConfig = saving.newConfig
        /\ saving'.metadata = saving.metadata /\ saving'.newMetadata = saving.newMetadata
        /\ saving'.backup = saving.backup /\ saving.newMetadata \in MetadataRows
    BY <1>2 DEF ConsoleInv, ConsoleTypeOK, SavingRows
  <2>2. ConsoleTypeOK'
    BY <1>2, <2>1 DEF ConsoleInv, ConsoleTypeOK
  <2>3. Follows(saving.newMetadata, saving.newMetadata)
    BY EditsTyped, FollowsItself DEF ConsoleInv
  <2>4. ReadsStand'
    BY <1>0, <1>2, <2>1, <2>3 DEF ConsoleInv, ReadsStand, Preparing, Renaming
  <2>5. LabelStands'
    BY <1>0, <2>1 DEF ConsoleInv, LabelStands, Preparing
  <2>6. PairStands' /\ ServiceStands'
    BY <1>0, <1>2, <2>1 DEF ConsoleInv, PairStands, ReadsStand, ServiceStands, Renaming
  <2> QED BY <2>2, <2>4, <2>5, <2>6 DEF ConsoleInv
<1> QED BY <1>1, <1>2 DEF PersistMetadata

LEMMA PersistConfigHolds ==
    ASSUME ConsoleInv, PersistConfig
    PROVE  ConsoleInv'
<1>0. saving.at = "config"
  BY DEF PersistConfig
<1>1. CASE saving' = [saving EXCEPT !.at = "rollback"] /\ UNCHANGED <<config, metadata, brewed, minted, truth>>
  BY <1>0, <1>1, SaveMoves
<1>2. CASE /\ config' = saving.newConfig
           /\ saving' = [saving EXCEPT !.at = "saved"]
           /\ truth' = [config |-> saving.newConfig, metadata |-> saving.newMetadata]
           /\ UNCHANGED <<metadata, brewed, minted, mishaps>>
  <2>1. /\ saving' \in SavingRows /\ saving'.at = "saved" /\ saving'.raced = saving.raced
        /\ saving'.request = saving.request /\ saving'.newConfig = saving.newConfig
        /\ saving'.newMetadata = saving.newMetadata
        /\ saving.newMetadata \in MetadataRows /\ saving.newConfig \in ConfigRows
    BY <1>2 DEF ConsoleInv, ConsoleTypeOK, SavingRows
  <2>2. ConsoleTypeOK'
    BY <1>2, <2>1 DEF ConsoleInv, ConsoleTypeOK
  <2>3. Follows(saving.newConfig, saving.newConfig)
    BY EditsTyped, FollowsItself DEF ConsoleInv
  <2>4. ReadsStand' /\ ServiceStands'
    BY <1>0, <1>2, <2>1, <2>3 DEF ConsoleInv, ReadsStand, ServiceStands, Preparing, Renaming
  <2>5. LabelStands'
    BY <1>0, <2>1 DEF ConsoleInv, LabelStands, Renaming
  <2>6. PairStands'
    BY <1>0, <1>2, <2>1 DEF ConsoleInv, PairStands, Renaming
  <2> QED BY <2>2, <2>4, <2>5, <2>6 DEF ConsoleInv
<1> QED BY <1>1, <1>2 DEF PersistConfig

LEMMA RestoreHolds ==
    ASSUME ConsoleInv, RestoreOptionalBackup
    PROVE  ConsoleInv'
<1>0. saving.at = "rollback" /\ UNCHANGED <<config, brewed, minted>>
  BY DEF RestoreOptionalBackup
<1>1. CASE metadata' = saving.backup /\ Releases(TRUE)
  <2>1. saving.backup \in MetadataRows
    BY DEF ConsoleInv, ConsoleTypeOK, SavingRows
  <2>2. ~ saving.raced => config' = truth.config /\ metadata' = truth.metadata
    BY <1>0, <1>1 DEF ConsoleInv, PairStands, Renaming
  <2> QED BY <1>0, <1>1, <2>1, <2>2, ReleasesHolds
<1>2. CASE UNCHANGED metadata /\ Releases(FALSE)
  BY <1>0, <1>2, ReleasesHolds DEF ConsoleInv, ConsoleTypeOK
<1> QED BY <1>1, <1>2 DEF RestoreOptionalBackup

LEMMA ConsoleDiesHolds ==
    ASSUME ConsoleInv, ConsoleDies
    PROVE  ConsoleInv'
<1>1. PICK trusted \in BOOLEAN : trusted = (saving.at \notin {"config", "rollback"})
  OBVIOUS
<1>2. Releases(trusted) /\ UNCHANGED <<config, metadata, brewed, minted>>
  BY <1>1 DEF ConsoleDies
<1>3. trusted /\ ~ saving.raced => config' = truth.config /\ metadata' = truth.metadata
  BY <1>1, <1>2 DEF ConsoleInv, PairStands, Renaming
<1> QED BY <1>2, <1>3, ReleasesHolds DEF ConsoleInv, ConsoleTypeOK

LEMMA EditConfigHolds ==
    ASSUME ConsoleInv, NEW clients \in SUBSET UserIds, EditConfig(clients)
    PROVE  ConsoleInv'
<1>1. /\ config' = [config EXCEPT !.edit = @ + 1, !.clients = clients]
      /\ truth' = [truth EXCEPT !.config.edit = @ + 1, !.config.clients = clients]
      /\ UNCHANGED <<metadata, brewed>> /\ minted' = minted \cup clients
      /\ saving' = [saving EXCEPT !.raced = @ \/ saving.at \in {"metadata", "config"}]
  BY DEF EditConfig
<1>2. /\ config' \in ConfigRows /\ config'.edit = config.edit + 1
      /\ config' = [clients |-> clients, setting |-> config.setting, edit |-> config.edit + 1]
  <2>1. config \in ConfigRows
    BY DEF ConsoleInv, ConsoleTypeOK
  <2>2. config' = [clients |-> clients, setting |-> config.setting, edit |-> config.edit + 1]
    BY <1>1, <2>1 DEF ConfigRows
  <2>3. config.edit + 1 \in Nat
    BY <2>1 DEF ConfigRows
  <2> QED BY <2>1, <2>2, <2>3 DEF ConfigRows
<1>3. PICK c : c = [clients |-> clients, setting |-> truth.config.setting, edit |-> truth.config.edit + 1]
  OBVIOUS
<1>4. c \in ConfigRows /\ (truth.config = config => c = config')
  BY <1>2, <1>3 DEF ConsoleInv, ConsoleTypeOK, ConfigRows
<1>5. truth' = [config |-> c, metadata |-> truth.metadata]
  BY <1>1, <1>3 DEF ConsoleInv, ConsoleTypeOK, ConfigRows
<1>6. PICK raced \in BOOLEAN : raced = (saving.raced \/ saving.at \in {"metadata", "config"})
  BY DEF ConsoleInv, ConsoleTypeOK, SavingRows
<1>7. /\ saving' \in SavingRows /\ saving'.at = saving.at /\ saving'.raced = raced
      /\ saving'.request = saving.request /\ saving'.config = saving.config
      /\ saving'.metadata = saving.metadata /\ saving'.newMetadata = saving.newMetadata
      /\ saving'.newConfig = saving.newConfig
      /\ saving'.backup = saving.backup /\ saving'.pid = saving.pid
  BY <1>1, <1>6 DEF ConsoleInv, ConsoleTypeOK, SavingRows
<1>8. ConsoleTypeOK'
  BY <1>1, <1>2, <1>4, <1>5, <1>7 DEF ConsoleInv, ConsoleTypeOK
<1>9. /\ Follows(config, saving.newConfig) => Follows(config', saving.newConfig)
      /\ Follows(config, saving.config) => Follows(config', saving.config)
  BY <1>2, EditsTyped, FollowsEdits DEF ConsoleInv
<1>10. ReadsStand' /\ LabelStands'
  BY <1>1, <1>7, <1>9 DEF ConsoleInv, ReadsStand, LabelStands
<1>11. PairStands'
  BY <1>1, <1>4, <1>5, <1>6, <1>7 DEF ConsoleInv, PairStands, Renaming
<1>12. ServiceStands'
  BY <1>1, <1>7, <1>9 DEF ConsoleInv, ServiceStands
<1> QED BY <1>8, <1>10, <1>11, <1>12 DEF ConsoleInv

LEMMA EditMetadataHolds ==
    ASSUME ConsoleInv, NEW u \in UserIds, NEW label \in Labels \cup {"none"}, EditMetadata(u, label)
    PROVE  ConsoleInv'
<1>1. /\ metadata' = [metadata EXCEPT !.edit = @ + 1, !.label[u] = label]
      /\ truth' = [truth EXCEPT !.metadata.edit = @ + 1, !.metadata.label[u] = label]
      /\ UNCHANGED <<config, brewed, minted>>
      /\ saving' = [saving EXCEPT !.raced = @ \/ saving.at \in {"metadata", "config", "rollback"}]
  BY DEF EditMetadata
<1>2. /\ metadata' \in MetadataRows /\ metadata'.edit = metadata.edit + 1
      /\ metadata' = [exists |-> metadata.exists, label |-> [metadata.label EXCEPT ![u] = label],
                      noted |-> metadata.noted, edit |-> metadata.edit + 1]
  <2>1. metadata' = [exists |-> metadata.exists, label |-> [metadata.label EXCEPT ![u] = label],
                     noted |-> metadata.noted, edit |-> metadata.edit + 1]
    BY <1>1 DEF ConsoleInv, ConsoleTypeOK, MetadataRows
  <2>2. [metadata.label EXCEPT ![u] = label] \in [UserIds -> Labels \cup {"none"}]
    BY DEF ConsoleInv, ConsoleTypeOK, MetadataRows
  <2> QED BY <2>1, <2>2 DEF ConsoleInv, ConsoleTypeOK, MetadataRows
<1>3. PICK m : m = [exists |-> truth.metadata.exists, label |-> [truth.metadata.label EXCEPT ![u] = label],
                    noted |-> truth.metadata.noted, edit |-> truth.metadata.edit + 1]
  OBVIOUS
<1>4. m \in MetadataRows /\ (truth.metadata = metadata => m = metadata')
  <2>1. [truth.metadata.label EXCEPT ![u] = label] \in [UserIds -> Labels \cup {"none"}]
    BY DEF ConsoleInv, ConsoleTypeOK, MetadataRows
  <2> QED BY <1>2, <1>3, <2>1 DEF ConsoleInv, ConsoleTypeOK, MetadataRows
<1>5. truth' = [config |-> truth.config, metadata |-> m]
  <2>1. truth \in [config : ConfigRows, metadata : MetadataRows] /\ truth.metadata \in MetadataRows
    BY DEF ConsoleInv, ConsoleTypeOK
  <2>2. [truth.metadata EXCEPT !.edit = @ + 1, !.label[u] = label] = m
    <3>1. PICK old \in MetadataRows : old = truth.metadata
      BY <2>1
    <3>2. PICK new : new = [old EXCEPT !.edit = @ + 1, !.label[u] = label]
      OBVIOUS
    <3>3. new = [exists |-> old.exists, label |-> [old.label EXCEPT ![u] = label],
                 noted |-> old.noted, edit |-> old.edit + 1]
      BY <3>2 DEF MetadataRows
    <3> QED BY <1>3, <3>1, <3>2, <3>3
  <2>3. truth' = [truth EXCEPT !.metadata = [truth.metadata EXCEPT !.edit = @ + 1, !.label[u] = label]]
    BY <1>1, <2>1 DEF MetadataRows
  <2> QED BY <2>1, <2>2, <2>3
<1>6. PICK raced \in BOOLEAN : raced = (saving.raced \/ saving.at \in {"metadata", "config", "rollback"})
  BY DEF ConsoleInv, ConsoleTypeOK, SavingRows
<1>7. /\ saving' \in SavingRows /\ saving'.at = saving.at /\ saving'.raced = raced
      /\ saving'.request = saving.request /\ saving'.config = saving.config
      /\ saving'.metadata = saving.metadata /\ saving'.newMetadata = saving.newMetadata
      /\ saving'.newConfig = saving.newConfig
      /\ saving'.backup = saving.backup /\ saving'.pid = saving.pid
  BY <1>1, <1>6 DEF ConsoleInv, ConsoleTypeOK, SavingRows
<1>8. ConsoleTypeOK'
  BY <1>1, <1>2, <1>4, <1>5, <1>7 DEF ConsoleInv, ConsoleTypeOK
<1>9. /\ Follows(metadata, saving.metadata) => Follows(metadata', saving.metadata)
      /\ Follows(metadata, saving.backup) => Follows(metadata', saving.backup)
      /\ Follows(metadata, saving.newMetadata) => Follows(metadata', saving.newMetadata)
  BY <1>2, EditsTyped, FollowsEdits DEF ConsoleInv
<1>10. ReadsStand' /\ LabelStands'
  BY <1>1, <1>7, <1>9 DEF ConsoleInv, ReadsStand, LabelStands
<1>11. PairStands'
  BY <1>1, <1>4, <1>5, <1>6, <1>7 DEF ConsoleInv, PairStands, Renaming
<1>12. ServiceStands'
  BY <1>1, <1>7 DEF ConsoleInv, ServiceStands
<1> QED BY <1>8, <1>10, <1>11, <1>12 DEF ConsoleInv

LEMMA ServiceBegins ==
    ASSUME ConsoleInv, NEW action \in {"start", "stop", "restart"},
           ServiceAction(action) \/ ServiceActionBlind(action)
    PROVE  ConsoleInv'
<1>1. PICK at \in {"polling", "blind"}, pid \in Nat :
         /\ saving' = [Unlocked EXCEPT !.at = at, !.pid = pid, !.config = config,
                                       !.request = [kind |-> "service", user |-> "none", label |-> action]]
         /\ at = "polling" => pid = brewed.pid
  BY DEF ServiceAction, ServiceActionBlind, SeenPid, ConsoleInv, ConsoleTypeOK, BrewedRows
<1>2. /\ brewed' = [brewed EXCEPT !.wanted = action] /\ UNCHANGED <<config, metadata, minted, truth>>
      /\ saving.at = "idle"
  BY DEF ServiceAction, ServiceActionBlind, LockConfigWrites
<1>3. PICK asked \in ServiceRequests : asked = [kind |-> "service", user |-> "none", label |-> action]
  BY DEF ServiceRequests
<1>4. /\ saving' \in SavingRows /\ saving'.at = at /\ saving'.pid = pid /\ saving'.config = config
      /\ saving'.request.kind = "service"
  BY <1>1, <1>3, UnlockedTyped DEF ConsoleInv, ConsoleTypeOK, SavingRows
<1>5. brewed' \in BrewedRows /\ brewed'.pid = brewed.pid
  BY <1>2 DEF ConsoleInv, ConsoleTypeOK, BrewedRows
<1>6. ConsoleTypeOK'
  BY <1>2, <1>4, <1>5 DEF ConsoleInv, ConsoleTypeOK
<1>7. ReadsStand' /\ LabelStands' /\ PairStands'
  BY <1>2, <1>4 DEF ConsoleInv, ReadsStand, LabelStands, PairStands, Preparing, Renaming
<1>8. ServiceStands'
  <2>1. Follows(config, config)
    BY EditsTyped, FollowsItself DEF ConsoleInv
  <2> QED BY <1>1, <1>2, <1>4, <1>5, <2>1 DEF ServiceStands
<1> QED BY <1>6, <1>7, <1>8 DEF ConsoleInv

LEMMA XrayMoves ==
    ASSUME ConsoleInv, XrayStops \/ XrayStarts
    PROVE  ConsoleInv'
<1>1. UNCHANGED <<config, metadata, saving, minted, truth>>
  BY DEF XrayStops, XrayStarts
<1>2. brewed' \in BrewedRows
  <2>1. CASE XrayStops
    BY <2>1, UnlockedTyped DEF XrayStops, ConsoleInv, ConsoleTypeOK, BrewedRows
  <2>2. CASE XrayStarts
    BY <2>2 DEF XrayStarts, ConsoleInv, ConsoleTypeOK, BrewedRows
  <2> QED BY <2>1, <2>2
<1>3. ConsoleTypeOK' /\ ReadsStand' /\ LabelStands' /\ PairStands'
  BY <1>1, <1>2 DEF ConsoleInv, ConsoleTypeOK, ReadsStand, LabelStands, PairStands
<1>4. ServiceStands'
  <2>1. CASE XrayStops
    <3>1. brewed'.pid = 0 /\ brewed.pid # 0 /\ brewed.wanted \in {"stop", "restart"}
      BY <2>1 DEF XrayStops, ConsoleInv, ConsoleTypeOK, BrewedRows
    <3> QED BY <1>1, <3>1 DEF ConsoleInv, ServiceStands
  <2>2. CASE XrayStarts
    <3>1. /\ brewed.pid = 0 /\ brewed'.pid = brewed.spawned + 1
          /\ brewed'.runs = config /\ brewed'.wanted = "none"
      BY <2>2 DEF XrayStarts
    <3> QED BY <1>1, <3>1 DEF ConsoleInv, ServiceStands
  <2> QED BY <2>1, <2>2
<1> QED BY <1>3, <1>4 DEF ConsoleInv

LEMMA PollHolds ==
    ASSUME ConsoleInv, PollSucceeds
    PROVE  ConsoleInv'
<1>1. /\ saving.at \in {"polling", "blind"} /\ ExpectedRunning /\ Restarted
      /\ UNCHANGED <<config, metadata, brewed, minted, truth>>
  BY DEF PollSucceeds
<1>0. saving.request.kind = "service"
  BY <1>1 DEF ConsoleInv, ServiceStands
<1>2. PICK at : at = IF saving.at = "blind" THEN "saved" ELSE "served"
  OBVIOUS
<1>3. saving' = [saving EXCEPT !.at = at]
  BY <1>2 DEF PollSucceeds, ConsoleInv, ConsoleTypeOK, SavingRows
<1>4. /\ saving' \in SavingRows /\ saving'.at = at /\ saving'.request = saving.request
      /\ saving'.config = saving.config /\ saving'.pid = saving.pid
  BY <1>2, <1>3 DEF ConsoleInv, ConsoleTypeOK, SavingRows
<1>5. ConsoleTypeOK'
  BY <1>1, <1>4 DEF ConsoleInv, ConsoleTypeOK
<1>6. ReadsStand' /\ PairStands'
  BY <1>0, <1>1, <1>2, <1>4 DEF ConsoleInv, ReadsStand, PairStands, Preparing, Renaming, Giving
<1>8. LabelStands'
  BY <1>0, <1>1, <1>2, <1>4 DEF LabelStands, Preparing, Renaming, Giving
<1>7. ServiceStands'
  <2>1. saving.request.label = "restart" => brewed.pid \notin {0, saving.pid}
    BY <1>1 DEF ExpectedRunning, Restarted
  <2> QED BY <1>1, <1>2, <1>4, <2>1 DEF ConsoleInv, ServiceStands
<1> QED BY <1>5, <1>6, <1>7, <1>8 DEF ConsoleInv

LEMMA ConsoleStep ==
    ConsoleInv /\ [ConfigNext]_configVars => ConsoleInv'
<1> SUFFICES ASSUME ConsoleInv, [ConfigNext]_configVars PROVE ConsoleInv'
  OBVIOUS
<1>1. CASE \E r \in Requests : ReadConfig(r)
  BY <1>1, ReadConfigHolds
<1>2. CASE ReadMetadata \/ CreateBackup \/ PersistMetadata \/ PersistConfig \/ RestoreOptionalBackup
  BY <1>2, ReadMetadataHolds, CreateBackupHolds, PersistMetadataHolds, PersistConfigHolds, RestoreHolds
<1>3. CASE StagingFails \/ AnswersCommand \/ ServiceActionFails \/ AnswersService
  <2>1. Refused /\ saving.at \notin Renaming
    BY <1>3 DEF StagingFails, AnswersCommand, ServiceActionFails, AnswersService, Renaming
  <2> QED BY <2>1, RefusedHolds
<1>4. CASE FirstCheck \/ SecondCheck
  <2>1. CASE Refused
    <3>1. saving.at \notin Renaming
      BY <1>4 DEF FirstCheck, SecondCheck, Renaming
    <3> QED BY <2>1, <3>1, RefusedHolds
  <2>2. CASE FirstCheck /\ ~ Refused
    <3>1. saving.at = "staged" /\ saving' = [saving EXCEPT !.at = "backup"]
          /\ UNCHANGED <<config, metadata, brewed, minted, truth>>
      BY <2>2 DEF FirstCheck
    <3> QED BY <3>1, SaveMoves
  <2>3. CASE SecondCheck /\ ~ Refused
    <3>1. saving.at = "check" /\ saving' = [saving EXCEPT !.at = "metadata"] /\ EnsureUnchanged
          /\ UNCHANGED <<config, metadata, brewed, minted, truth>>
      BY <2>3 DEF SecondCheck
    <3> QED BY <3>1, SaveMoves
  <2> QED BY <1>4, <2>1, <2>2, <2>3
<1>5. CASE \/ \E clients \in SUBSET UserIds : EditConfig(clients)
           \/ \E u \in UserIds, label \in Labels \cup {"none"} : EditMetadata(u, label)
           \/ ConsoleDies
  BY <1>5, EditConfigHolds, EditMetadataHolds, ConsoleDiesHolds
<1>6. CASE \E action \in {"start", "stop", "restart"} : ServiceAction(action) \/ ServiceActionBlind(action)
  BY <1>6, ServiceBegins
<1>7. CASE XrayStops \/ XrayStarts \/ PollSucceeds
  BY <1>7, XrayMoves, PollHolds
<1>8. CASE UNCHANGED configVars
  BY <1>8 DEF configVars, ConsoleInv, ConsoleTypeOK, ReadsStand, LabelStands, PairStands, ServiceStands
<1> QED BY <1>1, <1>2, <1>3, <1>4, <1>5, <1>6, <1>7, <1>8 DEF ConfigNext

LEMMA ConsoleStarts == ConfigInit => ConsoleInv
<1> SUFFICES ASSUME ConfigInit PROVE ConsoleInv
  OBVIOUS
<1>1. ConsoleTypeOK
  BY UnlockedTyped DEF ConfigInit, ConsoleTypeOK, BrewedRows
<1>2. ReadsStand /\ LabelStands /\ PairStands /\ ServiceStands
  BY UnlockedTyped DEF ConfigInit, ReadsStand, LabelStands, PairStands, ServiceStands, Preparing, Renaming
<1> QED BY <1>1, <1>2 DEF ConsoleInv

\* The files between two commands are what the commands that succeeded and the editors outside
\* left, a label that a command has just given is shown for no other user (config_store.rs), and a
\* restart that knew the process it replaced is answered with ok only when an Xray runs that has
\* every change saved before it (service_action_sync of lib.rs): for all labels, emails among them,
\* and every number of users, edits, failures and processes.
THEOREM ConsoleWordKept == ConfigSpec => []ConsoleKeepsItsWord
<1>1. ConsoleInv => SavedPairIsWhole
  <2> SUFFICES ASSUME ConsoleInv PROVE SavedPairIsWhole
    OBVIOUS
  <2>1. saving.at = "idle" => config = truth.config /\ metadata = truth.metadata
    BY DEF ConsoleInv, PairStands, Renaming
  <2>2. ASSUME saving.at = "saved", saving.request.kind \in {"create", "label"},
               config.edit = saving.newConfig.edit, metadata.edit = saving.newMetadata.edit
        PROVE  \A u \in config.clients \ {saving.request.user} : LabelOf(u, metadata) # saving.request.label
    <3>1. config = saving.newConfig /\ metadata = saving.newMetadata
      BY <2>2 DEF ConsoleInv, ReadsStand, Follows, Giving
    <3> QED BY <2>2, <3>1 DEF ConsoleInv, LabelStands, Apart, Giving
  <2> QED BY <2>1, <2>2 DEF SavedPairIsWhole
<1>2. ConsoleInv => RestartRunsSaved
  <2> SUFFICES ASSUME ConsoleInv, saving.at = "served", saving.request.label = "restart"
               PROVE  brewed.runs = saving.config \/ brewed.runs.edit > saving.config.edit
    BY DEF RestartRunsSaved
  <2>1. Follows(brewed.runs, saving.config)
    BY DEF ConsoleInv, ServiceStands
  <2>2. brewed.runs.edit \in Nat /\ saving.config.edit \in Nat
    BY EditsTyped DEF ConsoleInv
  <2> QED BY <2>1, <2>2 DEF Follows
<1> QED BY <1>1, <1>2, ConsoleStarts, ConsoleStep, PTL DEF ConfigSpec, ConsoleKeepsItsWord

-----------------------------------------------------------------------------
(* Subprocess: what a bounded command answers with *)

CommandTypeOK ==
    /\ process \in {"none", "running", "killed", "ok", "failed", "signalled"} /\ heir \in BOOLEAN
    /\ pipe \in [Pipes -> Nat] /\ written \in [Pipes -> Nat] /\ captured \in [Pipes -> Nat]
    /\ drained \in SUBSET Pipes /\ waited \in {"none", "ok", "failed", "signalled"} /\ late \in BOOLEAN
    /\ answer \in {"none", "output", "limit", "io", "timeout"}

\* What was written is in the pipe or was read, never past the limit; nobody writes to a
\* pipe whose end was read; the child is killed only with an answer, and a status that was
\* waited for is its own.
CommandInv ==
    /\ CommandTypeOK
    /\ \A s \in Pipes : written[s] = pipe[s] + captured[s] /\ captured[s] <= OutputLimit
    /\ drained # {} => ~ Writing /\ process # "none"
    /\ \A s \in drained : pipe[s] = 0
    /\ process = "none" => ~ heir /\ waited = "none"
    /\ waited # "none" => process = waited
    /\ answer = "none" => process # "killed"
    /\ answer = "output" => waited # "none" /\ drained = Pipes

\* A child that ended keeps its status when the runner gives up.
LEMMA GivesUpHolds ==
    ASSUME CommandInv, Selecting, TerminateChild, answer' \in {"limit", "io", "timeout"},
           UNCHANGED <<heir, pipe, written, captured, drained, waited, late>>
    PROVE  CommandInv'
<1>1. process' \in {process, "killed"} /\ (process' # process => waited = "none" /\ process = "running")
  BY DEF TerminateChild
<1>2. CommandTypeOK'
  BY <1>1 DEF CommandInv, CommandTypeOK
<1> QED BY <1>1, <1>2 DEF CommandInv, Writing, Selecting

LEMMA CommandStep == CommandInv /\ [SubprocessNext]_subprocessVars => CommandInv'
<1> SUFFICES ASSUME CommandInv, [SubprocessNext]_subprocessVars PROVE CommandInv'
  OBVIOUS
<1>0. /\ OutputLimit \in Nat /\ \A s \in Pipes : pipe[s] \in Nat /\ captured[s] \in Nat /\ written[s] \in Nat
  BY SubprocessAssumption DEF CommandInv, CommandTypeOK
<1>1. CASE SpawnChild
  BY <1>1 DEF SpawnChild, CommandInv, CommandTypeOK, Writing
<1>2. ASSUME NEW s \in Pipes, WriteOutput(s) PROVE CommandInv'
  <2>1. /\ Writing /\ pipe' = [pipe EXCEPT ![s] = @ + 1] /\ written' = [written EXCEPT ![s] = @ + 1]
        /\ UNCHANGED <<process, heir, captured, drained, waited, late, answer>>
    BY <1>2 DEF WriteOutput
  <2>2. CommandTypeOK'
    BY <1>0, <2>1 DEF CommandInv, CommandTypeOK
  <2>3. drained = {}
    BY <2>1 DEF CommandInv
  <2>4. ASSUME NEW t \in Pipes PROVE written'[t] = pipe'[t] + captured'[t] /\ captured'[t] <= OutputLimit
    BY <1>0, <2>1 DEF CommandInv, CommandTypeOK
  <2> QED BY <2>1, <2>2, <2>3, <2>4 DEF CommandInv, Writing
<1>3. CASE ForkHeir
  BY <1>3 DEF ForkHeir, CommandInv, CommandTypeOK, Writing
<1>4. CASE HeirEnds
  BY <1>4 DEF HeirEnds, CommandInv, CommandTypeOK, Writing
<1>5. ASSUME NEW code \in {"ok", "failed", "signalled"}, ChildEnds(code) PROVE CommandInv'
  BY <1>5 DEF ChildEnds, CommandInv, CommandTypeOK, Writing
<1>6. CASE DeadlinePasses
  BY <1>6 DEF DeadlinePasses, CommandInv, CommandTypeOK, Writing
<1>7. CASE WaitForChild
  BY <1>7 DEF WaitForChild, Selecting, WaitIsReady, CommandInv, CommandTypeOK, Writing
<1>8. ASSUME NEW s \in Pipes, ReadStream(s) PROVE CommandInv'
  <2>1. PICK n \in 1 .. pipe[s] :
          IF captured[s] + n > OutputLimit
          THEN /\ answer' = "limit" /\ TerminateChild /\ UNCHANGED <<pipe, captured>>
          ELSE /\ captured' = [captured EXCEPT ![s] = @ + n]
               /\ pipe' = [pipe EXCEPT ![s] = @ - n]
               /\ UNCHANGED <<process, answer>>
    BY <1>8 DEF ReadStream
  <2>2. Selecting /\ s \notin drained /\ UNCHANGED <<heir, written, drained, waited, late>>
    BY <1>8 DEF ReadStream
  <2>3. CASE captured[s] + n > OutputLimit
    BY <2>1, <2>2, <2>3, GivesUpHolds
  <2>4. CASE ~ (captured[s] + n > OutputLimit)
    <3>1. /\ captured' = [captured EXCEPT ![s] = @ + n] /\ pipe' = [pipe EXCEPT ![s] = @ - n]
          /\ UNCHANGED <<process, answer>>
      BY <2>1, <2>4
    <3>2. n \in Nat /\ pipe[s] - n \in Nat /\ captured[s] + n \in Nat /\ captured[s] + n <= OutputLimit
          /\ (pipe[s] - n) + (captured[s] + n) = pipe[s] + captured[s]
      BY <1>0, <2>4
    <3>3. CommandTypeOK'
      BY <2>2, <3>1, <3>2 DEF CommandInv, CommandTypeOK
    <3>4. ASSUME NEW t \in Pipes PROVE written'[t] = pipe'[t] + captured'[t] /\ captured'[t] <= OutputLimit
      BY <2>2, <3>1, <3>2 DEF CommandInv, CommandTypeOK
    <3>5. \A t \in drained : pipe'[t] = 0
      BY <2>2, <3>1 DEF CommandInv, CommandTypeOK
    <3> QED BY <2>2, <3>1, <3>3, <3>4, <3>5 DEF CommandInv, Writing
  <2> QED BY <2>3, <2>4
<1>9. ASSUME NEW s \in Pipes, ReadEnd(s) PROVE CommandInv'
  BY <1>9 DEF ReadEnd, Selecting, ReadIsReady, CommandInv, CommandTypeOK, Writing
<1>10. CASE ProcessIoFails
  BY <1>10, GivesUpHolds DEF ProcessIoFails
<1>11. CASE TimeOut
  BY <1>11, GivesUpHolds DEF TimeOut
<1>12. CASE CaptureOutput
  BY <1>12 DEF CaptureOutput, CommandInv, CommandTypeOK, Writing, Selecting
<1>13. CASE UNCHANGED subprocessVars
  BY <1>13 DEF subprocessVars, CommandInv, CommandTypeOK, Writing
<1> QED BY <1>1, <1>2, <1>3, <1>4, <1>5, <1>6, <1>7, <1>8, <1>9, <1>10, <1>11, <1>12, <1>13
        DEF SubprocessNext, RunnerStep

\* A bounded command that answers with output has all of it, within the limit, and the status
\* that the child ended with, whatever was written, left behind or late: Xray is never said to
\* reject a configuration because this runner killed its test; a signal from outside is a status
\* like any other and does reject it (run_bounded, test_config, validate_desired_state).
THEOREM AnswersWhole == SubprocessSpec => []AnswersAreWhole
<1>0. OutputLimit \in Nat
  BY SubprocessAssumption
<1>1. SubprocessInit => CommandInv
  <2> SUFFICES ASSUME SubprocessInit PROVE CommandInv
    OBVIOUS
  <2>1. CommandTypeOK
    BY DEF SubprocessInit, CommandTypeOK
  <2>2. \A s \in Pipes : written[s] = 0 /\ pipe[s] = 0 /\ captured[s] = 0
    BY DEF SubprocessInit
  <2>3. \A s \in Pipes : written[s] = pipe[s] + captured[s] /\ captured[s] <= OutputLimit
    BY <1>0, <2>2
  <2> QED BY <2>1, <2>3 DEF SubprocessInit, CommandInv, Writing
<1>2. CommandInv => AnswersAreWhole
  <2> SUFFICES ASSUME CommandInv, answer = "output" PROVE AnswersAreWhole
    BY DEF AnswersAreWhole, TestConfig
  <2>1. waited # "none" /\ drained = Pipes /\ process = waited /\ waited \in {"ok", "failed", "signalled"}
    BY DEF CommandInv, CommandTypeOK
  <2>2. \A s \in Pipes : captured[s] = written[s] /\ captured[s] <= OutputLimit
    <3>1. \A s \in Pipes : captured[s] \in Nat
      BY DEF CommandInv, CommandTypeOK
    <3> QED BY <2>1, <3>1 DEF CommandInv
  <2> QED BY <2>1, <2>2 DEF AnswersAreWhole, TestConfig
<1> QED BY <1>1, <1>2, CommandStep, PTL DEF SubprocessSpec

=============================================================================
