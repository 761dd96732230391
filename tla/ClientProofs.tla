---------------------------- MODULE ClientProofs ----------------------------
(***************************************************************************)
(* Proofs about Connect: the setup that turns a code into an installed     *)
(* account, the connection with its journal of the system's settings, and  *)
(* the sessions between the service's tables and Connect's vault.          *)
(***************************************************************************)
EXTENDS MemberSetup, Connect, Sessions, FiniteSetTheorems, NaturalsInduction,
        WellFoundedInduction, TLAPS

-----------------------------------------------------------------------------
(* MemberSetup: from a setup code to an installed account *)

MemberTypeOK ==
    /\ begun \in Nat /\ devices \in Nat /\ account \in Nat
    /\ Waiting \subseteq 1 .. begun /\ waiting \in [Waiting -> SetupCodes]
    /\ overdue \in SUBSET SetupCodes /\ cancelled \in SUBSET SetupCodes
    /\ runtime \in [pending : 0 .. begun, active : BOOLEAN]
    /\ confirming \in [at : {"idle", "checked", "activating", "bundle"}, session : 0 .. begun,
                       code : SetupCodes \cup {"none"}]
    /\ confirming.at = "idle" => confirming = NotConfirming
    /\ confirming.at # "idle" => confirming.session > 0 /\ confirming.code \in SetupCodes
    /\ keys \in [SetupCodes -> Nat] /\ activated \in [SetupCodes -> Nat]

\* An activation belongs to the keys that are still in the vault or to the account.
ActivationIsKept ==
    \A c \in SetupCodes : activated[c] # 0 /\ c \notin cancelled => activated[c] \in {keys[c], account}

\* Where a confirmation is tells what there is: none replaces an account, and no other has
\* its session.
ConfirmationFits ==
    /\ confirming.at # "idle" => confirming.session \notin Waiting
    /\ confirming.at = "checked" /\ runtime = NoRuntime => account = 0
    /\ confirming.at = "activating" =>
           runtime = NoRuntime /\ account = 0 /\ keys[confirming.code] # 0
    /\ confirming.at = "bundle" => runtime.pending = confirming.session

RuntimeHasAccount ==
    /\ runtime.pending # 0 \/ runtime.active => account # 0
    /\ runtime.pending # 0 => ~ runtime.active

\* The pending setup is the one whose activation made the account; its session waits, is
\* being confirmed or made room after its code expired.
PendingCode(c) ==
    /\ activated[c] = account
    /\ runtime.pending \in Waiting => waiting[runtime.pending] = c
    /\ confirming.session = runtime.pending => confirming.code = c
    /\ \/ runtime.pending \in Waiting
       \/ confirming.session = runtime.pending
       \/ c \in overdue

PendingIsKnown == runtime.pending # 0 => \E c \in SetupCodes : PendingCode(c)

MemberInv ==
    MemberTypeOK /\ ActivationIsKept /\ ConfirmationFits /\ RuntimeHasAccount /\ PendingIsKnown

\* lazy_restore activates the stored account's runtime and changes nothing else.
LEMMA RestoredRuntime ==
    ASSUME MemberTypeOK
    PROVE  /\ Restored \in [pending : 0 .. begun, active : BOOLEAN]
           /\ Restored.pending = runtime.pending
<1>1. PICK active \in BOOLEAN : active = (runtime.active \/ (runtime.pending = 0 /\ account # 0))
  OBVIOUS
<1>2. Restored = [runtime EXCEPT !.active = active]
  BY <1>1 DEF Restored
<1> QED BY <1>2 DEF MemberTypeOK

LEMMA RefuseConfirmationHolds == ASSUME MemberInv, RefuseConfirmation PROVE MemberInv'
<1> USE DEF MemberInv, MemberTypeOK, ActivationIsKept, ConfirmationFits, RuntimeHasAccount,
            RegistryIsIdle, NoRuntime, NotConfirming
<1>1. MemberTypeOK'
  BY DEF RefuseConfirmation, RestoreError, With, Waiting, LoadOrCreateActivationKeys, Without
<1>2. ActivationIsKept' BY DEF RefuseConfirmation, RestoreError, LoadOrCreateActivationKeys
<1>3. ConfirmationFits' /\ RuntimeHasAccount'
  BY DEF Waiting, With, Without, RefuseConfirmation, RestoreError, LoadOrCreateActivationKeys
<1>4. PendingIsKnown'
  BY DEF RefuseConfirmation, RestoreError, PendingIsKnown, PendingCode, With, Without, Waiting
<1> QED BY <1>1, <1>2, <1>3, <1>4

LEMMA ExpiredConfirmationHolds == ASSUME MemberInv, ExpiredConfirmation PROVE MemberInv'
<1> USE DEF MemberInv, MemberTypeOK, ActivationIsKept, ConfirmationFits, RuntimeHasAccount,
            RegistryIsIdle, NoRuntime, NotConfirming
<1>1. MemberTypeOK'
  BY DEF ExpiredConfirmation, RestoreError, With, Waiting, LoadOrCreateActivationKeys, Without
<1>2. ActivationIsKept' BY DEF ExpiredConfirmation, RestoreError, LoadOrCreateActivationKeys
<1>3. ConfirmationFits' /\ RuntimeHasAccount'
  BY DEF Waiting, With, Without, ExpiredConfirmation, RestoreError, LoadOrCreateActivationKeys
<1>4. PendingIsKnown'
  BY DEF ExpiredConfirmation, RestoreError, PendingIsKnown, PendingCode, With, Without, Waiting
<1> QED BY <1>1, <1>2, <1>3, <1>4

LEMMA ActivationFailsHolds == ASSUME MemberInv, ActivationFails PROVE MemberInv'
<1> USE DEF MemberInv, MemberTypeOK, ActivationIsKept, ConfirmationFits, RuntimeHasAccount,
            RegistryIsIdle, NoRuntime, NotConfirming
<1>1. MemberTypeOK'
  BY DEF ActivationFails, RestoreError, With, Waiting, LoadOrCreateActivationKeys, Without
<1>2. ActivationIsKept' BY DEF ActivationFails, RestoreError, LoadOrCreateActivationKeys
<1>3. ConfirmationFits' /\ RuntimeHasAccount'
  BY DEF Waiting, With, Without, ActivationFails, RestoreError, LoadOrCreateActivationKeys
<1>4. PendingIsKnown'
  BY DEF ActivationFails, RestoreError, PendingIsKnown, PendingCode, With, Without, Waiting
<1> QED BY <1>1, <1>2, <1>3, <1>4

LEMMA ResumePendingHolds == ASSUME MemberInv, ResumePending PROVE MemberInv'
<1> USE DEF MemberInv, MemberTypeOK, ActivationIsKept, ConfirmationFits, RuntimeHasAccount,
            RegistryIsIdle, NoRuntime, NotConfirming
<1>1. MemberTypeOK'
  BY DEF ResumePending, RestoreError, With, Waiting, LoadOrCreateActivationKeys, Without
<1>2. ActivationIsKept' BY DEF ResumePending, RestoreError, LoadOrCreateActivationKeys
<1>3. ConfirmationFits' /\ RuntimeHasAccount'
  BY DEF Waiting, With, Without, ResumePending, RestoreError, LoadOrCreateActivationKeys
<1>4. PendingIsKnown'
  BY DEF ResumePending, RestoreError, PendingIsKnown, PendingCode, With, Without, Waiting
<1> QED BY <1>1, <1>2, <1>3, <1>4

LEMMA BootstrapFailsHolds == ASSUME MemberInv, BootstrapFails PROVE MemberInv'
<1> USE DEF MemberInv, MemberTypeOK, ActivationIsKept, ConfirmationFits, RuntimeHasAccount,
            RegistryIsIdle, NoRuntime, NotConfirming
<1>1. MemberTypeOK'
  BY DEF BootstrapFails, RestoreError, With, Waiting, LoadOrCreateActivationKeys, Without
<1>2. ActivationIsKept' BY DEF BootstrapFails, RestoreError, LoadOrCreateActivationKeys
<1>3. ConfirmationFits' /\ RuntimeHasAccount'
  BY DEF Waiting, With, Without, BootstrapFails, RestoreError, LoadOrCreateActivationKeys
<1>4. PendingIsKnown'
  BY DEF BootstrapFails, RestoreError, PendingIsKnown, PendingCode, With, Without, Waiting
<1> QED BY <1>1, <1>2, <1>3, <1>4

LEMMA InstallRuntimeHolds == ASSUME MemberInv, InstallRuntime PROVE MemberInv'
<1> USE DEF MemberInv, MemberTypeOK, ActivationIsKept, ConfirmationFits, RuntimeHasAccount,
            RegistryIsIdle, NoRuntime, NotConfirming
<1>1. MemberTypeOK'
  BY DEF InstallRuntime, RestoreError, With, Waiting, LoadOrCreateActivationKeys, Without
<1>2. ActivationIsKept' BY DEF InstallRuntime, RestoreError, LoadOrCreateActivationKeys
<1>3. ConfirmationFits' /\ RuntimeHasAccount'
  BY DEF Waiting, With, Without, InstallRuntime, RestoreError, LoadOrCreateActivationKeys
<1>4. PendingIsKnown'
  BY DEF InstallRuntime, RestoreError, PendingIsKnown, PendingCode, With, Without, Waiting
<1> QED BY <1>1, <1>2, <1>3, <1>4

LEMMA BeginActivationHolds == ASSUME MemberInv, BeginActivation PROVE MemberInv'
<1> USE DEF MemberInv, MemberTypeOK, ActivationIsKept, ConfirmationFits, RuntimeHasAccount,
            RegistryIsIdle, NoRuntime, NotConfirming
<1>1. MemberTypeOK'
  BY DEF BeginActivation, RestoreError, With, Waiting, LoadOrCreateActivationKeys, Without
<1>2. ActivationIsKept' BY DEF BeginActivation, RestoreError, LoadOrCreateActivationKeys
<1>3. ConfirmationFits' /\ RuntimeHasAccount'
  BY DEF Waiting, With, Without, BeginActivation, RestoreError, LoadOrCreateActivationKeys
<1>4. PendingIsKnown'
  BY DEF BeginActivation, RestoreError, PendingIsKnown, PendingCode, With, Without, Waiting
<1> QED BY <1>1, <1>2, <1>3, <1>4

LEMMA ControlActivatesHolds == ASSUME MemberInv, ControlActivates PROVE MemberInv'
<1> USE DEF MemberInv, MemberTypeOK, ActivationIsKept, ConfirmationFits, RuntimeHasAccount,
            RegistryIsIdle, NoRuntime, NotConfirming
<1>1. MemberTypeOK'
  BY DEF ControlActivates, RestoreError, With, Waiting, LoadOrCreateActivationKeys, Without
<1>2. ActivationIsKept' BY DEF ControlActivates, RestoreError, LoadOrCreateActivationKeys
<1>3. ConfirmationFits' /\ RuntimeHasAccount'
  BY DEF Waiting, With, Without, ControlActivates, RestoreError, LoadOrCreateActivationKeys
<1>4. PendingIsKnown'
  BY DEF ControlActivates, RestoreError, PendingIsKnown, PendingCode, With, Without, Waiting
<1> QED BY <1>1, <1>2, <1>3, <1>4

LEMMA ActivationSucceedsHolds == ASSUME MemberInv, ActivationSucceeds PROVE MemberInv'
<1> USE DEF MemberInv, MemberTypeOK, ActivationIsKept, ConfirmationFits, RuntimeHasAccount,
            RegistryIsIdle, NoRuntime, NotConfirming
<1>1. MemberTypeOK'
  BY DEF ActivationSucceeds, RestoreError, With, Waiting, LoadOrCreateActivationKeys, Without
<1>2. ActivationIsKept' BY DEF ActivationSucceeds, RestoreError, LoadOrCreateActivationKeys
<1>3. ConfirmationFits' /\ RuntimeHasAccount'
  BY DEF Waiting, With, Without, ActivationSucceeds, RestoreError, LoadOrCreateActivationKeys
<1>4. PendingIsKnown'
  BY DEF ActivationSucceeds, RestoreError, PendingIsKnown, PendingCode, With, Without, Waiting
<1> QED BY <1>1, <1>2, <1>3, <1>4

LEMMA ConnectExitsHolds == ASSUME MemberInv, ConnectExits PROVE MemberInv'
<1> USE DEF MemberInv, MemberTypeOK, ActivationIsKept, ConfirmationFits, RuntimeHasAccount,
            RegistryIsIdle, NoRuntime, NotConfirming
<1>1. MemberTypeOK'
  BY DEF ConnectExits, RestoreError, With, Waiting, LoadOrCreateActivationKeys, Without
<1>2. ActivationIsKept' BY DEF ConnectExits, RestoreError, LoadOrCreateActivationKeys
<1>3. ConfirmationFits' /\ RuntimeHasAccount'
  BY DEF Waiting, With, Without, ConnectExits, RestoreError, LoadOrCreateActivationKeys
<1>4. PendingIsKnown'
  BY DEF ConnectExits, RestoreError, PendingIsKnown, PendingCode, With, Without, Waiting
<1> QED BY <1>1, <1>2, <1>3, <1>4

LEMMA BeginSessionHolds == ASSUME MemberInv, NEW code \in SetupCodes, BeginSession(code) PROVE MemberInv'
<1> USE DEF MemberInv, MemberTypeOK, ActivationIsKept, ConfirmationFits, RuntimeHasAccount,
            RegistryIsIdle, NoRuntime, NotConfirming
<1>1. MemberTypeOK' BY DEF BeginSession, AbortSetup, Without, Waiting, Restored
<1>2. ActivationIsKept' BY DEF BeginSession, AbortSetup
<1>3. ConfirmationFits' /\ RuntimeHasAccount'
  BY DEF Waiting, With, Without, BeginSession, AbortSetup, Restored
<1>4. PendingIsKnown'
  BY DEF BeginSession, AbortSetup, Restored, PendingIsKnown, PendingCode, Without, Waiting
<1> QED BY <1>1, <1>2, <1>3, <1>4

LEMMA CodeExpiresHolds == ASSUME MemberInv, NEW code \in SetupCodes, CodeExpires(code) PROVE MemberInv'
<1> USE DEF MemberInv, MemberTypeOK, ActivationIsKept, ConfirmationFits, RuntimeHasAccount,
            RegistryIsIdle, NoRuntime, NotConfirming
<1>1. MemberTypeOK' BY DEF CodeExpires, AbortSetup, Without, Waiting, Restored
<1>2. ActivationIsKept' BY DEF CodeExpires, AbortSetup
<1>3. ConfirmationFits' /\ RuntimeHasAccount'
  BY DEF Waiting, With, Without, CodeExpires, AbortSetup, Restored
<1>4. PendingIsKnown'
  BY DEF CodeExpires, AbortSetup, Restored, PendingIsKnown, PendingCode, Without, Waiting
<1> QED BY <1>1, <1>2, <1>3, <1>4

LEMMA CancelSetupHolds == ASSUME MemberInv, NEW s \in 1 .. begun, CancelSetup(s) PROVE MemberInv'
<1> USE DEF MemberInv, MemberTypeOK, ActivationIsKept, ConfirmationFits, RuntimeHasAccount,
            RegistryIsIdle, NoRuntime, NotConfirming
<1>1. MemberTypeOK'
  <2>1. runtime' \in [pending : 0 .. begun, active : BOOLEAN]
    <3>1. NoRuntime \in [pending : 0 .. begun, active : BOOLEAN] OBVIOUS
    <3>2. runtime' \in {NoRuntime, Restored} BY DEF CancelSetup, AbortSetup
    <3> QED BY <3>1, <3>2, RestoredRuntime
  <2> QED BY <2>1 DEF CancelSetup, AbortSetup, Without, Waiting
<1>2. ActivationIsKept' BY DEF CancelSetup, AbortSetup
<1>3. ConfirmationFits' /\ RuntimeHasAccount'
  BY DEF Waiting, With, Without, CancelSetup, AbortSetup, Restored
<1>4. PendingIsKnown'
  BY DEF CancelSetup, AbortSetup, Restored, PendingIsKnown, PendingCode, Without, Waiting
<1> QED BY <1>1, <1>2, <1>3, <1>4

LEMMA CheckOutHolds == ASSUME MemberInv, NEW s \in Waiting, CheckOut(s) PROVE MemberInv'
<1> USE DEF MemberInv, MemberTypeOK, ActivationIsKept, ConfirmationFits, RuntimeHasAccount,
            RegistryIsIdle, NoRuntime, NotConfirming
<1>1. MemberTypeOK'
  <2>1. runtime' \in [pending : 0 .. begun, active : BOOLEAN]
    BY RestoredRuntime DEF CheckOut, AbortSetup
  <2> QED BY <2>1 DEF CheckOut, AbortSetup, Without, Waiting
<1>2. ActivationIsKept' BY DEF CheckOut, AbortSetup
<1>3. ConfirmationFits' /\ RuntimeHasAccount'
  BY DEF Waiting, With, Without, CheckOut, AbortSetup, Restored
<1>4. PendingIsKnown'
  BY DEF CheckOut, AbortSetup, Restored, PendingIsKnown, PendingCode, Without, Waiting
<1> QED BY <1>1, <1>2, <1>3, <1>4

\* An activation that Control gave to a device is never lost and a pending setup can be
\* confirmed until its code expires, for every number of codes and sessions and every order
\* of confirmations, failures, cancellations and exits (confirm_setup, abort_setup).
THEOREM SetupKept == MemberSetupSpec => []SetupIsKept
<1>1. MemberSetupInit => MemberInv
  BY DEF MemberSetupInit, MemberInv, MemberTypeOK, ActivationIsKept, ConfirmationFits,
         RuntimeHasAccount, PendingIsKnown, Waiting, NoRuntime, NotConfirming
<1>2. MemberInv /\ [MemberSetupNext]_memberVars => MemberInv'
  <2> SUFFICES ASSUME MemberInv, [MemberSetupNext]_memberVars PROVE MemberInv'
    OBVIOUS
  <2>1. CASE \E code \in SetupCodes : BeginSession(code) \/ CodeExpires(code)
    BY <2>1, BeginSessionHolds, CodeExpiresHolds
  <2>2. CASE \E s \in 1 .. begun : CancelSetup(s) \/ (s \in Waiting /\ CheckOut(s))
    BY <2>2, CancelSetupHolds, CheckOutHolds
  <2>3. CASE UNCHANGED memberVars
    BY <2>3 DEF memberVars, MemberInv, MemberTypeOK, ActivationIsKept, ConfirmationFits,
                RuntimeHasAccount, PendingIsKnown, PendingCode, Waiting
  <2> QED BY <2>1, <2>2, <2>3, RefuseConfirmationHolds, ExpiredConfirmationHolds,
             BeginActivationHolds, ControlActivatesHolds, ActivationFailsHolds,
             ActivationSucceedsHolds, ResumePendingHolds, BootstrapFailsHolds,
             InstallRuntimeHolds, ConnectExitsHolds
          DEF MemberSetupNext
<1>3. MemberInv => SetupIsKept
  BY DEF MemberInv, MemberTypeOK, ActivationIsKept, RuntimeHasAccount, PendingIsKnown, PendingCode,
         SetupIsKept, RegistryIsIdle, NotConfirming
<1> QED BY <1>1, <1>2, <1>3, PTL DEF MemberSetupSpec

-----------------------------------------------------------------------------
(* Connect: the connection and the user's settings *)

Phases == {"disconnected", "starting", "connected", "stopping", "failed"}
ProxyModes == {"none", "system", "manual"}
OperationPoints ==
    {"idle", "fetch", "install", "activate", "apply", "stop", "take", "purge", "start", "begin", "await",
     "capture", "switch", "mark", "fail", "restore", "clear"}
RestoreSteps == {"recover", "stop", "apply", "rollback", "failed"}

CacheStates == [files : SUBSET Nat, pointer : Nat, damaged : SUBSET Nat, cut : BOOLEAN]
BundleStates == [generation : Nat, expired : BOOLEAN]
Selectors == [mode : Modes, active : Hosts \cup {"none"},
              health : [Hosts -> {"unknown", "healthy", "failed"}]]
Profiles == [node : Hosts \cup {"none"}, generation : Nat]
Supervisors == [phase : Phases, child : {"none", "running"}, recovered : BOOLEAN, profile : Profiles,
                mode : ProxyModes]
Settings == {"user", "connect", "mixed"}
Proxies == [settings : Settings, journal : {"none"} \cup Settings]
Continuations ==
    {"done", "none", "start", "starting", "purge"} \cup Phases
OperationStates == [pc : OperationPoints, step : {"none"} \cup RestoreSteps, then : Continuations,
               node : Hosts \cup {"none"}, mode : ProxyModes, generation : Nat]

\* Generations are issued one after the other.
IssuedInOrder == offered \in [Issued -> SUBSET Hosts] /\ \E n \in Nat : Issued = 1 .. n

ConnectTypeOK ==
    /\ cache \in CacheStates /\ bundle \in BundleStates /\ selector \in Selectors
    /\ xray \in Supervisors /\ exited \in BOOLEAN /\ monitor \in {"none", "restore", "clear"}
    /\ proxy \in Proxies /\ op \in OperationStates

\* restore_pending, of the step given.
RestoringFor(step) == op.pc \in {"restore", "clear"} /\ op.step = step

\* XraySupervisor::start from its first change of the state to its last.
StartUnderWay ==
    \/ op.pc \in {"await", "mark", "capture", "switch", "fail"}
    \/ RestoringFor("apply") \/ RestoringFor("rollback")

\* Nothing runs when a start is about to begin or the account's cache is about to go.
NothingRuns ==
    \/ op.pc \in {"purge", "start", "begin"}
    \/ RestoringFor("recover") /\ op.then = "starting"

\* Where an operation is tells what it carries.
OperationFits ==
    /\ op.pc = "idle" => op = Idle
    /\ op.pc \in {"restore", "clear"} => op.step \in RestoreSteps
    /\ op.pc = "fetch" => Issued # {}
    /\ op.pc \in {"install", "activate"} => op.generation \in Issued
    /\ op.pc = "stop" => op.then \in {"done", "start", "purge"}
    /\ op.pc \in {"fetch", "install", "activate", "apply"} => op.then \in {"none", "connected", "failed"}
    /\ op.pc \in {"start", "begin"} => op.then = "starting"
    /\ op.then \in {"start", "starting"} =>
           bundle.generation # 0 /\ op.node \in offered[bundle.generation]

\* The settings at the points where the lock of the proxy manager is held.
ProxyFits ==
    /\ op.pc \in {"clear", "capture"} => proxy.settings = "user"
    /\ op.pc = "switch" => proxy.journal = "user"
    /\ monitor = "clear" => proxy.settings = "user"
    /\ OperationHoldsProxy => monitor # "clear"

\* The supervisor's phase, its child and the operation agree.
ChildFits ==
    /\ xray.phase = "disconnected" => xray.child = "none"
    /\ RestoringFor("stop") => xray.child = "none"
    /\ RestoringFor("failed") => xray.phase = "failed"
    /\ StartUnderWay => xray.phase \in {"starting", "failed"}
    /\ xray.phase = "starting" => StartUnderWay
    /\ NothingRuns => xray.phase \in {"disconnected", "failed"}

\* What runs is of the bundle in force, until a refresh puts another in force and restarts it.
ProfileIsCurrent ==
    /\ bundle.generation # 0 /\ xray.profile.generation = bundle.generation
    /\ xray.profile.node \in offered[bundle.generation]

RunsInForce ==
    /\ StartUnderWay => ProfileIsCurrent
    /\ xray.phase = "connected" /\ op.pc \in {"idle", "fetch", "install", "activate"} => ProfileIsCurrent
    /\ xray.phase = "connected" /\ op.pc \in {"fetch", "install", "activate"} => op.then # "none"

\* The cache's pointer is never behind the bundle in force, and names a file, unless a purge
\* was cut short; an install goes on from both.
CacheFits ==
    /\ cache.files \subseteq Issued
    /\ bundle.generation # 0 => bundle.generation \in Issued
    /\ ~cache.cut => cache.pointer >= bundle.generation
    /\ ~cache.cut /\ cache.pointer # 0 => cache.pointer \in cache.files
    /\ op.pc = "activate" => op.generation = cache.pointer /\ op.generation # 0
    /\ op.pc = "install" => op.generation \in cache.files /\ op.generation >= bundle.generation

ConnectInv ==
    /\ ConnectTypeOK /\ IssuedInOrder /\ OperationFits /\ ProxyFits /\ ChildFits /\ RunsInForce /\ CacheFits
    /\ JournalHoldsUserSettings /\ DisconnectedIsClean

\* A set of naturals that is not empty has a least member.
LEMMA LeastNumber ==
    ASSUME NEW S, S \in SUBSET Nat, S # {}
    PROVE  \E m \in S : \A h \in S : m <= h
<1> DEFINE R == OpToRel(<, Nat)
<1>1. PICK m \in S : \A h \in S : ~ (<<h, m>> \in R)
  <2>1. IsWellFoundedOn(R, Nat) BY NatLessThanWellFounded
  <2> HIDE DEF R
  <2> QED BY <2>1, WFMin
<1>2. \A h \in S : ~ (h < m)
  BY <1>1 DEF OpToRel
<1> QED BY <1>2

\* The newest of some generations is one of them.
LEMMA NewestIsOne ==
    ASSUME NEW n \in Nat, NEW S, S \subseteq 1 .. n, S # {}
    PROVE  Newest(S) \in S /\ \A h \in S : h <= Newest(S)
<1> DEFINE Above == {k \in Nat : \A h \in S : h <= k}
<1>1. PICK m \in Above : \A h \in Above : m <= h
  <2>1. n \in Above OBVIOUS
  <2> HIDE DEF Above
  <2>2. Above \in SUBSET Nat BY DEF Above
  <2> QED BY <2>1, <2>2, LeastNumber
<1>2. m \in S
  <2> SUFFICES ASSUME m \notin S PROVE FALSE OBVIOUS
  <2>1. PICK h \in S : TRUE OBVIOUS
  <2>2. h \in Nat /\ h >= 1 /\ h <= m /\ m \in Nat BY <1>1
  <2>3. m - 1 \in Nat BY <2>2
  <2>4. \A k \in S : k \in Nat /\ k <= m /\ k # m BY <1>1
  <2>5. \A k \in S : k <= m - 1 BY <2>2, <2>4
  <2>6. m - 1 \in Above BY <2>3, <2>5
  <2>7. m <= m - 1 BY <1>1, <2>6
  <2> QED BY <2>2, <2>7
<1>3. \A h \in S : h <= m BY <1>1
<1>4. \E g \in S : \A h \in S : h <= g BY <1>2, <1>3
<1> QED BY <1>4 DEF Newest

\* A selection leaves a node active only if the bundle in force names it.
LEMMA SelectedIsCandidate ==
    ASSUME NEW s, s.mode \in Modes, NEW h \in Select(s), h # "none"
    PROVE  h \in Candidates
<1>1. CASE s.mode.kind = "manual"
  BY <1>1 DEF Select, SelectManual
<1>2. CASE s.mode.kind = "pinned"
  <2> DEFINE order == s.mode.order
             healthy == {i \in DOMAIN order : order[i] \in Healthy(s)}
             best == CHOOSE i \in healthy : \A j \in healthy : i <= j
  <2>1. h \in SelectPinned(s, order)
    BY <1>2 DEF Select
  <2>2. CASE healthy = {}
    BY <2>1, <2>2 DEF SelectPinned, ActiveFailed
  <2>3. CASE healthy # {}
    <3>1. healthy \in SUBSET Nat BY <1>2, ConnectAssumption
    <3>2. \E i \in healthy : \A j \in healthy : i <= j
      <4> HIDE DEF healthy
      <4> QED BY <2>3, <3>1, LeastNumber
    <3>3. best \in healthy
      <4> HIDE DEF healthy
      <4> QED BY <3>2
    <3>4. order[best] \in Candidates BY <3>3 DEF Healthy
    <3>5. h = order[best] \/ (h = s.active /\ ~ ActiveFailed(s))
      BY <2>1, <2>3 DEF SelectPinned
    <3> QED BY <3>4, <3>5 DEF ActiveFailed
  <2> QED BY <2>2, <2>3
<1>3. CASE s.mode.kind \notin {"manual", "pinned"}
  <2>1. h \in SelectAutomatic(s) BY <1>3 DEF Select
  <2> QED BY <2>1 DEF SelectAutomatic, BestAutomatic, Healthy, ActiveFailed
<1> QED BY <1>1, <1>2, <1>3

\* What follows a restoration, by the step it was called for.
LEMMA AfterRestoreDoes ==
    ASSUME NEW ok \in BOOLEAN, AfterRestore(ok), op.step \in RestoreSteps
    PROVE  /\ op.step = "recover" /\ ok =>
                 /\ xray' = [xray EXCEPT !.recovered = TRUE]
                 /\ op' = [op EXCEPT !.pc = IF op.then = "starting" THEN "begin" ELSE "take"]
           /\ op.step = "stop" /\ ok =>
                 /\ xray' = [xray EXCEPT !.recovered = TRUE, !.phase = "disconnected",
                                         !.profile = NoProfile, !.mode = "none"]
                 /\ op.then = "start" => op' = [op EXCEPT !.pc = "start", !.then = "starting"]
                 /\ op.then = "purge" => op' = [Idle EXCEPT !.pc = "purge"]
                 /\ op.then \notin {"start", "purge"} => op' = Idle
           /\ op.step = "failed" /\ ok => xray' = [xray EXCEPT !.recovered = TRUE] /\ op' = Idle
           /\ op.step = "apply" /\ ok => op' = [op EXCEPT !.pc = "capture"] /\ xray' = xray
           /\ op.step = "rollback" \/ (op.step = "apply" /\ ~ok) =>
                 op' = [op EXCEPT !.pc = "fail"] /\ xray' = xray
           /\ op.step \in {"recover", "stop", "failed"} /\ ~ok =>
                 xray' = [xray EXCEPT !.recovered = FALSE, !.phase = "failed"] /\ op' = Idle
  BY DEF AfterRestore, RestoreSteps

\* A process starts with the automatic mode and no node.
LEMMA NewSelectorFits == NewSelector \in Selectors
<1>1. (CHOOSE m \in Modes : m.kind = "automatic") \in Modes
  BY ConnectAssumption
<1> QED BY <1>1 DEF NewSelector, Selectors

\* Pruning keeps the active file and adds none.
LEMMA PruneKeeps ==
    ASSUME NEW n \in Nat, NEW files \in SUBSET (1 .. n), NEW active \in files
    PROVE  Prune(files, active) \subseteq files /\ active \in Prune(files, active)
<1>1. files \ {active} # {} => Newest(files \ {active}) \in files \ {active}
  BY NewestIsOne
<1> QED BY <1>1 DEF Prune

\* The newest generation the service issued.
LEMMA NewestIssued ==
    ASSUME ConnectInv, Issued # {}
    PROVE  /\ Newest(Issued) \in Issued /\ Newest(Issued) \in Nat \ {0}
           /\ \A h \in Issued : h <= Newest(Issued)
<1>1. PICK n \in Nat : Issued = 1 .. n BY DEF ConnectInv, IssuedInOrder
<1>2. Newest(Issued) \in Issued /\ \A h \in Issued : h <= Newest(Issued) BY <1>1, NewestIsOne
<1> QED BY <1>1, <1>2

LEMMA StopOperationHolds == ASSUME ConnectInv, StopOperation PROVE ConnectInv'
<1> USE DEF ConnectInv, ConnectTypeOK
<1>1. UNCHANGED <<cache, bundle, selector, xray, exited, monitor, proxy, offered>>
  BY DEF StopOperation
<1>2. op' \in OperationStates
  BY DEF StopOperation, OperationStates, OperationPoints, RestoreSteps, Continuations, Phases,
     ProxyModes, Supervisors, Idle
<1>3. ConnectTypeOK'
  BY <1>1, <1>2
<1>4. IssuedInOrder'
  BY <1>1 DEF IssuedInOrder, Issued
<1>5. OperationFits'
  BY <1>1 DEF StopOperation, OperationFits, RestoreSteps, Issued, Idle, CacheFits, OperationStates
<1>6. ProxyFits' /\ JournalHoldsUserSettings'
  BY <1>1 DEF StopOperation, ProxyFits, OperationHoldsProxy, MonitorHoldsProxy,
     JournalHoldsUserSettings, Idle, OperationStates, Proxies, OperationFits, RestoreSteps
<1>7. ChildFits'
  BY <1>1 DEF StopOperation, ChildFits, RestoringFor, StartUnderWay, NothingRuns, Idle,
     OperationStates, Supervisors, OperationFits
<1>8. RunsInForce'
  BY <1>1 DEF StopOperation, RunsInForce, ChildFits, ProfileIsCurrent, RestoringFor,
     StartUnderWay, NothingRuns, OperationFits, Idle, OperationStates, Supervisors, Profiles
<1>9. CacheFits'
  BY <1>1 DEF StopOperation, CacheFits, OperationFits, Idle, Issued, OperationStates, CacheStates,
     BundleStates
<1>10. DisconnectedIsClean'
  BY <1>1 DEF StopOperation, DisconnectedIsClean, ChildFits, ProxyFits, JournalHoldsUserSettings,
     RestoringFor, StartUnderWay, Supervisors, Proxies
<1> QED BY <1>3, <1>4, <1>5, <1>6, <1>7, <1>8, <1>9, <1>10

LEMMA LogoutOperationHolds == ASSUME ConnectInv, LogoutOperation PROVE ConnectInv'
<1> USE DEF ConnectInv, ConnectTypeOK
<1>1. UNCHANGED <<cache, bundle, selector, xray, exited, monitor, proxy, offered>>
  BY DEF LogoutOperation
<1>2. op' \in OperationStates
  BY DEF LogoutOperation, OperationStates, OperationPoints, RestoreSteps, Continuations, Phases,
     ProxyModes, Supervisors, Idle
<1>3. ConnectTypeOK'
  BY <1>1, <1>2
<1>4. IssuedInOrder'
  BY <1>1 DEF IssuedInOrder, Issued
<1>5. OperationFits'
  BY <1>1 DEF LogoutOperation, OperationFits, RestoreSteps, Issued, Idle, CacheFits, OperationStates
<1>6. ProxyFits' /\ JournalHoldsUserSettings'
  BY <1>1 DEF LogoutOperation, ProxyFits, OperationHoldsProxy, MonitorHoldsProxy,
     JournalHoldsUserSettings, Idle, OperationStates, Proxies, OperationFits, RestoreSteps
<1>7. ChildFits'
  BY <1>1 DEF LogoutOperation, ChildFits, RestoringFor, StartUnderWay, NothingRuns, Idle,
     OperationStates, Supervisors, OperationFits
<1>8. RunsInForce'
  BY <1>1 DEF LogoutOperation, RunsInForce, ChildFits, ProfileIsCurrent, RestoringFor,
     StartUnderWay, NothingRuns, OperationFits, Idle, OperationStates, Supervisors, Profiles
<1>9. CacheFits'
  BY <1>1 DEF LogoutOperation, CacheFits, OperationFits, Idle, Issued, OperationStates, CacheStates,
     BundleStates
<1>10. DisconnectedIsClean'
  BY <1>1 DEF LogoutOperation, DisconnectedIsClean, ChildFits, ProxyFits,
     JournalHoldsUserSettings, RestoringFor, StartUnderWay, Supervisors, Proxies
<1> QED BY <1>3, <1>4, <1>5, <1>6, <1>7, <1>8, <1>9, <1>10

LEMMA BeginRefreshHolds == ASSUME ConnectInv, BeginRefresh PROVE ConnectInv'
<1> USE DEF ConnectInv, ConnectTypeOK
<1>1. UNCHANGED <<cache, bundle, selector, xray, exited, monitor, proxy, offered>>
  BY DEF BeginRefresh, ActiveRecovery
<1>2. op' \in OperationStates
  BY DEF BeginRefresh, ActiveRecovery, OperationStates, OperationPoints, RestoreSteps, Continuations,
     Phases, ProxyModes, Supervisors, Idle
<1>3. ConnectTypeOK'
  BY <1>1, <1>2
<1>4. IssuedInOrder'
  BY <1>1 DEF IssuedInOrder, Issued
<1>5. OperationFits'
  BY <1>1 DEF BeginRefresh, ActiveRecovery, OperationFits, RestoreSteps, Issued, Idle, CacheFits,
     OperationStates
<1>6. ProxyFits' /\ JournalHoldsUserSettings'
  BY <1>1 DEF BeginRefresh, ActiveRecovery, ProxyFits, OperationHoldsProxy, MonitorHoldsProxy,
     JournalHoldsUserSettings, Idle, OperationStates, Proxies, OperationFits, RestoreSteps
<1>7. ChildFits'
  BY <1>1 DEF BeginRefresh, ActiveRecovery, ChildFits, RestoringFor, StartUnderWay, NothingRuns,
     Idle, OperationStates, Supervisors, OperationFits
<1>8. RunsInForce'
  <2>1. op.pc = "idle" /\ op'.then = (IF ActiveRecovery THEN xray.phase ELSE "none")
    BY DEF BeginRefresh, Idle
  <2>2. xray.phase = "connected" => ProfileIsCurrent /\ xray.profile.node \in Hosts
    BY <2>1 DEF RunsInForce, ProfileIsCurrent, IssuedInOrder, CacheFits
  <2>3. xray.phase = "connected" => op'.then = "connected"
    BY <2>1, <2>2, ConnectAssumption DEF ActiveRecovery
  <2>4. op'.pc = "fetch" BY DEF BeginRefresh, Idle
  <2> QED BY <1>1, <2>2, <2>3, <2>4 DEF RunsInForce, ProfileIsCurrent, RestoringFor, StartUnderWay
<1>9. CacheFits'
  BY <1>1 DEF BeginRefresh, ActiveRecovery, CacheFits, OperationFits, Idle, Issued, OperationStates,
     CacheStates, BundleStates
<1>10. DisconnectedIsClean'
  BY <1>1 DEF BeginRefresh, ActiveRecovery, DisconnectedIsClean, ChildFits, ProxyFits,
     JournalHoldsUserSettings, RestoringFor, StartUnderWay, Supervisors, Proxies
<1> QED BY <1>3, <1>4, <1>5, <1>6, <1>7, <1>8, <1>9, <1>10

LEMMA FetchFailsHolds == ASSUME ConnectInv, FetchFails PROVE ConnectInv'
<1> USE DEF ConnectInv, ConnectTypeOK
<1>1. UNCHANGED <<cache, bundle, selector, xray, exited, monitor, proxy, offered>>
  BY DEF FetchFails
<1>2. op' \in OperationStates
  BY DEF FetchFails, OperationStates, OperationPoints, RestoreSteps, Continuations, Phases,
     ProxyModes, Supervisors, Idle
<1>3. ConnectTypeOK'
  BY <1>1, <1>2
<1>4. IssuedInOrder'
  BY <1>1 DEF IssuedInOrder, Issued
<1>5. OperationFits'
  BY <1>1 DEF FetchFails, OperationFits, RestoreSteps, Issued, Idle, CacheFits, OperationStates
<1>6. ProxyFits' /\ JournalHoldsUserSettings'
  BY <1>1 DEF FetchFails, ProxyFits, OperationHoldsProxy, MonitorHoldsProxy,
     JournalHoldsUserSettings, Idle, OperationStates, Proxies, OperationFits, RestoreSteps
<1>7. ChildFits'
  BY <1>1 DEF FetchFails, ChildFits, RestoringFor, StartUnderWay, NothingRuns, Idle, OperationStates,
     Supervisors, OperationFits
<1>8. RunsInForce'
  BY <1>1 DEF FetchFails, RunsInForce, ChildFits, ProfileIsCurrent, RestoringFor, StartUnderWay,
     NothingRuns, OperationFits, Idle, OperationStates, Supervisors, Profiles
<1>9. CacheFits'
  BY <1>1 DEF FetchFails, CacheFits, OperationFits, Idle, Issued, OperationStates, CacheStates,
     BundleStates
<1>10. DisconnectedIsClean'
  BY <1>1 DEF FetchFails, DisconnectedIsClean, ChildFits, ProxyFits, JournalHoldsUserSettings,
     RestoringFor, StartUnderWay, Supervisors, Proxies
<1> QED BY <1>3, <1>4, <1>5, <1>6, <1>7, <1>8, <1>9, <1>10

LEMMA FetchNotModifiedHolds == ASSUME ConnectInv, FetchNotModified PROVE ConnectInv'
<1> USE DEF ConnectInv, ConnectTypeOK
<1>1. UNCHANGED <<cache, bundle, selector, xray, exited, monitor, proxy, offered>>
  BY DEF FetchNotModified
<1>2. op' \in OperationStates
  BY DEF FetchNotModified, OperationStates, OperationPoints, RestoreSteps, Continuations, Phases,
     ProxyModes, Supervisors, Idle
<1>3. ConnectTypeOK'
  BY <1>1, <1>2
<1>4. IssuedInOrder'
  BY <1>1 DEF IssuedInOrder, Issued
<1>5. OperationFits'
  BY <1>1 DEF FetchNotModified, OperationFits, RestoreSteps, Issued, Idle, CacheFits, OperationStates
<1>6. ProxyFits' /\ JournalHoldsUserSettings'
  BY <1>1 DEF FetchNotModified, ProxyFits, OperationHoldsProxy, MonitorHoldsProxy,
     JournalHoldsUserSettings, Idle, OperationStates, Proxies, OperationFits, RestoreSteps
<1>7. ChildFits'
  BY <1>1 DEF FetchNotModified, ChildFits, RestoringFor, StartUnderWay, NothingRuns, Idle,
     OperationStates, Supervisors, OperationFits
<1>8. RunsInForce'
  BY <1>1 DEF FetchNotModified, RunsInForce, ChildFits, ProfileIsCurrent, RestoringFor,
     StartUnderWay, NothingRuns, OperationFits, Idle, OperationStates, Supervisors, Profiles
<1>9. CacheFits'
  BY <1>1 DEF FetchNotModified, CacheFits, OperationFits, Idle, Issued, OperationStates, CacheStates,
     BundleStates
<1>10. DisconnectedIsClean'
  BY <1>1 DEF FetchNotModified, DisconnectedIsClean, ChildFits, ProxyFits,
     JournalHoldsUserSettings, RestoringFor, StartUnderWay, Supervisors, Proxies
<1> QED BY <1>3, <1>4, <1>5, <1>6, <1>7, <1>8, <1>9, <1>10

LEMMA InstallSameHolds == ASSUME ConnectInv, InstallSame PROVE ConnectInv'
<1> USE DEF ConnectInv, ConnectTypeOK
<1>0. /\ op.pc = "fetch" /\ op'.pc = "activate" /\ op'.generation = cache.pointer
      /\ op' = [op EXCEPT !.pc = "activate", !.generation = cache.pointer]
      /\ cache.pointer \in Issued /\ cache.pointer # 0
  BY NewestIssued DEF InstallSame, OperationFits, OperationStates
<1>1. UNCHANGED <<cache, bundle, selector, xray, exited, monitor, proxy, offered>>
  BY DEF InstallSame
<1>2. op' \in OperationStates
  BY DEF InstallSame, OperationStates, OperationPoints, CacheStates
<1>3. ConnectTypeOK'
  BY <1>1, <1>2
<1>4. IssuedInOrder'
  BY <1>1 DEF IssuedInOrder, Issued
<1>5. OperationFits'
  <2>1. op'.then = op.then /\ op'.then \in {"none", "connected", "failed"}
    BY <1>0 DEF OperationFits, OperationStates
  <2> QED BY <1>0, <1>1, <2>1 DEF OperationFits, Issued
<1>6. ProxyFits' /\ JournalHoldsUserSettings'
  BY <1>1 DEF InstallSame, ProxyFits, OperationHoldsProxy, MonitorHoldsProxy,
     JournalHoldsUserSettings, Idle, OperationStates, Proxies, OperationFits, RestoreSteps
<1>7. ChildFits'
  BY <1>1 DEF InstallSame, ChildFits, RestoringFor, StartUnderWay, NothingRuns, Idle, OperationStates,
     Supervisors, OperationFits
<1>8. RunsInForce'
  BY <1>1 DEF InstallSame, RunsInForce, ChildFits, ProfileIsCurrent, RestoringFor, StartUnderWay,
     NothingRuns, OperationFits, Idle, OperationStates, Supervisors, Profiles
<1>9. CacheFits'
  BY <1>0, <1>1 DEF CacheFits, Issued
<1>10. DisconnectedIsClean'
  BY <1>1 DEF InstallSame, DisconnectedIsClean, ChildFits, ProxyFits, JournalHoldsUserSettings,
     RestoringFor, StartUnderWay, Supervisors, Proxies
<1> QED BY <1>3, <1>4, <1>5, <1>6, <1>7, <1>8, <1>9, <1>10

LEMMA EnterStopHolds == ASSUME ConnectInv, EnterStop PROVE ConnectInv'
<1> USE DEF ConnectInv, ConnectTypeOK
<1>1. UNCHANGED <<cache, bundle, selector, xray, exited, monitor, proxy, offered>>
  BY DEF EnterStop, Restoring
<1>2. op' \in OperationStates
  BY DEF EnterStop, Restoring, OperationStates, OperationPoints, RestoreSteps, Continuations, Phases,
     ProxyModes, Supervisors, Idle
<1>3. ConnectTypeOK'
  BY <1>1, <1>2
<1>4. IssuedInOrder'
  BY <1>1 DEF IssuedInOrder, Issued
<1>5. OperationFits'
  BY <1>1 DEF EnterStop, Restoring, OperationFits, RestoreSteps, Issued, Idle, CacheFits, OperationStates
<1>6. ProxyFits' /\ JournalHoldsUserSettings'
  BY <1>1 DEF EnterStop, Restoring, ProxyFits, OperationHoldsProxy, MonitorHoldsProxy,
     JournalHoldsUserSettings, Idle, OperationStates, Proxies, OperationFits, RestoreSteps
<1>7. ChildFits'
  BY <1>1 DEF EnterStop, Restoring, ChildFits, RestoringFor, StartUnderWay, NothingRuns, Idle,
     OperationStates, Supervisors, OperationFits
<1>8. RunsInForce'
  BY <1>1 DEF EnterStop, Restoring, RunsInForce, ChildFits, ProfileIsCurrent, RestoringFor,
     StartUnderWay, NothingRuns, OperationFits, Idle, OperationStates, Supervisors, Profiles
<1>9. CacheFits'
  BY <1>1 DEF EnterStop, Restoring, CacheFits, OperationFits, Idle, Issued, OperationStates,
     CacheStates, BundleStates
<1>10. DisconnectedIsClean'
  BY <1>1 DEF EnterStop, Restoring, DisconnectedIsClean, ChildFits, ProxyFits,
     JournalHoldsUserSettings, RestoringFor, StartUnderWay, Supervisors, Proxies
<1> QED BY <1>3, <1>4, <1>5, <1>6, <1>7, <1>8, <1>9, <1>10

LEMMA EnterStartHolds == ASSUME ConnectInv, EnterStart PROVE ConnectInv'
<1> USE DEF ConnectInv, ConnectTypeOK
<1>1. UNCHANGED <<cache, bundle, selector, xray, exited, monitor, proxy, offered>>
  BY DEF EnterStart, Restoring
<1>2. op' \in OperationStates
  BY DEF EnterStart, Restoring, OperationStates, OperationPoints, RestoreSteps, Continuations, Phases,
     ProxyModes, Supervisors, Idle
<1>3. ConnectTypeOK'
  BY <1>1, <1>2
<1>4. IssuedInOrder'
  BY <1>1 DEF IssuedInOrder, Issued
<1>5. OperationFits'
  BY <1>1 DEF EnterStart, Restoring, OperationFits, RestoreSteps, Issued, Idle, CacheFits,
     OperationStates
<1>6. ProxyFits' /\ JournalHoldsUserSettings'
  BY <1>1 DEF EnterStart, Restoring, ProxyFits, OperationHoldsProxy, MonitorHoldsProxy,
     JournalHoldsUserSettings, Idle, OperationStates, Proxies, OperationFits, RestoreSteps
<1>7. ChildFits'
  BY <1>1 DEF EnterStart, Restoring, ChildFits, RestoringFor, StartUnderWay, NothingRuns, Idle,
     OperationStates, Supervisors, OperationFits
<1>8. RunsInForce'
  BY <1>1 DEF EnterStart, Restoring, RunsInForce, ChildFits, ProfileIsCurrent, RestoringFor,
     StartUnderWay, NothingRuns, OperationFits, Idle, OperationStates, Supervisors, Profiles
<1>9. CacheFits'
  BY <1>1 DEF EnterStart, Restoring, CacheFits, OperationFits, Idle, Issued, OperationStates,
     CacheStates, BundleStates
<1>10. DisconnectedIsClean'
  BY <1>1 DEF EnterStart, Restoring, DisconnectedIsClean, ChildFits, ProxyFits,
     JournalHoldsUserSettings, RestoringFor, StartUnderWay, Supervisors, Proxies
<1> QED BY <1>3, <1>4, <1>5, <1>6, <1>7, <1>8, <1>9, <1>10

LEMMA PortsReadyHolds == ASSUME ConnectInv, PortsReady PROVE ConnectInv'
<1> USE DEF ConnectInv, ConnectTypeOK
<1>1. UNCHANGED <<cache, bundle, selector, xray, exited, monitor, proxy, offered>>
  BY DEF PortsReady, Restoring
<1>2. op' \in OperationStates
  BY DEF PortsReady, Restoring, OperationStates, OperationPoints, RestoreSteps, Continuations, Phases,
     ProxyModes, Supervisors, Idle
<1>3. ConnectTypeOK'
  BY <1>1, <1>2
<1>4. IssuedInOrder'
  BY <1>1 DEF IssuedInOrder, Issued
<1>5. OperationFits'
  BY <1>1 DEF PortsReady, Restoring, OperationFits, RestoreSteps, Issued, Idle, CacheFits,
     OperationStates
<1>6. ProxyFits' /\ JournalHoldsUserSettings'
  BY <1>1 DEF PortsReady, Restoring, ProxyFits, OperationHoldsProxy, MonitorHoldsProxy,
     JournalHoldsUserSettings, Idle, OperationStates, Proxies, OperationFits, RestoreSteps
<1>7. ChildFits'
  BY <1>1 DEF PortsReady, Restoring, ChildFits, RestoringFor, StartUnderWay, NothingRuns, Idle,
     OperationStates, Supervisors, OperationFits
<1>8. RunsInForce'
  BY <1>1 DEF PortsReady, Restoring, RunsInForce, ChildFits, ProfileIsCurrent, RestoringFor,
     StartUnderWay, NothingRuns, OperationFits, Idle, OperationStates, Supervisors, Profiles
<1>9. CacheFits'
  BY <1>1 DEF PortsReady, Restoring, CacheFits, OperationFits, Idle, Issued, OperationStates,
     CacheStates, BundleStates
<1>10. DisconnectedIsClean'
  BY <1>1 DEF PortsReady, Restoring, DisconnectedIsClean, ChildFits, ProxyFits,
     JournalHoldsUserSettings, RestoringFor, StartUnderWay, Supervisors, Proxies
<1> QED BY <1>3, <1>4, <1>5, <1>6, <1>7, <1>8, <1>9, <1>10

LEMMA StartObservesExitHolds == ASSUME ConnectInv, StartObservesExit PROVE ConnectInv'
<1> USE DEF ConnectInv, ConnectTypeOK
<1>1. UNCHANGED <<cache, bundle, selector, xray, exited, monitor, proxy, offered>>
  BY DEF StartObservesExit
<1>2. op' \in OperationStates
  BY DEF StartObservesExit, OperationStates, OperationPoints, RestoreSteps, Continuations, Phases,
     ProxyModes, Supervisors, Idle
<1>3. ConnectTypeOK'
  BY <1>1, <1>2
<1>4. IssuedInOrder'
  BY <1>1 DEF IssuedInOrder, Issued
<1>5. OperationFits'
  BY <1>1 DEF StartObservesExit, OperationFits, RestoreSteps, Issued, Idle, CacheFits, OperationStates
<1>6. ProxyFits' /\ JournalHoldsUserSettings'
  BY <1>1 DEF StartObservesExit, ProxyFits, OperationHoldsProxy, MonitorHoldsProxy,
     JournalHoldsUserSettings, Idle, OperationStates, Proxies, OperationFits, RestoreSteps
<1>7. ChildFits'
  BY <1>1 DEF StartObservesExit, ChildFits, RestoringFor, StartUnderWay, NothingRuns, Idle,
     OperationStates, Supervisors, OperationFits
<1>8. RunsInForce'
  BY <1>1 DEF StartObservesExit, RunsInForce, ChildFits, ProfileIsCurrent, RestoringFor,
     StartUnderWay, NothingRuns, OperationFits, Idle, OperationStates, Supervisors, Profiles
<1>9. CacheFits'
  BY <1>1 DEF StartObservesExit, CacheFits, OperationFits, Idle, Issued, OperationStates, CacheStates,
     BundleStates
<1>10. DisconnectedIsClean'
  BY <1>1 DEF StartObservesExit, DisconnectedIsClean, ChildFits, ProxyFits,
     JournalHoldsUserSettings, RestoringFor, StartUnderWay, Supervisors, Proxies
<1> QED BY <1>3, <1>4, <1>5, <1>6, <1>7, <1>8, <1>9, <1>10

LEMMA StartTimesOutHolds == ASSUME ConnectInv, StartTimesOut PROVE ConnectInv'
<1> USE DEF ConnectInv, ConnectTypeOK
<1>1. UNCHANGED <<cache, bundle, selector, xray, exited, monitor, proxy, offered>>
  BY DEF StartTimesOut
<1>2. op' \in OperationStates
  BY DEF StartTimesOut, OperationStates, OperationPoints, RestoreSteps, Continuations, Phases,
     ProxyModes, Supervisors, Idle
<1>3. ConnectTypeOK'
  BY <1>1, <1>2
<1>4. IssuedInOrder'
  BY <1>1 DEF IssuedInOrder, Issued
<1>5. OperationFits'
  BY <1>1 DEF StartTimesOut, OperationFits, RestoreSteps, Issued, Idle, CacheFits, OperationStates
<1>6. ProxyFits' /\ JournalHoldsUserSettings'
  BY <1>1 DEF StartTimesOut, ProxyFits, OperationHoldsProxy, MonitorHoldsProxy,
     JournalHoldsUserSettings, Idle, OperationStates, Proxies, OperationFits, RestoreSteps
<1>7. ChildFits'
  BY <1>1 DEF StartTimesOut, ChildFits, RestoringFor, StartUnderWay, NothingRuns, Idle,
     OperationStates, Supervisors, OperationFits
<1>8. RunsInForce'
  BY <1>1 DEF StartTimesOut, RunsInForce, ChildFits, ProfileIsCurrent, RestoringFor,
     StartUnderWay, NothingRuns, OperationFits, Idle, OperationStates, Supervisors, Profiles
<1>9. CacheFits'
  BY <1>1 DEF StartTimesOut, CacheFits, OperationFits, Idle, Issued, OperationStates, CacheStates,
     BundleStates
<1>10. DisconnectedIsClean'
  BY <1>1 DEF StartTimesOut, DisconnectedIsClean, ChildFits, ProxyFits, JournalHoldsUserSettings,
     RestoringFor, StartUnderWay, Supervisors, Proxies
<1> QED BY <1>3, <1>4, <1>5, <1>6, <1>7, <1>8, <1>9, <1>10

LEMMA OfflineExpiresHolds == ASSUME ConnectInv, OfflineExpires PROVE ConnectInv'
<1> USE DEF ConnectInv, ConnectTypeOK
<1>1. UNCHANGED <<cache, selector, xray, exited, monitor, proxy, op, offered>>
  BY DEF OfflineExpires
<1>2. bundle' \in BundleStates
  BY DEF OfflineExpires, BundleStates, Idle
<1>3. ConnectTypeOK'
  BY <1>1, <1>2
<1>4. IssuedInOrder'
  BY <1>1 DEF IssuedInOrder, Issued
<1>5. OperationFits'
  BY <1>1 DEF OfflineExpires, OperationFits, RestoreSteps, Issued, Idle, CacheFits, OperationStates
<1>6. ProxyFits' /\ JournalHoldsUserSettings'
  BY <1>1 DEF OfflineExpires, ProxyFits, OperationHoldsProxy, MonitorHoldsProxy,
     JournalHoldsUserSettings, Idle, OperationStates, Proxies, OperationFits, RestoreSteps
<1>7. ChildFits'
  BY <1>1 DEF OfflineExpires, ChildFits, RestoringFor, StartUnderWay, NothingRuns, Idle,
     OperationStates, Supervisors, OperationFits
<1>8. RunsInForce'
  BY <1>1 DEF OfflineExpires, RunsInForce, ChildFits, ProfileIsCurrent, RestoringFor,
     StartUnderWay, NothingRuns, OperationFits, Idle, OperationStates, Supervisors, Profiles
<1>9. CacheFits'
  BY <1>1 DEF OfflineExpires, CacheFits, OperationFits, Idle, Issued, OperationStates, CacheStates,
     BundleStates
<1>10. DisconnectedIsClean'
  BY <1>1 DEF OfflineExpires, DisconnectedIsClean, ChildFits, ProxyFits,
     JournalHoldsUserSettings, RestoringFor, StartUnderWay, Supervisors, Proxies
<1> QED BY <1>3, <1>4, <1>5, <1>6, <1>7, <1>8, <1>9, <1>10

LEMMA PurgeHolds == ASSUME ConnectInv, Purge PROVE ConnectInv'
<1> USE DEF ConnectInv, ConnectTypeOK
<1>1. UNCHANGED <<xray, exited, monitor, proxy, offered>>
  BY DEF Purge, Discard
<1>2. cache' \in CacheStates
  BY DEF Purge, Discard, CacheStates, Idle
<1>3. bundle' \in BundleStates
  BY DEF Purge, Discard, BundleStates, Idle
<1>4. selector' \in Selectors
  BY DEF Purge, Discard, Selectors, Idle
<1>5. op' \in OperationStates
  BY DEF Purge, Discard, OperationStates, OperationPoints, RestoreSteps, Continuations, Phases, ProxyModes,
     Supervisors, Idle
<1>6. ConnectTypeOK'
  BY <1>1, <1>2, <1>3, <1>4, <1>5
<1>7. IssuedInOrder'
  BY <1>1 DEF IssuedInOrder, Issued
<1>8. OperationFits'
  BY <1>1 DEF Purge, Discard, OperationFits, RestoreSteps, Issued, Idle, CacheFits, OperationStates
<1>9. ProxyFits' /\ JournalHoldsUserSettings'
  BY <1>1 DEF Purge, Discard, ProxyFits, OperationHoldsProxy, MonitorHoldsProxy, JournalHoldsUserSettings,
     Idle, OperationStates, Proxies, OperationFits, RestoreSteps
<1>10. ChildFits'
  BY <1>1 DEF Purge, Discard, ChildFits, RestoringFor, StartUnderWay, NothingRuns, Idle, OperationStates,
     Supervisors, OperationFits
<1>11. RunsInForce'
  BY <1>1 DEF Purge, Discard, RunsInForce, ChildFits, ProfileIsCurrent, RestoringFor, StartUnderWay,
     NothingRuns, OperationFits, Idle, OperationStates, Supervisors, Profiles
<1>12. CacheFits'
  BY <1>1 DEF Purge, Discard, CacheFits, OperationFits, Idle, Issued, OperationStates, CacheStates, BundleStates
<1>13. DisconnectedIsClean'
  BY <1>1 DEF Purge, Discard, DisconnectedIsClean, ChildFits, ProxyFits, JournalHoldsUserSettings,
     RestoringFor, StartUnderWay, Supervisors, Proxies
<1> QED BY <1>6, <1>7, <1>8, <1>9, <1>10, <1>11, <1>12, <1>13

LEMMA PurgeFailsHolds == ASSUME ConnectInv, PurgeFails PROVE ConnectInv'
<1> USE DEF ConnectInv, ConnectTypeOK
<1>0. PICK left \in SUBSET cache.files, to \in {0, cache.pointer} :
        cache' = [cache EXCEPT !.files = left, !.pointer = to, !.cut = TRUE]
  BY DEF PurgeFails
<1>1. UNCHANGED <<xray, exited, monitor, proxy, offered>> /\ op.pc = "purge" /\ op' = Idle
  BY DEF PurgeFails
<1>2. cache' \in CacheStates /\ cache'.cut = TRUE /\ cache'.files = left
  <2>1. to \in Nat /\ left \in SUBSET Nat
    BY DEF CacheStates
  <2>2. cache' = [files |-> left, pointer |-> to, damaged |-> cache.damaged, cut |-> TRUE]
    BY <1>0 DEF CacheStates
  <2>3. cache.damaged \in SUBSET Nat
    BY DEF CacheStates
  <2> QED BY <2>1, <2>2, <2>3 DEF CacheStates
<1>3. bundle' \in BundleStates /\ (bundle'.generation = 0 \/ bundle' = bundle)
  <2>1. CASE Discard BY <2>1 DEF Discard, BundleStates
  <2>2. CASE bundle' = bundle BY <2>2
  <2> QED BY <2>1, <2>2 DEF PurgeFails
<1>4. selector' \in Selectors
  <2>1. CASE Discard BY <2>1 DEF Discard, Selectors
  <2>2. CASE selector' = selector BY <2>2
  <2> QED BY <2>1, <2>2 DEF PurgeFails
<1>5. op' \in OperationStates /\ op'.pc = "idle" /\ op'.then = "done"
  BY <1>1 DEF OperationStates, OperationPoints, RestoreSteps, Continuations, Phases, ProxyModes, Idle
<1>6. ConnectTypeOK'
  BY <1>1, <1>2, <1>3, <1>4, <1>5
<1>7. IssuedInOrder'
  BY <1>1 DEF IssuedInOrder, Issued
<1>8. OperationFits'
  BY <1>1, <1>5 DEF OperationFits
<1>9. ProxyFits' /\ JournalHoldsUserSettings'
  BY <1>1, <1>5 DEF ProxyFits, OperationHoldsProxy, JournalHoldsUserSettings
<1>10. ChildFits'
  BY <1>1, <1>5 DEF ChildFits, RestoringFor, StartUnderWay, NothingRuns
<1>11. RunsInForce'
  BY <1>1, <1>5 DEF RunsInForce, ChildFits, RestoringFor, StartUnderWay, NothingRuns
<1>12. CacheFits'
  BY <1>1, <1>2, <1>3, <1>5 DEF CacheFits, Issued
<1>13. DisconnectedIsClean'
  BY <1>1 DEF DisconnectedIsClean
<1> QED BY <1>6, <1>7, <1>8, <1>9, <1>10, <1>11, <1>12, <1>13

LEMMA InstallFileHolds == ASSUME ConnectInv, InstallFile PROVE ConnectInv'
<1> USE DEF ConnectInv, ConnectTypeOK
<1>0. /\ Newest(Issued) \in Issued /\ Newest(Issued) \in Nat \ {0}
      /\ \A h \in Issued : h <= Newest(Issued)
  BY NewestIssued DEF InstallFile, OperationFits
<1>1. UNCHANGED <<bundle, selector, xray, exited, monitor, proxy, offered>>
  BY DEF InstallFile
<1>2. cache' \in CacheStates
  BY <1>0 DEF InstallFile, CacheStates
<1>3. op' \in OperationStates
  BY <1>0 DEF InstallFile, OperationStates, OperationPoints
<1>4. ConnectTypeOK'
  BY <1>1, <1>2, <1>3
<1>5. IssuedInOrder'
  BY <1>1 DEF IssuedInOrder, Issued
<1>6. OperationFits'
  <2>1. op.pc = "fetch" /\ op' = [op EXCEPT !.pc = "install", !.generation = Newest(Issued)]
    BY DEF InstallFile
  <2>2. /\ op'.pc = "install" /\ op'.generation = Newest(Issued) /\ op'.then = op.then
        /\ op'.then \in {"none", "connected", "failed"}
    BY <2>1 DEF OperationStates, OperationFits
  <2> QED BY <1>0, <1>1, <2>2 DEF OperationFits, Issued
<1>7. ProxyFits' /\ JournalHoldsUserSettings'
  BY <1>1 DEF InstallFile, ProxyFits, OperationHoldsProxy, MonitorHoldsProxy,
     JournalHoldsUserSettings, Idle, OperationStates, Proxies, OperationFits, RestoreSteps
<1>8. ChildFits'
  BY <1>1 DEF InstallFile, ChildFits, RestoringFor, StartUnderWay, NothingRuns, Idle, OperationStates,
     Supervisors, OperationFits
<1>9. RunsInForce'
  BY <1>1 DEF InstallFile, RunsInForce, ChildFits, ProfileIsCurrent, RestoringFor, StartUnderWay,
     NothingRuns, OperationFits, Idle, OperationStates, Supervisors, Profiles
<1>10. CacheFits'
  <2>1. /\ op.pc = "fetch" /\ op' = [op EXCEPT !.pc = "install", !.generation = Newest(Issued)]
        /\ cache' = [cache EXCEPT !.files = @ \cup {Newest(Issued)}, !.damaged = @ \ {Newest(Issued)}]
    BY DEF InstallFile
  <2>2. /\ op'.pc = "install" /\ op'.generation = Newest(Issued)
        /\ cache'.files = cache.files \cup {Newest(Issued)} /\ cache'.pointer = cache.pointer
        /\ cache'.cut = cache.cut
    BY <2>1 DEF OperationStates, CacheStates
  <2>3. Newest(Issued) >= bundle.generation
    BY <1>0 DEF CacheFits, BundleStates
  <2> QED BY <1>0, <1>1, <2>1, <2>2, <2>3 DEF CacheFits, Issued
<1>11. DisconnectedIsClean'
  BY <1>1 DEF InstallFile, DisconnectedIsClean, ChildFits, ProxyFits, JournalHoldsUserSettings,
     RestoringFor, StartUnderWay, Supervisors, Proxies
<1> QED BY <1>4, <1>5, <1>6, <1>7, <1>8, <1>9, <1>10, <1>11

LEMMA InstallPointerHolds == ASSUME ConnectInv, InstallPointer PROVE ConnectInv'
<1> USE DEF ConnectInv, ConnectTypeOK
<1>0. /\ op.pc = "install" /\ op.generation \in cache.files /\ cache.files \subseteq Issued
      /\ cache' = [cache EXCEPT !.pointer = op.generation, !.files = Prune(@, op.generation), !.cut = FALSE]
      /\ op' = [op EXCEPT !.pc = "activate"]
      /\ Prune(cache.files, op.generation) \subseteq cache.files
      /\ op.generation \in Prune(cache.files, op.generation)
      /\ op.generation \in Nat \ {0}
  <2>1. PICK n \in Nat : Issued = 1 .. n BY DEF IssuedInOrder
  <2> QED BY <2>1, PruneKeeps DEF InstallPointer, CacheFits
<1>1. UNCHANGED <<bundle, selector, xray, exited, monitor, proxy, offered>>
  BY DEF InstallPointer, Prune
<1>2. cache' \in CacheStates
  BY <1>0 DEF CacheStates
<1>3. op' \in OperationStates
  BY DEF InstallPointer, Prune, OperationStates, OperationPoints, RestoreSteps, Continuations, Phases,
     ProxyModes, Supervisors, Idle
<1>4. ConnectTypeOK'
  BY <1>1, <1>2, <1>3
<1>5. IssuedInOrder'
  BY <1>1 DEF IssuedInOrder, Issued
<1>6. OperationFits'
  BY <1>1 DEF InstallPointer, Prune, OperationFits, RestoreSteps, Issued, Idle, CacheFits,
     OperationStates
<1>7. ProxyFits' /\ JournalHoldsUserSettings'
  BY <1>1 DEF InstallPointer, Prune, ProxyFits, OperationHoldsProxy, MonitorHoldsProxy,
     JournalHoldsUserSettings, Idle, OperationStates, Proxies, OperationFits, RestoreSteps
<1>8. ChildFits'
  BY <1>1 DEF InstallPointer, Prune, ChildFits, RestoringFor, StartUnderWay, NothingRuns, Idle,
     OperationStates, Supervisors, OperationFits
<1>9. RunsInForce'
  BY <1>1 DEF InstallPointer, Prune, RunsInForce, ChildFits, ProfileIsCurrent, RestoringFor,
     StartUnderWay, NothingRuns, OperationFits, Idle, OperationStates, Supervisors, Profiles
<1>10. CacheFits'
  <2>1. /\ op'.pc = "activate" /\ op'.generation = op.generation
        /\ cache'.files = Prune(cache.files, op.generation) /\ cache'.pointer = op.generation
    BY <1>0 DEF OperationStates, CacheStates
  <2>2. op.generation >= bundle.generation
    BY <1>0 DEF CacheFits
  <2> QED BY <1>0, <1>1, <2>1, <2>2 DEF CacheFits, Issued
<1>11. DisconnectedIsClean'
  BY <1>1 DEF InstallPointer, Prune, DisconnectedIsClean, ChildFits, ProxyFits,
     JournalHoldsUserSettings, RestoringFor, StartUnderWay, Supervisors, Proxies
<1> QED BY <1>4, <1>5, <1>6, <1>7, <1>8, <1>9, <1>10, <1>11

\* An install that fails leaves the pointer or moves it to a file that is there.
LEMMA InstallFailsHolds == ASSUME ConnectInv, InstallFails PROVE ConnectInv'
<1> USE DEF ConnectInv, ConnectTypeOK
<1>0. /\ op.pc = "install" /\ op.generation \in cache.files /\ cache.files \subseteq Issued
      /\ op.generation >= bundle.generation /\ op.generation \in Nat
      /\ Prune(cache.files, op.generation) \subseteq cache.files
      /\ op.generation \in Prune(cache.files, op.generation)
  <2>1. PICK n \in Nat : Issued = 1 .. n BY DEF IssuedInOrder
  <2> QED BY <2>1, PruneKeeps DEF InstallFails, CacheFits
<1>1. UNCHANGED <<bundle, selector, xray, exited, monitor, proxy, offered>>
  BY DEF InstallFails
<1>2. \/ cache' = cache
      \/ \E left : /\ left \subseteq cache.files /\ op.generation \in left
                   /\ cache' = [cache EXCEPT !.pointer = op.generation, !.files = left, !.cut = FALSE]
  BY <1>0 DEF InstallFails
<1>3. /\ cache' \in CacheStates /\ cache'.files \subseteq Issued
      /\ ~cache'.cut => cache'.pointer >= bundle.generation
      /\ ~cache'.cut /\ cache'.pointer # 0 => cache'.pointer \in cache'.files
  <2>1. CASE cache' = cache
    BY <2>1 DEF CacheFits
  <2>2. ASSUME NEW left, left \subseteq cache.files, op.generation \in left,
               cache' = [cache EXCEPT !.pointer = op.generation, !.files = left, !.cut = FALSE]
        PROVE  /\ cache' \in CacheStates /\ cache'.files \subseteq Issued
               /\ cache'.pointer >= bundle.generation /\ cache'.pointer \in cache'.files
    <3>1. cache' \in CacheStates /\ cache'.files = left /\ cache'.pointer = op.generation
      BY <1>0, <2>2 DEF CacheStates
    <3> QED BY <1>0, <2>2, <3>1
  <2> QED BY <1>2, <2>1, <2>2
<1>4. /\ op' \in OperationStates /\ op'.pc \in {"idle", "stop"} /\ op'.then = "done"
      /\ op'.pc = "idle" => op' = Idle
  BY DEF InstallFails, OperationStates, OperationPoints, RestoreSteps, Continuations, Phases, ProxyModes, Idle
<1>5. ConnectTypeOK'
  BY <1>1, <1>3, <1>4
<1>6. IssuedInOrder'
  BY <1>1 DEF IssuedInOrder, Issued
<1>7. OperationFits'
  BY <1>1, <1>4 DEF OperationFits
<1>8. ProxyFits' /\ JournalHoldsUserSettings'
  BY <1>1, <1>4 DEF ProxyFits, OperationHoldsProxy, JournalHoldsUserSettings
<1>9. ChildFits'
  BY <1>0, <1>1, <1>4 DEF ChildFits, RestoringFor, StartUnderWay, NothingRuns
<1>10. RunsInForce'
  BY <1>0, <1>1, <1>4 DEF RunsInForce, ProfileIsCurrent, RestoringFor, StartUnderWay
<1>11. CacheFits'
  BY <1>1, <1>3, <1>4 DEF CacheFits, Issued
<1>12. DisconnectedIsClean'
  BY <1>1 DEF DisconnectedIsClean
<1> QED BY <1>5, <1>6, <1>7, <1>8, <1>9, <1>10, <1>11, <1>12

LEMMA ActivateVerifiedHolds == ASSUME ConnectInv, ActivateVerified PROVE ConnectInv'
<1> USE DEF ConnectInv, ConnectTypeOK
<1>1. UNCHANGED <<cache, xray, exited, monitor, proxy, offered>>
  BY DEF ActivateVerified, ReconcileBundle
<1>2. bundle' \in BundleStates
  BY DEF ActivateVerified, OperationStates, BundleStates
<1>3. selector' \in Selectors
  BY DEF ActivateVerified, ReconcileBundle, Selectors, Idle
<1>4. op' \in OperationStates
  BY DEF ActivateVerified, ReconcileBundle, OperationStates, OperationPoints, RestoreSteps,
     Continuations, Phases, ProxyModes, Supervisors, Idle
<1>5. ConnectTypeOK'
  BY <1>1, <1>2, <1>3, <1>4
<1>6. IssuedInOrder'
  BY <1>1 DEF IssuedInOrder, Issued
<1>7. OperationFits'
  BY <1>1 DEF ActivateVerified, ReconcileBundle, OperationFits, RestoreSteps, Issued, Idle,
     CacheFits, OperationStates
<1>8. ProxyFits' /\ JournalHoldsUserSettings'
  BY <1>1 DEF ActivateVerified, ReconcileBundle, ProxyFits, OperationHoldsProxy,
     MonitorHoldsProxy, JournalHoldsUserSettings, Idle, OperationStates, Proxies, OperationFits,
     RestoreSteps
<1>9. ChildFits'
  BY <1>1 DEF ActivateVerified, ReconcileBundle, ChildFits, RestoringFor, StartUnderWay,
     NothingRuns, Idle, OperationStates, Supervisors, OperationFits
<1>10. RunsInForce'
  BY <1>1 DEF ActivateVerified, ReconcileBundle, RunsInForce, ChildFits, ProfileIsCurrent,
     RestoringFor, StartUnderWay, NothingRuns, OperationFits, Idle, OperationStates, Supervisors,
     Profiles
<1>11. CacheFits'
  BY <1>1 DEF ActivateVerified, ReconcileBundle, CacheFits, OperationFits, Idle, Issued,
     OperationStates, CacheStates, BundleStates
<1>12. DisconnectedIsClean'
  BY <1>1 DEF ActivateVerified, ReconcileBundle, DisconnectedIsClean, ChildFits, ProxyFits,
     JournalHoldsUserSettings, RestoringFor, StartUnderWay, Supervisors, Proxies
<1> QED BY <1>5, <1>6, <1>7, <1>8, <1>9, <1>10, <1>11, <1>12

\* What recover chooses is one of the files.
LEMMA RecoverChoiceIsCached == ASSUME ConnectInv, Recoverable # {} PROVE RecoverChoice \in cache.files
<1>1. PICK n \in Nat : Issued = 1 .. n BY DEF ConnectInv, IssuedInOrder
<1>2. Recoverable \subseteq cache.files /\ cache.files \subseteq 1 .. n
  BY <1>1 DEF Recoverable, ConnectInv, CacheFits
<1>3. Newest(Recoverable) \in Recoverable BY <1>2, NewestIsOne
<1> QED BY <1>2, <1>3 DEF RecoverChoice

LEMMA RestoreBundleHolds == ASSUME ConnectInv, RestoreBundle PROVE ConnectInv'
<1> USE DEF ConnectInv, ConnectTypeOK
<1>0. PICK g, files :
          /\ g \in Nat \ {0} /\ g \in files /\ files \subseteq cache.files /\ cache.files \subseteq Issued
          /\ cache' = [cache EXCEPT !.pointer = g, !.cut = FALSE, !.files = files]
          /\ bundle' = [generation |-> g, expired |-> FALSE]
          /\ selector' = ReconcileBundle(selector, g)
  <2>1. PICK n \in Nat : Issued = 1 .. n BY DEF IssuedInOrder
  <2>2. cache.files \in SUBSET (1 .. n) BY <2>1 DEF CacheFits
  <2>3. RecoverChoice \in cache.files
    BY RecoverChoiceIsCached DEF RestoreBundle
  <2>4. PICK kept \in SUBSET (1 .. n) : kept = {g \in cache.files : g <= RecoverChoice}
    BY <2>2
  <2>5. RecoverChoice \in kept /\ kept \subseteq cache.files BY <2>2, <2>3, <2>4
  <2>6. /\ Prune(kept, RecoverChoice) \subseteq kept
        /\ RecoverChoice \in Prune(kept, RecoverChoice)
    BY <2>5, PruneKeeps
  <2>7. /\ cache' = [cache EXCEPT !.pointer = RecoverChoice, !.cut = FALSE,
                                      !.files = Prune(kept, RecoverChoice)]
        /\ bundle' = [generation |-> RecoverChoice, expired |-> FALSE]
        /\ selector' = ReconcileBundle(selector, RecoverChoice)
    BY <2>4 DEF RestoreBundle
  <2>8. RecoverChoice \in Nat \ {0} BY <2>2, <2>3
  <2>9. cache.files \subseteq Issued BY <2>1, <2>2
  <2>10. Prune(kept, RecoverChoice) \subseteq cache.files BY <2>5, <2>6
  <2> WITNESS RecoverChoice, Prune(kept, RecoverChoice)
  <2> QED BY <2>6, <2>7, <2>8, <2>9, <2>10
<1>1. UNCHANGED <<xray, exited, monitor, proxy, op, offered>>
  BY DEF RestoreBundle, ReconcileBundle, Prune
<1>2. cache' \in CacheStates
  BY <1>0 DEF CacheStates
<1>3. bundle' \in BundleStates
  BY <1>0 DEF BundleStates
<1>4. selector' \in Selectors
  BY DEF RestoreBundle, ReconcileBundle, Prune, Selectors, Idle
<1>5. ConnectTypeOK'
  BY <1>1, <1>2, <1>3, <1>4
<1>6. IssuedInOrder'
  BY <1>1 DEF IssuedInOrder, Issued
<1>7. OperationFits'
  BY <1>1 DEF RestoreBundle, ReconcileBundle, Prune, OperationFits, RestoreSteps, Issued, Idle,
     CacheFits, OperationStates
<1>8. ProxyFits' /\ JournalHoldsUserSettings'
  BY <1>1 DEF RestoreBundle, ReconcileBundle, Prune, ProxyFits, OperationHoldsProxy,
     MonitorHoldsProxy, JournalHoldsUserSettings, Idle, OperationStates, Proxies, OperationFits,
     RestoreSteps
<1>9. ChildFits'
  BY <1>1 DEF RestoreBundle, ReconcileBundle, Prune, ChildFits, RestoringFor, StartUnderWay,
     NothingRuns, Idle, OperationStates, Supervisors, OperationFits
<1>10. RunsInForce'
  BY <1>1 DEF RestoreBundle, ReconcileBundle, Prune, RunsInForce, ChildFits, ProfileIsCurrent,
     RestoringFor, StartUnderWay, NothingRuns, OperationFits, Idle, OperationStates, Supervisors,
     Profiles
<1>11. CacheFits'
  <2>1. cache'.files = files /\ cache'.pointer = g /\ bundle'.generation = g
    BY <1>0 DEF CacheStates
  <2>2. op.pc = "idle" BY DEF RestoreBundle
  <2> QED BY <1>0, <1>1, <2>1, <2>2 DEF CacheFits, Issued
<1>12. DisconnectedIsClean'
  BY <1>1 DEF RestoreBundle, ReconcileBundle, Prune, DisconnectedIsClean, ChildFits, ProxyFits,
     JournalHoldsUserSettings, RestoringFor, StartUnderWay, Supervisors, Proxies
<1> QED BY <1>5, <1>6, <1>7, <1>8, <1>9, <1>10, <1>11, <1>12

LEMMA RestoreBundleFailsHolds == ASSUME ConnectInv, RestoreBundleFails PROVE ConnectInv'
<1> USE DEF ConnectInv, ConnectTypeOK
<1>0. PICK g, left :
          /\ g \in Nat /\ g \in left /\ left \subseteq cache.files /\ cache.files \subseteq Issued
          /\ cache' = [cache EXCEPT !.pointer = g, !.files = left, !.cut = FALSE]
  <2>1. PICK n \in Nat : Issued = 1 .. n BY DEF IssuedInOrder
  <2>2. RecoverChoice \in cache.files /\ cache.files \subseteq 1 .. n
    BY <2>1, RecoverChoiceIsCached DEF RestoreBundleFails, CacheFits
  <2>3. PICK left \in {cache.files, {g \in cache.files : g <= RecoverChoice}} :
          cache' = [cache EXCEPT !.pointer = RecoverChoice, !.files = left, !.cut = FALSE]
    BY DEF RestoreBundleFails
  <2>4. RecoverChoice \in Nat /\ RecoverChoice \in left /\ left \subseteq cache.files
    BY <2>2, <2>3
  <2> WITNESS RecoverChoice, left
  <2> QED BY <2>1, <2>2, <2>3, <2>4
<1>1. /\ UNCHANGED <<bundle, selector, xray, exited, monitor, proxy, op, offered>>
      /\ op.pc = "idle" /\ bundle.generation = 0
  BY DEF RestoreBundleFails
<1>2. cache' \in CacheStates /\ cache'.files = left /\ cache'.pointer = g
  BY <1>0 DEF CacheStates
<1>3. ConnectTypeOK'
  BY <1>1, <1>2
<1>4. CacheFits'
  BY <1>0, <1>1, <1>2 DEF CacheFits, Issued
<1>5. IssuedInOrder' /\ OperationFits'
  BY <1>1 DEF IssuedInOrder, OperationFits, Issued
<1>6. ProxyFits' /\ JournalHoldsUserSettings' /\ DisconnectedIsClean'
  BY <1>1 DEF ProxyFits, OperationHoldsProxy, JournalHoldsUserSettings, DisconnectedIsClean
<1>7. ChildFits' /\ RunsInForce'
  BY <1>1 DEF ChildFits, RunsInForce, ProfileIsCurrent, RestoringFor, StartUnderWay, NothingRuns
<1> QED BY <1>3, <1>4, <1>5, <1>6, <1>7

LEMMA TakeChildHolds == ASSUME ConnectInv, TakeChild PROVE ConnectInv'
<1> USE DEF ConnectInv, ConnectTypeOK
<1>1. UNCHANGED <<cache, bundle, selector, monitor, proxy, offered>>
  BY DEF TakeChild, EndGeneration, Restoring
<1>2. xray' \in Supervisors
  BY DEF TakeChild, EndGeneration, Restoring, Supervisors, Phases, Profiles, ProxyModes, Idle
<1>3. exited' \in BOOLEAN
  BY DEF TakeChild, EndGeneration, Restoring, Idle
<1>4. op' \in OperationStates
  BY DEF TakeChild, EndGeneration, Restoring, OperationStates, OperationPoints, RestoreSteps,
     Continuations, Phases, ProxyModes, Supervisors, Idle
<1>5. ConnectTypeOK'
  BY <1>1, <1>2, <1>3, <1>4
<1>6. IssuedInOrder'
  BY <1>1 DEF IssuedInOrder, Issued
<1>7. OperationFits'
  BY <1>1 DEF TakeChild, EndGeneration, Restoring, OperationFits, RestoreSteps, Issued, Idle,
     CacheFits, OperationStates
<1>8. ProxyFits' /\ JournalHoldsUserSettings'
  BY <1>1 DEF TakeChild, EndGeneration, Restoring, ProxyFits, OperationHoldsProxy,
     MonitorHoldsProxy, JournalHoldsUserSettings, Idle, OperationStates, Proxies, OperationFits,
     RestoreSteps
<1>9. ChildFits'
  BY <1>1 DEF TakeChild, EndGeneration, Restoring, ChildFits, RestoringFor, StartUnderWay,
     NothingRuns, Idle, OperationStates, Supervisors, OperationFits
<1>10. RunsInForce'
  BY <1>1 DEF TakeChild, EndGeneration, Restoring, RunsInForce, ChildFits, ProfileIsCurrent,
     RestoringFor, StartUnderWay, NothingRuns, OperationFits, Idle, OperationStates, Supervisors,
     Profiles
<1>11. CacheFits'
  BY <1>1 DEF TakeChild, EndGeneration, Restoring, CacheFits, OperationFits, Idle, Issued,
     OperationStates, CacheStates, BundleStates
<1>12. DisconnectedIsClean'
  BY <1>1 DEF TakeChild, EndGeneration, Restoring, DisconnectedIsClean, ChildFits, ProxyFits,
     JournalHoldsUserSettings, RestoringFor, StartUnderWay, Supervisors, Proxies
<1> QED BY <1>5, <1>6, <1>7, <1>8, <1>9, <1>10, <1>11, <1>12

LEMMA BeginStartHolds == ASSUME ConnectInv, BeginStart PROVE ConnectInv'
<1> USE DEF ConnectInv, ConnectTypeOK
<1>1. UNCHANGED <<cache, bundle, selector, exited, monitor, proxy, offered>>
  BY DEF BeginStart
<1>2. xray' \in Supervisors
  <2>1. PICK spawned \in BOOLEAN :
          xray' = [xray EXCEPT !.phase = IF spawned THEN "starting" ELSE "failed",
                          !.profile = [node |-> op.node, generation |-> bundle.generation],
                          !.mode = op.mode, !.child = IF spawned THEN "running" ELSE "none"]
    BY DEF BeginStart
  <2>2. [node |-> op.node, generation |-> bundle.generation] \in Profiles
    BY DEF OperationStates, BundleStates, Profiles
  <2>3. op.mode \in ProxyModes BY DEF OperationStates
  <2> QED BY <2>1, <2>2, <2>3 DEF Supervisors, Phases
<1>3. op' \in OperationStates
  BY DEF BeginStart, OperationStates, OperationPoints, RestoreSteps, Continuations, Phases,
     ProxyModes, Supervisors, Idle
<1>4. ConnectTypeOK'
  BY <1>1, <1>2, <1>3
<1>5. IssuedInOrder'
  BY <1>1 DEF IssuedInOrder, Issued
<1>6. OperationFits'
  BY <1>1 DEF BeginStart, OperationFits, RestoreSteps, Issued, Idle, CacheFits, OperationStates
<1>7. ProxyFits' /\ JournalHoldsUserSettings'
  BY <1>1 DEF BeginStart, ProxyFits, OperationHoldsProxy, MonitorHoldsProxy,
     JournalHoldsUserSettings, Idle, OperationStates, Proxies, OperationFits, RestoreSteps
<1>8. ChildFits'
  BY <1>1 DEF BeginStart, ChildFits, RestoringFor, StartUnderWay, NothingRuns, Idle, OperationStates,
     Supervisors, OperationFits
<1>9. RunsInForce'
  BY <1>1 DEF BeginStart, RunsInForce, ChildFits, ProfileIsCurrent, RestoringFor, StartUnderWay,
     NothingRuns, OperationFits, Idle, OperationStates, Supervisors, Profiles
<1>10. CacheFits'
  BY <1>1 DEF BeginStart, CacheFits, OperationFits, Idle, Issued, OperationStates, CacheStates,
     BundleStates
<1>11. DisconnectedIsClean'
  BY <1>1 DEF BeginStart, DisconnectedIsClean, ChildFits, ProxyFits, JournalHoldsUserSettings,
     RestoringFor, StartUnderWay, Supervisors, Proxies
<1> QED BY <1>4, <1>5, <1>6, <1>7, <1>8, <1>9, <1>10, <1>11

LEMMA MarkConnectedHolds == ASSUME ConnectInv, MarkConnected PROVE ConnectInv'
<1> USE DEF ConnectInv, ConnectTypeOK
<1>1. UNCHANGED <<cache, bundle, selector, exited, monitor, proxy, offered>>
  BY DEF MarkConnected
<1>2. xray' \in Supervisors
  BY DEF MarkConnected, Supervisors, Phases, Profiles, ProxyModes, Idle
<1>3. op' \in OperationStates
  BY DEF MarkConnected, OperationStates, OperationPoints, RestoreSteps, Continuations, Phases,
     ProxyModes, Supervisors, Idle
<1>4. ConnectTypeOK'
  BY <1>1, <1>2, <1>3
<1>5. IssuedInOrder'
  BY <1>1 DEF IssuedInOrder, Issued
<1>6. OperationFits'
  BY <1>1 DEF MarkConnected, OperationFits, RestoreSteps, Issued, Idle, CacheFits, OperationStates
<1>7. ProxyFits' /\ JournalHoldsUserSettings'
  BY <1>1 DEF MarkConnected, ProxyFits, OperationHoldsProxy, MonitorHoldsProxy,
     JournalHoldsUserSettings, Idle, OperationStates, Proxies, OperationFits, RestoreSteps
<1>8. ChildFits'
  BY <1>1 DEF MarkConnected, ChildFits, RestoringFor, StartUnderWay, NothingRuns, Idle,
     OperationStates, Supervisors, OperationFits
<1>9. RunsInForce'
  BY <1>1 DEF MarkConnected, RunsInForce, ChildFits, ProfileIsCurrent, RestoringFor,
     StartUnderWay, NothingRuns, OperationFits, Idle, OperationStates, Supervisors, Profiles
<1>10. CacheFits'
  BY <1>1 DEF MarkConnected, CacheFits, OperationFits, Idle, Issued, OperationStates, CacheStates,
     BundleStates
<1>11. DisconnectedIsClean'
  BY <1>1 DEF MarkConnected, DisconnectedIsClean, ChildFits, ProxyFits, JournalHoldsUserSettings,
     RestoringFor, StartUnderWay, Supervisors, Proxies
<1> QED BY <1>4, <1>5, <1>6, <1>7, <1>8, <1>9, <1>10, <1>11

LEMMA FailStartHolds == ASSUME ConnectInv, FailStart PROVE ConnectInv'
<1> USE DEF ConnectInv, ConnectTypeOK
<1>1. UNCHANGED <<cache, bundle, selector, monitor, proxy, offered>>
  BY DEF FailStart, EndGeneration, Restoring
<1>2. xray' \in Supervisors
  BY DEF FailStart, EndGeneration, Restoring, Supervisors, Phases, Profiles, ProxyModes, Idle
<1>3. exited' \in BOOLEAN
  BY DEF FailStart, EndGeneration, Restoring, Idle
<1>4. op' \in OperationStates
  BY DEF FailStart, EndGeneration, Restoring, OperationStates, OperationPoints, RestoreSteps,
     Continuations, Phases, ProxyModes, Supervisors, Idle
<1>5. ConnectTypeOK'
  BY <1>1, <1>2, <1>3, <1>4
<1>6. IssuedInOrder'
  BY <1>1 DEF IssuedInOrder, Issued
<1>7. OperationFits'
  BY <1>1 DEF FailStart, EndGeneration, Restoring, OperationFits, RestoreSteps, Issued, Idle,
     CacheFits, OperationStates
<1>8. ProxyFits' /\ JournalHoldsUserSettings'
  BY <1>1 DEF FailStart, EndGeneration, Restoring, ProxyFits, OperationHoldsProxy,
     MonitorHoldsProxy, JournalHoldsUserSettings, Idle, OperationStates, Proxies, OperationFits,
     RestoreSteps
<1>9. ChildFits'
  BY <1>1 DEF FailStart, EndGeneration, Restoring, ChildFits, RestoringFor, StartUnderWay,
     NothingRuns, Idle, OperationStates, Supervisors, OperationFits
<1>10. RunsInForce'
  BY <1>1 DEF FailStart, EndGeneration, Restoring, RunsInForce, ChildFits, ProfileIsCurrent,
     RestoringFor, StartUnderWay, NothingRuns, OperationFits, Idle, OperationStates, Supervisors,
     Profiles
<1>11. CacheFits'
  BY <1>1 DEF FailStart, EndGeneration, Restoring, CacheFits, OperationFits, Idle, Issued,
     OperationStates, CacheStates, BundleStates
<1>12. DisconnectedIsClean'
  BY <1>1 DEF FailStart, EndGeneration, Restoring, DisconnectedIsClean, ChildFits, ProxyFits,
     JournalHoldsUserSettings, RestoringFor, StartUnderWay, Supervisors, Proxies
<1> QED BY <1>5, <1>6, <1>7, <1>8, <1>9, <1>10, <1>11, <1>12

LEMMA ChildExitsHolds == ASSUME ConnectInv, ChildExits PROVE ConnectInv'
<1> USE DEF ConnectInv, ConnectTypeOK
<1>1. UNCHANGED <<cache, bundle, selector, monitor, proxy, op, offered>>
  BY DEF ChildExits
<1>2. xray' \in Supervisors
  BY DEF ChildExits, Supervisors, Phases, Profiles, ProxyModes, Idle
<1>3. exited' \in BOOLEAN
  BY DEF ChildExits, Idle
<1>4. ConnectTypeOK'
  BY <1>1, <1>2, <1>3
<1>5. IssuedInOrder'
  BY <1>1 DEF IssuedInOrder, Issued
<1>6. OperationFits'
  BY <1>1 DEF ChildExits, OperationFits, RestoreSteps, Issued, Idle, CacheFits, OperationStates
<1>7. ProxyFits' /\ JournalHoldsUserSettings'
  BY <1>1 DEF ChildExits, ProxyFits, OperationHoldsProxy, MonitorHoldsProxy,
     JournalHoldsUserSettings, Idle, OperationStates, Proxies, OperationFits, RestoreSteps
<1>8. ChildFits'
  BY <1>1 DEF ChildExits, ChildFits, RestoringFor, StartUnderWay, NothingRuns, Idle, OperationStates,
     Supervisors, OperationFits
<1>9. RunsInForce'
  BY <1>1 DEF ChildExits, RunsInForce, ChildFits, ProfileIsCurrent, RestoringFor, StartUnderWay,
     NothingRuns, OperationFits, Idle, OperationStates, Supervisors, Profiles
<1>10. CacheFits'
  BY <1>1 DEF ChildExits, CacheFits, OperationFits, Idle, Issued, OperationStates, CacheStates,
     BundleStates
<1>11. DisconnectedIsClean'
  BY <1>1 DEF ChildExits, DisconnectedIsClean, ChildFits, ProxyFits, JournalHoldsUserSettings,
     RestoringFor, StartUnderWay, Supervisors, Proxies
<1> QED BY <1>4, <1>5, <1>6, <1>7, <1>8, <1>9, <1>10, <1>11

LEMMA HandleTerminationHolds == ASSUME ConnectInv, HandleTermination PROVE ConnectInv'
<1> USE DEF ConnectInv, ConnectTypeOK
<1>1. UNCHANGED <<cache, bundle, selector, proxy, op, offered>>
  BY DEF HandleTermination
<1>2. xray' \in Supervisors
  BY DEF HandleTermination, Supervisors, Phases, Profiles, ProxyModes, Idle
<1>3. exited' \in BOOLEAN
  BY DEF HandleTermination, Idle
<1>4. monitor' \in {"none", "restore", "clear"}
  BY DEF HandleTermination, Idle
<1>5. ConnectTypeOK'
  BY <1>1, <1>2, <1>3, <1>4
<1>6. IssuedInOrder'
  BY <1>1 DEF IssuedInOrder, Issued
<1>7. OperationFits'
  BY <1>1 DEF HandleTermination, OperationFits, RestoreSteps, Issued, Idle, CacheFits, OperationStates
<1>8. ProxyFits' /\ JournalHoldsUserSettings'
  BY <1>1 DEF HandleTermination, ProxyFits, OperationHoldsProxy, MonitorHoldsProxy,
     JournalHoldsUserSettings, Idle, OperationStates, Proxies, OperationFits, RestoreSteps
<1>9. ChildFits'
  BY <1>1 DEF HandleTermination, ChildFits, RestoringFor, StartUnderWay, NothingRuns, Idle,
     OperationStates, Supervisors, OperationFits
<1>10. RunsInForce'
  BY <1>1 DEF HandleTermination, RunsInForce, ChildFits, ProfileIsCurrent, RestoringFor,
     StartUnderWay, NothingRuns, OperationFits, Idle, OperationStates, Supervisors, Profiles
<1>11. CacheFits'
  BY <1>1 DEF HandleTermination, CacheFits, OperationFits, Idle, Issued, OperationStates, CacheStates,
     BundleStates
<1>12. DisconnectedIsClean'
  BY <1>1 DEF HandleTermination, DisconnectedIsClean, ChildFits, ProxyFits,
     JournalHoldsUserSettings, RestoringFor, StartUnderWay, Supervisors, Proxies
<1> QED BY <1>5, <1>6, <1>7, <1>8, <1>9, <1>10, <1>11, <1>12

LEMMA CaptureSettingsHolds == ASSUME ConnectInv, CaptureSettings PROVE ConnectInv'
<1> USE DEF ConnectInv, ConnectTypeOK
<1>1. UNCHANGED <<cache, bundle, selector, xray, exited, monitor, offered>>
  BY DEF CaptureSettings, AdapterCaptures
<1>2. proxy' \in Proxies
  BY DEF CaptureSettings, AdapterCaptures, Proxies, Settings, Idle
<1>3. op' \in OperationStates
  BY DEF CaptureSettings, AdapterCaptures, OperationStates, OperationPoints, RestoreSteps,
     Continuations, Phases, ProxyModes, Supervisors, Idle
<1>4. ConnectTypeOK'
  BY <1>1, <1>2, <1>3
<1>5. IssuedInOrder'
  BY <1>1 DEF IssuedInOrder, Issued
<1>6. OperationFits'
  BY <1>1 DEF CaptureSettings, AdapterCaptures, OperationFits, RestoreSteps, Issued, Idle,
     CacheFits, OperationStates
<1>7. ProxyFits' /\ JournalHoldsUserSettings'
  BY <1>1 DEF CaptureSettings, AdapterCaptures, ProxyFits, OperationHoldsProxy,
     MonitorHoldsProxy, JournalHoldsUserSettings, Idle, OperationStates, Proxies, OperationFits,
     RestoreSteps
<1>8. ChildFits'
  BY <1>1 DEF CaptureSettings, AdapterCaptures, ChildFits, RestoringFor, StartUnderWay,
     NothingRuns, Idle, OperationStates, Supervisors, OperationFits
<1>9. RunsInForce'
  BY <1>1 DEF CaptureSettings, AdapterCaptures, RunsInForce, ChildFits, ProfileIsCurrent,
     RestoringFor, StartUnderWay, NothingRuns, OperationFits, Idle, OperationStates, Supervisors,
     Profiles
<1>10. CacheFits'
  BY <1>1 DEF CaptureSettings, AdapterCaptures, CacheFits, OperationFits, Idle, Issued,
     OperationStates, CacheStates, BundleStates
<1>11. DisconnectedIsClean'
  BY <1>1 DEF CaptureSettings, AdapterCaptures, DisconnectedIsClean, ChildFits, ProxyFits,
     JournalHoldsUserSettings, RestoringFor, StartUnderWay, Supervisors, Proxies
<1> QED BY <1>4, <1>5, <1>6, <1>7, <1>8, <1>9, <1>10, <1>11

LEMMA SwitchSettingsHolds == ASSUME ConnectInv, SwitchSettings PROVE ConnectInv'
<1> USE DEF ConnectInv, ConnectTypeOK
<1>1. UNCHANGED <<cache, bundle, selector, xray, exited, monitor, offered>>
  BY DEF SwitchSettings, AdapterApplies, AdapterFails, Restoring
<1>2. proxy' \in Proxies
  BY DEF SwitchSettings, AdapterApplies, AdapterFails, Restoring, Proxies, Settings, Idle
<1>3. op' \in OperationStates
  BY DEF SwitchSettings, AdapterApplies, AdapterFails, Restoring, OperationStates, OperationPoints,
     RestoreSteps, Continuations, Phases, ProxyModes, Supervisors, Idle
<1>4. ConnectTypeOK'
  BY <1>1, <1>2, <1>3
<1>5. IssuedInOrder'
  BY <1>1 DEF IssuedInOrder, Issued
<1>6. OperationFits'
  BY <1>1 DEF SwitchSettings, AdapterApplies, AdapterFails, Restoring, OperationFits,
     RestoreSteps, Issued, Idle, CacheFits, OperationStates
<1>7. ProxyFits' /\ JournalHoldsUserSettings'
  BY <1>1 DEF SwitchSettings, AdapterApplies, AdapterFails, Restoring, ProxyFits,
     OperationHoldsProxy, MonitorHoldsProxy, JournalHoldsUserSettings, Idle, OperationStates, Proxies,
     OperationFits, RestoreSteps
<1>8. ChildFits'
  BY <1>1 DEF SwitchSettings, AdapterApplies, AdapterFails, Restoring, ChildFits, RestoringFor,
     StartUnderWay, NothingRuns, Idle, OperationStates, Supervisors, OperationFits
<1>9. RunsInForce'
  BY <1>1 DEF SwitchSettings, AdapterApplies, AdapterFails, Restoring, RunsInForce, ChildFits,
     ProfileIsCurrent, RestoringFor, StartUnderWay, NothingRuns, OperationFits, Idle, OperationStates,
     Supervisors, Profiles
<1>10. CacheFits'
  BY <1>1 DEF SwitchSettings, AdapterApplies, AdapterFails, Restoring, CacheFits, OperationFits,
     Idle, Issued, OperationStates, CacheStates, BundleStates
<1>11. DisconnectedIsClean'
  BY <1>1 DEF SwitchSettings, AdapterApplies, AdapterFails, Restoring, DisconnectedIsClean,
     ChildFits, ProxyFits, JournalHoldsUserSettings, RestoringFor, StartUnderWay, Supervisors,
     Proxies
<1> QED BY <1>4, <1>5, <1>6, <1>7, <1>8, <1>9, <1>10, <1>11

LEMMA MonitorRestoresHolds == ASSUME ConnectInv, MonitorRestores PROVE ConnectInv'
<1> USE DEF ConnectInv, ConnectTypeOK
<1>1. UNCHANGED <<cache, bundle, selector, exited, op, offered>>
  BY DEF MonitorRestores, AdapterRestores, AdapterFails, MonitorEnds
<1>2. xray' \in Supervisors
  BY DEF MonitorRestores, AdapterRestores, AdapterFails, MonitorEnds, Supervisors, Phases,
     Profiles, ProxyModes, Idle
<1>3. monitor' \in {"none", "restore", "clear"}
  BY DEF MonitorRestores, AdapterRestores, AdapterFails, MonitorEnds, Idle
<1>4. proxy' \in Proxies
  BY DEF MonitorRestores, AdapterRestores, AdapterFails, MonitorEnds, Proxies, Settings, Idle
<1>5. ConnectTypeOK'
  BY <1>1, <1>2, <1>3, <1>4
<1>6. IssuedInOrder'
  BY <1>1 DEF IssuedInOrder, Issued
<1>7. OperationFits'
  BY <1>1 DEF MonitorRestores, AdapterRestores, AdapterFails, MonitorEnds, OperationFits,
     RestoreSteps, Issued, Idle, CacheFits, OperationStates
<1>8. ProxyFits' /\ JournalHoldsUserSettings'
  BY <1>1 DEF MonitorRestores, AdapterRestores, AdapterFails, MonitorEnds, ProxyFits,
     OperationHoldsProxy, MonitorHoldsProxy, JournalHoldsUserSettings, Idle, OperationStates, Proxies,
     OperationFits, RestoreSteps
<1>9. ChildFits'
  BY <1>1 DEF MonitorRestores, AdapterRestores, AdapterFails, MonitorEnds, ChildFits,
     RestoringFor, StartUnderWay, NothingRuns, Idle, OperationStates, Supervisors, OperationFits
<1>10. RunsInForce'
  BY <1>1 DEF MonitorRestores, AdapterRestores, AdapterFails, MonitorEnds, RunsInForce,
     ChildFits, ProfileIsCurrent, RestoringFor, StartUnderWay, NothingRuns, OperationFits, Idle,
     OperationStates, Supervisors, Profiles
<1>11. CacheFits'
  BY <1>1 DEF MonitorRestores, AdapterRestores, AdapterFails, MonitorEnds, CacheFits,
     OperationFits, Idle, Issued, OperationStates, CacheStates, BundleStates
<1>12. DisconnectedIsClean'
  <2>1. CASE proxy.journal = "none" /\ MonitorEnds(TRUE) /\ UNCHANGED proxy
    <3>1. proxy.settings = "user" BY <2>1 DEF JournalHoldsUserSettings
    <3>2. proxy' = [settings |-> "user", journal |-> "none"] BY <2>1, <3>1 DEF Proxies
    <3>3. xray'.phase = xray.phase /\ xray'.child = xray.child
      BY <2>1 DEF MonitorEnds, Supervisors
    <3> QED BY <3>2, <3>3 DEF DisconnectedIsClean, ChildFits
  <2>2. CASE proxy.journal # "none" /\ UNCHANGED xray
    BY <2>2 DEF DisconnectedIsClean
  <2>3. CASE MonitorEnds(FALSE)
    <3>1. xray'.phase = "failed" BY <2>3 DEF MonitorEnds, Supervisors
    <3> QED BY <3>1 DEF DisconnectedIsClean
  <2> QED BY <2>1, <2>2, <2>3 DEF MonitorRestores
<1> QED BY <1>5, <1>6, <1>7, <1>8, <1>9, <1>10, <1>11, <1>12

LEMMA MonitorClearsHolds == ASSUME ConnectInv, MonitorClears PROVE ConnectInv'
<1> USE DEF ConnectInv, ConnectTypeOK
<1>1. UNCHANGED <<cache, bundle, selector, exited, op, offered>>
  BY DEF MonitorClears, MonitorEnds
<1>2. xray' \in Supervisors
  BY DEF MonitorClears, MonitorEnds, Supervisors, Phases, Profiles, ProxyModes, Idle
<1>3. monitor' \in {"none", "restore", "clear"}
  BY DEF MonitorClears, MonitorEnds, Idle
<1>4. proxy' \in Proxies
  BY DEF MonitorClears, MonitorEnds, Proxies, Settings, Idle
<1>5. ConnectTypeOK'
  BY <1>1, <1>2, <1>3, <1>4
<1>6. IssuedInOrder'
  BY <1>1 DEF IssuedInOrder, Issued
<1>7. OperationFits'
  BY <1>1 DEF MonitorClears, MonitorEnds, OperationFits, RestoreSteps, Issued, Idle, CacheFits,
     OperationStates
<1>8. ProxyFits' /\ JournalHoldsUserSettings'
  BY <1>1 DEF MonitorClears, MonitorEnds, ProxyFits, OperationHoldsProxy, MonitorHoldsProxy,
     JournalHoldsUserSettings, Idle, OperationStates, Proxies, OperationFits, RestoreSteps
<1>9. ChildFits'
  BY <1>1 DEF MonitorClears, MonitorEnds, ChildFits, RestoringFor, StartUnderWay, NothingRuns,
     Idle, OperationStates, Supervisors, OperationFits
<1>10. RunsInForce'
  BY <1>1 DEF MonitorClears, MonitorEnds, RunsInForce, ChildFits, ProfileIsCurrent, RestoringFor,
     StartUnderWay, NothingRuns, OperationFits, Idle, OperationStates, Supervisors, Profiles
<1>11. CacheFits'
  BY <1>1 DEF MonitorClears, MonitorEnds, CacheFits, OperationFits, Idle, Issued, OperationStates,
     CacheStates, BundleStates
<1>12. DisconnectedIsClean'
  BY <1>1 DEF MonitorClears, MonitorEnds, DisconnectedIsClean, ChildFits, ProxyFits,
     JournalHoldsUserSettings, RestoringFor, StartUnderWay, Supervisors, Proxies
<1> QED BY <1>5, <1>6, <1>7, <1>8, <1>9, <1>10, <1>11, <1>12

LEMMA ConnectDiesHolds == ASSUME ConnectInv, ConnectDies PROVE ConnectInv'
<1> USE DEF ConnectInv, ConnectTypeOK
<1>1. UNCHANGED <<cache, proxy, offered>>
  BY DEF ConnectDies, NewProcess, Unbundled, NewSelector, NewSupervisor, NoProfile
<1>2. bundle' \in BundleStates
  BY DEF ConnectDies, NewProcess, Unbundled, NewSelector, NewSupervisor, NoProfile, BundleStates,
     Idle
<1>3. selector' \in Selectors
  BY NewSelectorFits DEF ConnectDies, NewProcess
<1>4. xray' \in Supervisors
  BY DEF ConnectDies, NewProcess, Unbundled, NewSelector, NewSupervisor, NoProfile, Supervisors,
     Phases, Profiles, ProxyModes, Idle
<1>5. exited' \in BOOLEAN
  BY DEF ConnectDies, NewProcess, Unbundled, NewSelector, NewSupervisor, NoProfile, Idle
<1>6. monitor' \in {"none", "restore", "clear"}
  BY DEF ConnectDies, NewProcess, Unbundled, NewSelector, NewSupervisor, NoProfile, Idle
<1>7. op' \in OperationStates
  BY DEF ConnectDies, NewProcess, Unbundled, NewSelector, NewSupervisor, NoProfile, OperationStates,
     OperationPoints, RestoreSteps, Continuations, Phases, ProxyModes, Supervisors, Idle
<1>8. ConnectTypeOK'
  BY <1>1, <1>2, <1>3, <1>4, <1>5, <1>6, <1>7
<1>9. IssuedInOrder'
  BY <1>1 DEF IssuedInOrder, Issued
<1>10. OperationFits'
  BY <1>1 DEF ConnectDies, NewProcess, Unbundled, NewSelector, NewSupervisor, NoProfile,
     OperationFits, RestoreSteps, Issued, Idle, CacheFits, OperationStates
<1>11. ProxyFits' /\ JournalHoldsUserSettings'
  BY <1>1 DEF ConnectDies, NewProcess, Unbundled, NewSelector, NewSupervisor, NoProfile,
     ProxyFits, OperationHoldsProxy, MonitorHoldsProxy, JournalHoldsUserSettings, Idle,
     OperationStates, Proxies, OperationFits, RestoreSteps
<1>12. ChildFits'
  BY <1>1 DEF ConnectDies, NewProcess, Unbundled, NewSelector, NewSupervisor, NoProfile,
     ChildFits, RestoringFor, StartUnderWay, NothingRuns, Idle, OperationStates, Supervisors,
     OperationFits
<1>13. RunsInForce'
  BY <1>1 DEF ConnectDies, NewProcess, Unbundled, NewSelector, NewSupervisor, NoProfile,
     RunsInForce, ChildFits, ProfileIsCurrent, RestoringFor, StartUnderWay, NothingRuns,
     OperationFits, Idle, OperationStates, Supervisors, Profiles
<1>14. CacheFits'
  BY <1>1 DEF ConnectDies, NewProcess, Unbundled, NewSelector, NewSupervisor, NoProfile,
     CacheFits, OperationFits, Idle, Issued, OperationStates, CacheStates, BundleStates
<1>15. DisconnectedIsClean'
  BY <1>1 DEF ConnectDies, NewProcess, Unbundled, NewSelector, NewSupervisor, NoProfile,
     DisconnectedIsClean, ChildFits, ProxyFits, JournalHoldsUserSettings, RestoringFor,
     StartUnderWay, Supervisors, Proxies
<1> QED BY <1>8, <1>9, <1>10, <1>11, <1>12, <1>13, <1>14, <1>15

LEMMA StopBlockingHolds == ASSUME ConnectInv, StopBlocking PROVE ConnectInv'
<1> USE DEF ConnectInv, ConnectTypeOK
<1>1. UNCHANGED <<cache, offered>>
  BY DEF StopBlocking, NewProcess, Unbundled, NewSelector, NewSupervisor, NoProfile
<1>2. bundle' \in BundleStates
  BY DEF StopBlocking, NewProcess, Unbundled, NewSelector, NewSupervisor, NoProfile,
     BundleStates, Idle
<1>3. selector' \in Selectors
  BY NewSelectorFits DEF StopBlocking, NewProcess
<1>4. xray' \in Supervisors
  BY DEF StopBlocking, NewProcess, Unbundled, NewSelector, NewSupervisor, NoProfile, Supervisors,
     Phases, Profiles, ProxyModes, Idle
<1>5. exited' \in BOOLEAN
  BY DEF StopBlocking, NewProcess, Unbundled, NewSelector, NewSupervisor, NoProfile, Idle
<1>6. monitor' \in {"none", "restore", "clear"}
  BY DEF StopBlocking, NewProcess, Unbundled, NewSelector, NewSupervisor, NoProfile, Idle
<1>7. proxy' \in Proxies
  BY DEF StopBlocking, NewProcess, Unbundled, NewSelector, NewSupervisor, NoProfile, Proxies,
     Settings, Idle
<1>8. op' \in OperationStates
  BY DEF StopBlocking, NewProcess, Unbundled, NewSelector, NewSupervisor, NoProfile, OperationStates,
     OperationPoints, RestoreSteps, Continuations, Phases, ProxyModes, Supervisors, Idle
<1>9. ConnectTypeOK'
  BY <1>1, <1>2, <1>3, <1>4, <1>5, <1>6, <1>7, <1>8
<1>10. IssuedInOrder'
  BY <1>1 DEF IssuedInOrder, Issued
<1>11. OperationFits'
  BY <1>1 DEF StopBlocking, NewProcess, Unbundled, NewSelector, NewSupervisor, NoProfile,
     OperationFits, RestoreSteps, Issued, Idle, CacheFits, OperationStates
<1>12. ProxyFits' /\ JournalHoldsUserSettings'
  BY <1>1 DEF StopBlocking, NewProcess, Unbundled, NewSelector, NewSupervisor, NoProfile,
     ProxyFits, OperationHoldsProxy, MonitorHoldsProxy, JournalHoldsUserSettings, Idle,
     OperationStates, Proxies, OperationFits, RestoreSteps
<1>13. ChildFits'
  BY <1>1 DEF StopBlocking, NewProcess, Unbundled, NewSelector, NewSupervisor, NoProfile,
     ChildFits, RestoringFor, StartUnderWay, NothingRuns, Idle, OperationStates, Supervisors,
     OperationFits
<1>14. RunsInForce'
  BY <1>1 DEF StopBlocking, NewProcess, Unbundled, NewSelector, NewSupervisor, NoProfile,
     RunsInForce, ChildFits, ProfileIsCurrent, RestoringFor, StartUnderWay, NothingRuns,
     OperationFits, Idle, OperationStates, Supervisors, Profiles
<1>15. CacheFits'
  BY <1>1 DEF StopBlocking, NewProcess, Unbundled, NewSelector, NewSupervisor, NoProfile,
     CacheFits, OperationFits, Idle, Issued, OperationStates, CacheStates, BundleStates
<1>16. DisconnectedIsClean'
  BY <1>1 DEF StopBlocking, NewProcess, Unbundled, NewSelector, NewSupervisor, NoProfile,
     DisconnectedIsClean, ChildFits, ProxyFits, JournalHoldsUserSettings, RestoringFor,
     StartUnderWay, Supervisors, Proxies
<1> QED BY <1>9, <1>10, <1>11, <1>12, <1>13, <1>14, <1>15, <1>16

LEMMA IssueBundleHolds == ASSUME ConnectInv, NEW nodes \in SUBSET Hosts, IssueBundle(nodes) PROVE ConnectInv'
<1> USE DEF ConnectInv, ConnectTypeOK
<1>0. PICK n \in Nat : Issued = 1 .. n /\ Issued' = 1 .. n + 1 /\ offered' \in [1 .. n + 1 -> SUBSET Hosts]
                        /\ \A g \in Issued : offered'[g] = offered[g]
  <2>1. PICK n \in Nat : Issued = 1 .. n BY DEF IssuedInOrder
  <2>2. Cardinality(Issued) = n BY <2>1, FS_Interval
  <2>3. offered' = [g \in 1 .. n + 1 |-> IF g \in Issued THEN offered[g] ELSE nodes]
    BY <2>2 DEF IssueBundle
  <2> QED BY <2>1, <2>3 DEF IssuedInOrder, Issued
<1>1. UNCHANGED <<cache, bundle, selector, xray, exited, monitor, proxy, op>>
  BY DEF IssueBundle
<1>2. ConnectTypeOK'
  BY <1>1
<1>3. IssuedInOrder'
  BY <1>0 DEF IssuedInOrder
<1>4. OperationFits'
  BY <1>0, <1>1 DEF OperationFits, CacheFits
<1>5. ProxyFits' /\ JournalHoldsUserSettings'
  BY <1>1 DEF IssueBundle, ProxyFits, OperationHoldsProxy, MonitorHoldsProxy,
     JournalHoldsUserSettings, Idle, OperationStates, Proxies, OperationFits, RestoreSteps
<1>6. ChildFits'
  BY <1>1 DEF IssueBundle, ChildFits, RestoringFor, StartUnderWay, NothingRuns, Idle, OperationStates,
     Supervisors, OperationFits
<1>7. RunsInForce'
  BY <1>0, <1>1 DEF RunsInForce, CacheFits, ProfileIsCurrent, RestoringFor, StartUnderWay
<1>8. CacheFits'
  BY <1>0, <1>1 DEF CacheFits
<1>9. DisconnectedIsClean'
  BY <1>1 DEF IssueBundle, DisconnectedIsClean, ChildFits, ProxyFits, JournalHoldsUserSettings,
     RestoringFor, StartUnderWay, Supervisors, Proxies
<1> QED BY <1>2, <1>3, <1>4, <1>5, <1>6, <1>7, <1>8, <1>9

LEMMA DamageFileHolds == ASSUME ConnectInv, NEW g \in Generations, DamageFile(g) PROVE ConnectInv'
<1> USE DEF ConnectInv, ConnectTypeOK
<1>1. UNCHANGED <<bundle, selector, xray, exited, monitor, proxy, op, offered>>
  BY DEF DamageFile
<1>2. cache' \in CacheStates
  BY DEF DamageFile, CacheStates, Idle
<1>3. ConnectTypeOK'
  BY <1>1, <1>2
<1>4. IssuedInOrder'
  BY <1>1 DEF IssuedInOrder, Issued
<1>5. OperationFits'
  BY <1>1 DEF DamageFile, OperationFits, RestoreSteps, Issued, Idle, CacheFits, OperationStates
<1>6. ProxyFits' /\ JournalHoldsUserSettings'
  BY <1>1 DEF DamageFile, ProxyFits, OperationHoldsProxy, MonitorHoldsProxy,
     JournalHoldsUserSettings, Idle, OperationStates, Proxies, OperationFits, RestoreSteps
<1>7. ChildFits'
  BY <1>1 DEF DamageFile, ChildFits, RestoringFor, StartUnderWay, NothingRuns, Idle, OperationStates,
     Supervisors, OperationFits
<1>8. RunsInForce'
  BY <1>1 DEF DamageFile, RunsInForce, ChildFits, ProfileIsCurrent, RestoringFor, StartUnderWay,
     NothingRuns, OperationFits, Idle, OperationStates, Supervisors, Profiles
<1>9. CacheFits'
  BY <1>1 DEF DamageFile, CacheFits, OperationFits, Idle, Issued, OperationStates, CacheStates,
     BundleStates
<1>10. DisconnectedIsClean'
  BY <1>1 DEF DamageFile, DisconnectedIsClean, ChildFits, ProxyFits, JournalHoldsUserSettings,
     RestoringFor, StartUnderWay, Supervisors, Proxies
<1> QED BY <1>3, <1>4, <1>5, <1>6, <1>7, <1>8, <1>9, <1>10

LEMMA SetSelectionModeHolds == ASSUME ConnectInv, NEW m \in Modes, SetSelectionMode(m) PROVE ConnectInv'
<1> USE DEF ConnectInv, ConnectTypeOK
<1>1. UNCHANGED <<cache, bundle, xray, exited, monitor, proxy, op, offered>>
  BY DEF SetSelectionMode
<1>2. selector' \in Selectors
  BY DEF SetSelectionMode, Selectors, Idle
<1>3. ConnectTypeOK'
  BY <1>1, <1>2
<1>4. IssuedInOrder'
  BY <1>1 DEF IssuedInOrder, Issued
<1>5. OperationFits'
  BY <1>1 DEF SetSelectionMode, OperationFits, RestoreSteps, Issued, Idle, CacheFits, OperationStates
<1>6. ProxyFits' /\ JournalHoldsUserSettings'
  BY <1>1 DEF SetSelectionMode, ProxyFits, OperationHoldsProxy, MonitorHoldsProxy,
     JournalHoldsUserSettings, Idle, OperationStates, Proxies, OperationFits, RestoreSteps
<1>7. ChildFits'
  BY <1>1 DEF SetSelectionMode, ChildFits, RestoringFor, StartUnderWay, NothingRuns, Idle,
     OperationStates, Supervisors, OperationFits
<1>8. RunsInForce'
  BY <1>1 DEF SetSelectionMode, RunsInForce, ChildFits, ProfileIsCurrent, RestoringFor,
     StartUnderWay, NothingRuns, OperationFits, Idle, OperationStates, Supervisors, Profiles
<1>9. CacheFits'
  BY <1>1 DEF SetSelectionMode, CacheFits, OperationFits, Idle, Issued, OperationStates, CacheStates,
     BundleStates
<1>10. DisconnectedIsClean'
  BY <1>1 DEF SetSelectionMode, DisconnectedIsClean, ChildFits, ProxyFits,
     JournalHoldsUserSettings, RestoringFor, StartUnderWay, Supervisors, Proxies
<1> QED BY <1>3, <1>4, <1>5, <1>6, <1>7, <1>8, <1>9, <1>10

\* An operation that selects, with or without probing, and then stops what runs and starts
\* the selected node, or leaves everything as it is.
LEMMA SelectionMoves ==
    ASSUME ConnectInv, UNCHANGED <<offered, cache, bundle, xray, exited, monitor, proxy>>,
           selector' \in Selectors, op.pc \in {"idle", "fetch", "apply"},
           \/ op' = Idle /\ op.pc # "apply"
           \/ op' = [Idle EXCEPT !.pc = "stop"]
           \/ \E h \in Candidates, mode \in ProxyModes :
                  op' = [Idle EXCEPT !.pc = "stop", !.then = "start", !.node = h, !.mode = mode]
    PROVE  ConnectInv'
<1> USE DEF ConnectInv, ConnectTypeOK
<1>1. /\ op'.pc \in {"idle", "stop"} /\ op'.then \in {"done", "start"}
      /\ op'.pc = "idle" => op' = Idle /\ op.pc # "apply"
      /\ op'.then = "start" => op'.node \in Candidates
      /\ op' \in OperationStates
  <2>1. CASE op' = Idle /\ op.pc # "apply"
    BY <2>1 DEF Idle, OperationStates, OperationPoints, RestoreSteps, Continuations, ProxyModes
  <2>2. CASE op' = [Idle EXCEPT !.pc = "stop"]
    BY <2>2 DEF Idle, OperationStates, OperationPoints, RestoreSteps, Continuations, ProxyModes
  <2>3. CASE \E h \in Candidates, mode \in ProxyModes :
                 op' = [Idle EXCEPT !.pc = "stop", !.then = "start", !.node = h, !.mode = mode]
    <3>1. PICK h \in Candidates, mode \in ProxyModes :
              op' = [pc |-> "stop", step |-> "none", then |-> "start", node |-> h, mode |-> mode,
                     generation |-> 0]
      BY <2>3 DEF Idle
    <3>2. h \in Hosts BY DEF Candidates, CacheFits, IssuedInOrder
    <3> QED BY <3>1, <3>2 DEF OperationStates, OperationPoints, RestoreSteps, Continuations
  <2> QED BY <2>1, <2>2, <2>3
<1>2. op'.then = "start" => bundle.generation # 0 /\ op'.node \in offered[bundle.generation]
  BY <1>1 DEF Candidates
<1>3. ConnectTypeOK' /\ IssuedInOrder'
  BY <1>1 DEF IssuedInOrder, Issued
<1>4. OperationFits'
  BY <1>1, <1>2 DEF OperationFits
<1>5. ProxyFits' /\ JournalHoldsUserSettings' /\ DisconnectedIsClean'
  BY <1>1 DEF ProxyFits, OperationHoldsProxy, JournalHoldsUserSettings, DisconnectedIsClean
<1>6. ChildFits'
  BY <1>1 DEF ChildFits, RestoringFor, StartUnderWay, NothingRuns
<1>7. RunsInForce'
  BY <1>1 DEF RunsInForce, ProfileIsCurrent, RestoringFor, StartUnderWay
<1>8. CacheFits'
  BY <1>1 DEF CacheFits, Issued
<1> QED BY <1>3, <1>4, <1>5, <1>6, <1>7, <1>8

\* apply_selection ends in one of those ways; with force and stop_when_unavailable it
\* never leaves what runs.
LEMMA ApplySelectionEnds ==
    ASSUME ConnectInv, NEW mode \in ProxyModes, NEW force \in BOOLEAN, NEW stops \in BOOLEAN,
           ApplySelection(mode, force, stops)
    PROVE  /\ selector' \in Selectors
           /\ \/ op' = Idle /\ ~(force /\ stops)
              \/ op' = [Idle EXCEPT !.pc = "stop"]
              \/ \E h \in Candidates :
                     op' = [Idle EXCEPT !.pc = "stop", !.then = "start", !.node = h, !.mode = mode]
<1>1. PICK health \in [Hosts -> {"unknown", "healthy", "failed"}] :
         \E h \in Select([selector EXCEPT !.health = health]) :
            /\ selector' = [[selector EXCEPT !.health = health] EXCEPT !.active = h]
            /\ IF h = "none"
               THEN op' = IF stops THEN [Idle EXCEPT !.pc = "stop"] ELSE Idle
               ELSE op' = IF h # selector.active \/ force
                          THEN [Idle EXCEPT !.pc = "stop", !.then = "start", !.node = h, !.mode = mode]
                          ELSE Idle
  BY DEF ApplySelection
<1>2. PICK s : s = [selector EXCEPT !.health = health] OBVIOUS
<1>3. PICK h \in Select(s) :
         /\ selector' = [s EXCEPT !.active = h]
         /\ IF h = "none"
            THEN op' = IF stops THEN [Idle EXCEPT !.pc = "stop"] ELSE Idle
            ELSE op' = IF h # selector.active \/ force
                       THEN [Idle EXCEPT !.pc = "stop", !.then = "start", !.node = h, !.mode = mode]
                       ELSE Idle
  BY <1>1, <1>2
<1>4. s \in Selectors BY <1>2 DEF ConnectInv, ConnectTypeOK, Selectors
<1>5. h # "none" => h \in Candidates
  BY <1>4, SelectedIsCandidate DEF Selectors
<1>6. Candidates \subseteq Hosts
  BY DEF Candidates, ConnectInv, ConnectTypeOK, CacheFits, IssuedInOrder
<1>7. selector' \in Selectors
  BY <1>3, <1>4, <1>5, <1>6 DEF Selectors
<1>8. CASE h = "none" BY <1>3, <1>7, <1>8
<1>9. CASE h # "none"
  <2>1. h \in Candidates BY <1>5, <1>9
  <2> QED BY <1>3, <1>7, <1>9, <2>1
<1> QED BY <1>8, <1>9

LEMMA SelectionSide ==
    ASSUME ConnectInv,
           \/ \E mode \in {"system", "manual"} : ConnectOperation(mode)
           \/ MaintainConnection \/ FetchNotModifiedRecovers \/ ApplyRefreshed
    PROVE  ConnectInv'
<1>1. CASE \E mode \in {"system", "manual"} : ConnectOperation(mode)
  <2>1. PICK mode \in {"system", "manual"} : ConnectOperation(mode) BY <1>1
  <2>2. CASE bundle.expired
    BY <2>1, <2>2, SelectionMoves DEF ConnectOperation, ConnectInv, ConnectTypeOK
  <2>3. CASE ~ bundle.expired
    <3>1. mode \in ProxyModes /\ ApplySelection(mode, FALSE, TRUE)
      BY <2>1, <2>3 DEF ConnectOperation, ProxyModes
    <3>2. /\ op.pc = "idle" /\ UNCHANGED <<offered, cache, bundle, xray, exited, monitor, proxy>>
      BY <2>1 DEF ConnectOperation
    <3> QED BY <3>1, <3>2, ApplySelectionEnds, SelectionMoves
  <2> QED BY <2>2, <2>3
<1>2. CASE MaintainConnection
  <2>2. CASE bundle.expired
    BY <1>2, <2>2, SelectionMoves DEF MaintainConnection, ConnectInv, ConnectTypeOK
  <2>3. CASE ~ bundle.expired
    <3>1. PICK mode \in ProxyModes, force \in BOOLEAN : ApplySelection(mode, force, FALSE)
      BY <1>2, <2>3 DEF MaintainConnection, ConnectInv, ConnectTypeOK, Supervisors
    <3>2. /\ op.pc = "idle" /\ UNCHANGED <<offered, cache, bundle, xray, exited, monitor, proxy>>
      BY <1>2 DEF MaintainConnection
    <3>3. /\ selector' \in Selectors
          /\ \/ op' = Idle
             \/ op' = [Idle EXCEPT !.pc = "stop"]
             \/ \E h \in Candidates :
                    op' = [Idle EXCEPT !.pc = "stop", !.then = "start", !.node = h, !.mode = mode]
      BY <3>1, ApplySelectionEnds
    <3> QED BY <3>2, <3>3, SelectionMoves
  <2> QED BY <2>2, <2>3
<1>3. CASE FetchNotModifiedRecovers
  <2>1. PICK h \in Select(selector) :
           /\ selector' = [selector EXCEPT !.active = h]
           /\ op' = IF h = "none" THEN [Idle EXCEPT !.pc = "stop"]
                    ELSE [Idle EXCEPT !.pc = "stop", !.then = "start", !.node = h, !.mode = op.mode]
    BY <1>3 DEF FetchNotModifiedRecovers
  <2>2. /\ op.pc = "fetch" /\ UNCHANGED <<offered, cache, bundle, xray, exited, monitor, proxy>>
        /\ op.mode \in ProxyModes /\ selector \in Selectors
    BY <1>3 DEF FetchNotModifiedRecovers, ConnectInv, ConnectTypeOK, OperationStates
  <2>3. h # "none" => h \in Candidates
    BY <2>2, SelectedIsCandidate DEF Selectors
  <2>4. Candidates \subseteq Hosts
    BY DEF Candidates, ConnectInv, ConnectTypeOK, CacheFits, IssuedInOrder
  <2>5. selector' \in Selectors
    BY <2>1, <2>2, <2>3, <2>4 DEF Selectors
  <2>6. CASE h = "none" BY <2>1, <2>2, <2>5, <2>6, SelectionMoves
  <2>7. CASE h # "none"
    <3>1. \E k \in Candidates, mode \in ProxyModes :
              op' = [Idle EXCEPT !.pc = "stop", !.then = "start", !.node = k, !.mode = mode]
      BY <2>1, <2>2, <2>3, <2>7
    <3> QED BY <2>2, <2>5, <3>1, SelectionMoves
  <2> QED BY <2>6, <2>7
<1>4. CASE ApplyRefreshed
  <2>1. /\ ApplySelection(op.mode, TRUE, TRUE) /\ op.mode \in ProxyModes /\ op.pc = "apply"
        /\ UNCHANGED <<offered, cache, bundle, xray, exited, monitor, proxy>>
    BY <1>4 DEF ApplyRefreshed, ConnectInv, ConnectTypeOK, OperationStates
  <2>2. PICK mode \in ProxyModes : mode = op.mode BY <2>1
  <2>3. ApplySelection(mode, TRUE, TRUE) BY <2>1, <2>2
  <2>4. /\ selector' \in Selectors
        /\ \/ op' = Idle /\ ~(TRUE /\ TRUE)
           \/ op' = [Idle EXCEPT !.pc = "stop"]
           \/ \E h \in Candidates :
                  op' = [Idle EXCEPT !.pc = "stop", !.then = "start", !.node = h, !.mode = mode]
    BY <2>3, ApplySelectionEnds
  <2> QED BY <2>1, <2>4, SelectionMoves
<1> QED BY <1>1, <1>2, <1>3, <1>4

\* The end of a restoration: with the user's settings and no journal when it succeeded.
LEMMA RestorationEnds ==
    ASSUME ConnectInv, NEW ok \in BOOLEAN, AfterRestore(ok), op.pc \in {"restore", "clear"},
           monitor # "clear", proxy' \in Proxies, JournalHoldsUserSettings',
           ok => proxy' = [settings |-> "user", journal |-> "none"],
           UNCHANGED <<offered, cache, bundle, selector, exited, monitor>>
    PROVE  ConnectInv'
<1> USE DEF ConnectInv, ConnectTypeOK
<1>1. op.step \in RestoreSteps BY DEF OperationFits
<1>2. /\ op' \in OperationStates /\ xray' \in Supervisors
      /\ xray'.child = xray.child
      /\ op'.pc \in {"begin", "take", "start", "purge", "idle", "capture", "fail"}
      /\ op'.pc = "idle" => op' = Idle
      /\ op'.pc \in {"begin", "start"} => op'.then = "starting"
      /\ op'.then \in {"start", "starting"} => op.then \in {"start", "starting"} /\ op'.node = op.node
      /\ op'.pc = "capture" => ok
      /\ op'.pc \in {"capture", "fail"} => RestoringFor("apply") \/ RestoringFor("rollback")
      /\ op'.pc \in {"capture", "fail"} => xray' = xray
      /\ op'.pc = "begin" => RestoringFor("recover") /\ op.then = "starting" /\ xray'.phase = xray.phase
      /\ op'.pc \in {"start", "purge"} => xray'.phase = "disconnected"
      /\ xray'.phase = "disconnected" => ok /\ xray.child = "none"
      /\ xray'.phase = "starting" => op'.pc \in {"capture", "fail"}
      /\ xray'.phase = "connected" => op'.pc = "take"
  <2> USE <1>1 DEF RestoringFor, StartUnderWay, NothingRuns, ChildFits, RestoreSteps
  <2>1. CASE op.step = "recover" /\ ok
    <3>1. /\ xray' = [xray EXCEPT !.recovered = TRUE]
          /\ op' = [op EXCEPT !.pc = IF op.then = "starting" THEN "begin" ELSE "take"]
      BY <2>1, AfterRestoreDoes
    <3>2. xray' \in Supervisors /\ xray'.phase = xray.phase /\ xray'.child = xray.child
      BY <3>1 DEF Supervisors
    <3>3. op' \in OperationStates /\ op'.then = op.then /\ op'.node = op.node
          /\ op'.pc = IF op.then = "starting" THEN "begin" ELSE "take"
      BY <3>1 DEF OperationStates, OperationPoints
    <3> QED BY <2>1, <3>2, <3>3
  <2>2. CASE op.step = "stop" /\ ok
    <3>1. /\ xray' = [xray EXCEPT !.recovered = TRUE, !.phase = "disconnected",
                                  !.profile = NoProfile, !.mode = "none"]
          /\ op.then = "start" => op' = [op EXCEPT !.pc = "start", !.then = "starting"]
          /\ op.then = "purge" => op' = [Idle EXCEPT !.pc = "purge"]
          /\ op.then \notin {"start", "purge"} => op' = Idle
      BY <2>2, AfterRestoreDoes
    <3>2. xray' \in Supervisors /\ xray'.phase = "disconnected" /\ xray'.child = xray.child
      BY <3>1 DEF Supervisors, NoProfile, Profiles, Phases, ProxyModes
    <3>3. op.then = "start" => op' \in OperationStates /\ op'.pc = "start" /\ op'.then = "starting"
                               /\ op'.node = op.node
      BY <3>1 DEF OperationStates, OperationPoints, Continuations
    <3>4. op.then = "purge" => op' \in OperationStates /\ op'.pc = "purge" /\ op'.then = "done"
      BY <3>1 DEF Idle, OperationStates, OperationPoints, Continuations, ProxyModes
    <3>5. op.then \notin {"start", "purge"} =>
              op' = Idle /\ op' \in OperationStates /\ op'.pc = "idle" /\ op'.then = "done"
      BY <3>1 DEF Idle, OperationStates, OperationPoints, Continuations, ProxyModes
    <3> QED BY <2>2, <3>2, <3>3, <3>4, <3>5
  <2>3. CASE op.step = "failed" /\ ok
    <3>1. xray' = [xray EXCEPT !.recovered = TRUE] /\ op' = Idle
      BY <2>3, AfterRestoreDoes
    <3>2. xray' \in Supervisors /\ xray'.phase = xray.phase /\ xray'.child = xray.child
      BY <3>1 DEF Supervisors
    <3>3. op' \in OperationStates /\ op'.pc = "idle" /\ op'.then = "done"
      BY <3>1 DEF Idle, OperationStates, OperationPoints, Continuations, ProxyModes
    <3>4. xray.phase = "failed" BY <2>3
    <3> QED BY <2>3, <3>1, <3>2, <3>3, <3>4
  <2>4. CASE op.step \in {"apply", "rollback"}
    <3>1. xray' = xray /\ (op' = [op EXCEPT !.pc = "fail"] \/ (ok /\ op' = [op EXCEPT !.pc = "capture"]))
      BY <2>4, AfterRestoreDoes
    <3>2. /\ op' \in OperationStates /\ op'.then = op.then /\ op'.node = op.node
          /\ op'.pc = "fail" \/ (ok /\ op'.pc = "capture")
      BY <3>1 DEF OperationStates, OperationPoints
    <3>3. xray.phase \in {"starting", "failed"} BY <2>4
    <3> QED BY <2>4, <3>1, <3>2, <3>3
  <2>5. CASE op.step \in {"recover", "stop", "failed"} /\ ~ok
    <3>1. xray' = [xray EXCEPT !.recovered = FALSE, !.phase = "failed"] /\ op' = Idle
      BY <2>5, AfterRestoreDoes
    <3>2. xray' \in Supervisors /\ xray'.phase = "failed" /\ xray'.child = xray.child
      BY <3>1 DEF Supervisors, Phases
    <3>3. op' \in OperationStates /\ op'.pc = "idle" /\ op'.then = "done"
      BY <3>1 DEF Idle, OperationStates, OperationPoints, Continuations, ProxyModes
    <3> QED BY <3>1, <3>2, <3>3
  <2> QED BY <2>1, <2>2, <2>3, <2>4, <2>5
<1>3. ConnectTypeOK' /\ IssuedInOrder'
  BY <1>2 DEF IssuedInOrder, Issued
<1>4. OperationFits'
  BY <1>2 DEF OperationFits
<1>5. ProxyFits'
  BY <1>2 DEF ProxyFits, OperationHoldsProxy
<1>6. ChildFits'
  BY <1>2 DEF ChildFits, RestoringFor, StartUnderWay, NothingRuns
<1>7. RunsInForce'
  BY <1>2 DEF RunsInForce, ProfileIsCurrent, RestoringFor, StartUnderWay
<1>8. CacheFits'
  BY <1>2 DEF CacheFits, Issued
<1>9. DisconnectedIsClean'
  BY <1>2 DEF DisconnectedIsClean
<1> QED BY <1>3, <1>4, <1>5, <1>6, <1>7, <1>8, <1>9

LEMMA RestoreSide ==
    ASSUME ConnectInv, RestoreNothing \/ RestoreSettings \/ ClearJournal
    PROVE  ConnectInv'
<1> USE DEF ConnectInv, ConnectTypeOK
<1>1. CASE RestoreNothing
  <2>1. proxy = [settings |-> "user", journal |-> "none"]
    BY <1>1 DEF RestoreNothing, JournalHoldsUserSettings, Proxies
  <2>2. /\ AfterRestore(TRUE) /\ op.pc \in {"restore", "clear"} /\ monitor # "clear"
        /\ UNCHANGED <<offered, cache, bundle, selector, exited, monitor, proxy>>
    BY <1>1 DEF RestoreNothing, MonitorHoldsProxy
  <2>3. JournalHoldsUserSettings' BY <2>2 DEF JournalHoldsUserSettings
  <2> QED BY <2>1, <2>2, <2>3, RestorationEnds
<1>2. CASE RestoreSettings
  <2>1. /\ op.pc = "restore" /\ monitor # "clear" /\ proxy.journal = "user"
        /\ UNCHANGED <<offered, cache, bundle, selector, exited, monitor>>
    BY <1>2 DEF RestoreSettings, MonitorHoldsProxy, JournalHoldsUserSettings
  <2>2. CASE AdapterRestores /\ op' = [op EXCEPT !.pc = "clear"] /\ UNCHANGED xray
    <3>1. proxy' \in Proxies /\ proxy'.settings = "user" /\ proxy'.journal = "user"
      BY <2>1, <2>2 DEF AdapterRestores, Proxies, Settings
    <3>2. /\ op' \in OperationStates /\ op'.pc = "clear" /\ op'.step = op.step /\ op'.then = op.then
          /\ op'.node = op.node
      BY <2>2 DEF OperationStates, OperationPoints
    <3>3. ConnectTypeOK' /\ IssuedInOrder'
      BY <2>1, <2>2, <3>1, <3>2 DEF IssuedInOrder, Issued
    <3>4. OperationFits' BY <2>1, <3>2 DEF OperationFits
    <3>5. ProxyFits' /\ JournalHoldsUserSettings'
      BY <2>1, <3>1, <3>2 DEF ProxyFits, OperationHoldsProxy, JournalHoldsUserSettings
    <3>6. ChildFits'
      BY <2>1, <2>2, <3>2 DEF ChildFits, RestoringFor, StartUnderWay, NothingRuns
    <3>7. RunsInForce'
      BY <2>1, <2>2, <3>2 DEF RunsInForce, ProfileIsCurrent, RestoringFor, StartUnderWay
    <3>8. CacheFits' BY <2>1, <3>2 DEF CacheFits, Issued
    <3>9. DisconnectedIsClean' BY <2>1, <2>2 DEF DisconnectedIsClean
    <3> QED BY <3>3, <3>4, <3>5, <3>6, <3>7, <3>8, <3>9
  <2>3. CASE AdapterFails /\ AfterRestore(FALSE)
    <3>1. proxy' \in Proxies /\ proxy'.journal = "user"
      BY <2>1, <2>3 DEF AdapterFails, Proxies, Settings
    <3>2. JournalHoldsUserSettings' BY <3>1 DEF JournalHoldsUserSettings
    <3> QED BY <2>1, <2>3, <3>1, <3>2, RestorationEnds
  <2> QED BY <1>2, <2>2, <2>3 DEF RestoreSettings
<1>3. CASE ClearJournal
  <2>1. /\ op.pc = "clear" /\ monitor # "clear" /\ proxy.settings = "user"
        /\ UNCHANGED <<offered, cache, bundle, selector, exited, monitor>>
    BY <1>3 DEF ClearJournal, ProxyFits, OperationHoldsProxy
  <2>2. CASE proxy' = [proxy EXCEPT !.journal = "none"] /\ AfterRestore(TRUE)
    <3>1. proxy' = [settings |-> "user", journal |-> "none"] /\ proxy' \in Proxies
      BY <2>1, <2>2 DEF Proxies, Settings
    <3>2. JournalHoldsUserSettings' BY <3>1 DEF JournalHoldsUserSettings
    <3> QED BY <2>1, <2>2, <3>1, <3>2, RestorationEnds
  <2>3. CASE UNCHANGED proxy /\ AfterRestore(FALSE)
    <3>1. JournalHoldsUserSettings' BY <2>3 DEF JournalHoldsUserSettings
    <3> QED BY <2>1, <2>3, <3>1, RestorationEnds
  <2> QED BY <1>3, <2>2, <2>3 DEF ClearJournal
<1> QED BY <1>1, <1>2, <1>3

\* The user's settings can always be given back, disconnected means untouched and connected
\* means the installed bundle: for every set of hosts, priorities, selection modes and
\* bundles, wherever a step fails, a child exits or the process dies (system_proxy.rs,
\* process.rs, connect_service.rs, bundle.rs).
THEOREM ConnectionSafe == ConnectionSpec => []ConnectionIsSafe
<1>1. ConnectionInit => ConnectInv
  <2> SUFFICES ASSUME ConnectionInit PROVE ConnectInv OBVIOUS
  <2> USE DEF ConnectionInit
  <2>1. /\ cache \in CacheStates /\ bundle \in BundleStates /\ selector \in Selectors
        /\ xray \in Supervisors /\ proxy \in Proxies
    BY NewSelectorFits DEF EmptyCache, CacheStates, Unbundled, BundleStates, NewSupervisor,
       Supervisors, NoProfile, Profiles, Phases, ProxyModes, UserSettings, Proxies, Settings
  <2>2. op \in OperationStates /\ op.pc = "idle" /\ op.then = "done" /\ op = Idle
    BY DEF Idle, OperationStates, OperationPoints, RestoreSteps, Continuations, ProxyModes
  <2>3. ConnectTypeOK BY <2>1, <2>2 DEF ConnectTypeOK
  <2>4. IssuedInOrder
    <3>1. Issued = {} /\ 1 .. 0 = {} BY DEF Issued
    <3>2. \E n \in Nat : Issued = 1 .. n BY <3>1
    <3> QED BY <3>1, <3>2 DEF IssuedInOrder
  <2>5. OperationFits /\ CacheFits
    BY <2>2 DEF OperationFits, CacheFits, EmptyCache, Unbundled
  <2>6. ChildFits /\ RunsInForce /\ DisconnectedIsClean
    BY <2>2 DEF ChildFits, RunsInForce, DisconnectedIsClean, RestoringFor, StartUnderWay,
                NothingRuns, NewSupervisor
  <2>7. ProxyFits /\ JournalHoldsUserSettings
    BY <2>2 DEF ProxyFits, OperationHoldsProxy, JournalHoldsUserSettings, UserSettings
  <2> QED BY <2>3, <2>4, <2>5, <2>6, <2>7 DEF ConnectInv
<1>2. ConnectInv /\ [ConnectionNext]_connectionVars => ConnectInv'
  <2> SUFFICES ASSUME ConnectInv, [ConnectionNext]_connectionVars PROVE ConnectInv'
    OBVIOUS
  <2>1. CASE BundleNext
    BY <2>1, IssueBundleHolds, DamageFileHolds, OfflineExpiresHolds, RestoreBundleHolds,
       RestoreBundleFailsHolds, InstallFailsHolds,
       BeginRefreshHolds, FetchFailsHolds, FetchNotModifiedHolds, InstallFileHolds,
       InstallPointerHolds, InstallSameHolds, ActivateVerifiedHolds, SelectionSide
       DEF BundleNext
  <2>2. CASE OperationNext
    BY <2>2, SelectionSide, SetSelectionModeHolds, StopOperationHolds, LogoutOperationHolds,
       PurgeHolds, PurgeFailsHolds
       DEF OperationNext
  <2>3. CASE SupervisorNext
    BY <2>3, EnterStopHolds, TakeChildHolds, EnterStartHolds, BeginStartHolds, PortsReadyHolds,
       StartObservesExitHolds, StartTimesOutHolds, MarkConnectedHolds, FailStartHolds,
       CaptureSettingsHolds, SwitchSettingsHolds, RestoreSide, ChildExitsHolds,
       HandleTerminationHolds, MonitorRestoresHolds, MonitorClearsHolds, ConnectDiesHolds,
       StopBlockingHolds
       DEF SupervisorNext
  <2>4. CASE UNCHANGED connectionVars
    BY <2>4 DEF connectionVars, ConnectInv, ConnectTypeOK, IssuedInOrder, OperationFits, ProxyFits,
       ChildFits, RunsInForce, CacheFits, JournalHoldsUserSettings, DisconnectedIsClean, Issued,
       ProfileIsCurrent, RestoringFor, StartUnderWay, NothingRuns, OperationHoldsProxy
  <2> QED BY <2>1, <2>2, <2>3, <2>4 DEF ConnectionNext
<1>3. ConnectInv => ConnectionIsSafe
  BY DEF ConnectInv, ConnectionIsSafe, RunsCurrentBundle, RunsInForce, ProfileIsCurrent, CacheFits
<1> QED BY <1>1, <1>2, <1>3, PTL DEF ConnectionSpec

-----------------------------------------------------------------------------
(* Sessions: the service's refresh tables against Connect's vault *)

Pairs == Nat \X Nat
SessionRows == [generation : Nat, current : Pairs, previous : Pairs, version : Nat,
                ended : {"no", "revoked", "refresh-reuse"}]
RefreshRecords == [credential : Pairs, rotation : Nat, key : Nat]
StoredRefresh == [slot : {0, 1}, record : RefreshRecords]
Vaults == [installed : Nat, pending : [Operations -> Nat], device : [Ids -> Nat],
           refresh : [Ids -> [{0, 1} -> {None} \cup RefreshRecords]]]
Memories == [bound : Nat, refresh : {None} \cup StoredRefresh, access : BOOLEAN]

CreateRequests == [kind : {"create"}, operation : Operations, identity : Nat \ {0}]
RefreshRequests == [kind : {"refresh"}, session : Ids, credential : Pairs, key : Nat \ {0}]
LogoutRequests == [kind : {"logout"}, session : Ids, credential : Pairs]
Grants == [kind : {"granted"}, session : Ids, credential : Pairs]
Done == [kind |-> "done"]
Committing == {"commit refresh", "commit installed", "commit cleanup"}
SessionPoints ==
    {"idle", "creating", "refreshing", "leaving", "rotated", "forgetting", "forgotten"}
        \cup Committing

ServerTypeOK ==
    /\ accountRow \in [status : {"active", "disabled", "deleted"}, version : Nat]
    /\ sessions \in [DOMAIN sessions -> SessionRows]
    /\ \E n \in 0 .. MaxSession : DOMAIN sessions = 1 .. n
    /\ records \subseteq (DOMAIN sessions) \X Nat \X (Nat \ {0})
    /\ created \in [DOMAIN created -> DOMAIN sessions] /\ DOMAIN created \subseteq CreateRequests

ManagerTypeOK ==
    /\ vault \in Vaults /\ memory \in Memories /\ pc \in SessionPoints
    /\ late \subseteq CreateRequests \cup RefreshRequests
    /\ fresh \in Nat /\ discarded \subseteq DOMAIN sessions

\* The credentials of a session carry their generation, and each rotation has one record.
GenerationsFit ==
    /\ \A s \in DOMAIN sessions :
          /\ sessions[s].current[1] = sessions[s].generation
          /\ sessions[s].generation = 0 => sessions[s].current = <<0, 0>>
          /\ sessions[s].generation > 0 =>
                /\ sessions[s].previous[1] = sessions[s].generation - 1
                /\ <<s, sessions[s].generation - 1, sessions[s].current[2]>> \in records
    /\ \A r \in records : r[2] < sessions[r[1]].generation
    /\ \A r, t \in records : r[1] = t[1] /\ r[2] = t[2] => r = t

\* Nothing is open that an account's status or a newer version closed.
EndingsFit ==
    \A s \in DOMAIN sessions :
        /\ sessions[s].version <= accountRow.version
        /\ accountRow.status # "active" => sessions[s].ended # "no"

\* What the operation that holds the lock has sent or received.
SentFits ==
    /\ pc \in {"idle", "forgetting", "forgotten"} => sent = None
    /\ pc = "creating" => sent \in CreateRequests \cup {Refused} \cup Grants
    /\ pc = "refreshing" => sent \in RefreshRequests \cup {Refused} \cup Grants
    /\ pc = "leaving" => sent \in LogoutRequests \cup {Refused, Done}
    /\ pc \in Committing \cup {"rotated"} => sent \in Grants
    /\ pc \in {"creating"} \cup Committing /\ sent \in Grants =>
          sent.session \in DOMAIN sessions /\ sent.credential = <<0, 0>>
    /\ pc \in {"refreshing", "rotated", "leaving"} =>
          (sent \in RefreshRequests \cup LogoutRequests \cup Grants => sent.session = memory.bound)
    /\ pc = "refreshing" /\ sent \in RefreshRequests =>
          /\ sent.credential = memory.refresh.record.credential
          /\ sent.key = memory.refresh.record.key

\* Which account is installed and bound while an operation is at its steps.
BoundFits ==
    /\ vault.installed \in {0} \cup DOMAIN sessions
    /\ pc \in {"creating", "commit refresh", "commit installed"} =>
          memory.bound = 0 /\ vault.installed = 0
    /\ pc = "commit cleanup" => memory.bound = 0 /\ vault.installed = sent.session
    /\ pc \in {"refreshing", "rotated", "leaving", "forgetting", "forgotten"} => memory.bound # 0
    /\ pc = "forgotten" => vault.installed = 0 /\ memory.bound \in discarded
    /\ memory.bound # 0 =>
          memory.refresh # None /\ (pc # "forgotten" => vault.installed = memory.bound)

\* An account is installed after its device and a refresh record were written.
DeviceFits ==
    /\ vault.installed # 0 =>
          vault.device[vault.installed] # 0 /\ StoredSlots(vault.installed) # {}
    /\ pc \in Committing => vault.device[sent.session] # 0
    /\ pc = "commit installed" =>
          vault.refresh[sent.session][0] = [credential |-> <<0, 0>>, rotation |-> 1, key |-> 0]
    /\ pc = "rotated" => vault.refresh[memory.bound][1 - memory.refresh.slot] # None

\* The refresh requests of session s that may still be handled.
InFlight(s) == {q \in (late \cup {sent}) \cap RefreshRequests : q.session = s}

\* A session that was never installed was never refreshed.
NeverInstalled(s) ==
    /\ vault.refresh[s][1] = None /\ InFlight(s) = {}
    /\ s \in DOMAIN sessions => sessions[s].generation = 0

\* Record r opens session s, and so would its repetition.
Opens(s, r) ==
    \/ r.credential = sessions[s].current
    \/ /\ sessions[s].generation > 0 /\ r.credential = sessions[s].previous
       /\ <<s, sessions[s].generation - 1, r.key>> \in records

\* Request q was made with record r or with one that a recorded rotation replaced.
MadeWith(s, r, q) ==
    \/ q.credential = r.credential /\ q.key = r.key
    \/ q.credential[1] < r.credential[1] /\ <<s, q.credential[1], q.key>> \in records

\* Slot i of session s holds the newest record, which opens the session whatever is under way.
Kept(s, i) ==
    /\ vault.refresh[s][i] # None
    /\ vault.refresh[s][1 - i] = None
          \/ vault.refresh[s][1 - i].rotation < vault.refresh[s][i].rotation
    /\ Opens(s, vault.refresh[s][i])
    /\ \A q \in InFlight(s) : MadeWith(s, vault.refresh[s][i], q)
    /\ memory.bound = s => IF pc = "rotated"
                             THEN memory.refresh.slot = 1 - i
                             ELSE memory.refresh = [slot |-> i, record |-> vault.refresh[s][i]]
    /\ pc = "refreshing" /\ sent \in Grants =>
          sent.credential = sessions[s].current /\ vault.refresh[s][i].credential # sessions[s].current

VaultFits ==
    \A s \in Ids \ discarded : IF s = vault.installed THEN \E i \in {0, 1} : Kept(s, i)
                                                     ELSE NeverInstalled(s)

SessionsInv ==
    /\ ServerTypeOK /\ ManagerTypeOK /\ GenerationsFit /\ EndingsFit /\ SentFits
    /\ BoundFits /\ DeviceFits /\ VaultFits /\ OneDevicePerRequest /\ RetriesAreNotReuse

LEMMA AnswersDiffer ==
  /\ None \notin CreateRequests \cup RefreshRequests \cup LogoutRequests \cup Grants \cup {Refused, Done}
  /\ Refused \notin CreateRequests \cup RefreshRequests \cup LogoutRequests \cup Grants \cup {Done}
  /\ Done \notin CreateRequests \cup RefreshRequests \cup LogoutRequests \cup Grants
  /\ \A q \in CreateRequests : q \notin RefreshRequests \cup LogoutRequests \cup Grants
  /\ \A q \in RefreshRequests : q \notin LogoutRequests \cup Grants
  /\ \A q \in LogoutRequests : q \notin Grants
  /\ None \notin RefreshRecords \cup StoredRefresh
<1>1. None \notin CreateRequests BY DEF None, CreateRequests
<1>2. None \notin RefreshRequests BY DEF None, RefreshRequests
<1>3. None \notin LogoutRequests BY DEF None, LogoutRequests
<1>4. None \notin Grants BY DEF None, Grants
<1>5. None # Refused /\ None # Done /\ Refused # Done BY DEF None, Refused, Done
<1>6. Refused \notin CreateRequests BY DEF Refused, CreateRequests
<1>7. Refused \notin RefreshRequests BY DEF Refused, RefreshRequests
<1>8. Refused \notin LogoutRequests BY DEF Refused, LogoutRequests
<1>9. Refused \notin Grants BY DEF Refused, Grants
<1>10. Done \notin CreateRequests BY DEF Done, CreateRequests
<1>11. Done \notin RefreshRequests BY DEF Done, RefreshRequests
<1>12. Done \notin LogoutRequests BY DEF Done, LogoutRequests
<1>13. Done \notin Grants BY DEF Done, Grants
<1>14. \A q \in CreateRequests : q.kind = "create" BY DEF CreateRequests
<1>15. \A q \in RefreshRequests : q.kind = "refresh" BY DEF RefreshRequests
<1>16. \A q \in LogoutRequests : q.kind = "logout" BY DEF LogoutRequests
<1>17. \A q \in Grants : q.kind = "granted" BY DEF Grants
<1>18. None \notin RefreshRecords BY DEF None, RefreshRecords
<1>19. None \notin StoredRefresh BY DEF None, StoredRefresh
<1> QED BY <1>1, <1>2, <1>3, <1>4, <1>5, <1>6, <1>7, <1>8, <1>9, <1>10, <1>11, <1>12,
           <1>13, <1>14, <1>15, <1>16, <1>17, <1>18, <1>19

\* The tables' own part of the invariant.
ServerInv == ServerTypeOK /\ GenerationsFit /\ EndingsFit /\ OneDevicePerRequest

\* What a step of the service leaves of a session that Connect still holds.
StillOpens ==
    /\ DOMAIN sessions \subseteq DOMAIN sessions' /\ records \subseteq records'
    /\ \A s \in DOMAIN sessions, r \in RefreshRecords :
          Opens(s, r) /\ (\A q \in InFlight(s) : MadeWith(s, r, q)) =>
              /\ Opens(s, r)'
              /\ sessions[s].ended = "refresh-reuse" \/ sessions[s]'.ended # "refresh-reuse"

\* What no longer opens anything stays so, and is not rotated.
StaysEnded ==
    \A s \in DOMAIN sessions : ~Live(s) => ~Live(s)' /\ sessions'[s].generation = sessions[s].generation

LEMMA RotationFits ==
  ASSUME ServerInv, NEW q \in RefreshRequests, NEW answer,
         q \in InFlight(q.session), q.session \in DOMAIN sessions, RefreshRotates(q, answer)
  PROVE  /\ ServerInv' /\ StillOpens /\ StaysEnded
         /\ DOMAIN sessions' = DOMAIN sessions
         /\ \A s \in DOMAIN sessions : s # q.session => sessions[s]' = sessions[s]
         /\ sessions[q.session].current = q.credential /\ sessions[q.session]'.current # q.credential
         /\ answer = Granted(q.session, sessions[q.session]'.current)
         /\ sessions[q.session]'.current \in Pairs
<1>1. PICK s : s = q.session OBVIOUS
<1>2. PICK g : g = sessions[s].generation OBVIOUS
<1>3. g \in Nat /\ sessions[s] \in SessionRows /\ q.key \in Nat \ {0} /\ s \in DOMAIN sessions
  BY <1>1, <1>2 DEF ServerInv, ServerTypeOK, SessionRows, RefreshRequests
<1>4. PICK row : row = [generation |-> g + 1, current |-> <<g + 1, q.key>>,
                        previous |-> sessions[s].current, version |-> sessions[s].version,
                        ended |-> sessions[s].ended]
  OBVIOUS
<1>5. row \in SessionRows
  <2>1. <<g + 1, q.key>> \in Pairs BY <1>3 DEF Pairs
  <2>2. sessions[s].current \in Pairs /\ sessions[s].version \in Nat
            /\ sessions[s].ended \in {"no", "revoked", "refresh-reuse"}
    BY <1>3 DEF SessionRows
  <2> QED BY <1>3, <1>4, <2>1, <2>2 DEF SessionRows
<1>6. sessions' = [sessions EXCEPT ![s] = row]
  <2>1. sessions \in [DOMAIN sessions -> SessionRows] BY DEF ServerInv, ServerTypeOK
  <2>2. sessions[s] = [generation |-> sessions[s].generation, current |-> sessions[s].current,
                       previous |-> sessions[s].previous, version |-> sessions[s].version,
                       ended |-> sessions[s].ended]
    BY <1>3 DEF SessionRows
  <2>3. sessions' = [sessions EXCEPT ![s].generation = g + 1,
                               ![s].previous = sessions[s].current,
                               ![s].current = <<g + 1, q.key>>]
    BY <1>1, <1>2 DEF RefreshRotates
  <2>4. PICK old : old = sessions[s] OBVIOUS
  <2>5. PICK c, p, v, e : c = old.current /\ p = old.previous /\ v = old.version /\ e = old.ended
    OBVIOUS
  <2>6. old = [generation |-> g, current |-> c, previous |-> p, version |-> v, ended |-> e]
    BY <1>2, <2>2, <2>4, <2>5
  <2>7. PICK mid :
            mid = [generation |-> g + 1, current |-> c, previous |-> p, version |-> v, ended |-> e]
    OBVIOUS
  <2>8. PICK new :
            new = [generation |-> g + 1, current |-> c, previous |-> c, version |-> v, ended |-> e]
    OBVIOUS
  <2>9. [old EXCEPT !.generation = g + 1] = mid /\ [mid EXCEPT !.previous = c] = new
    BY <2>6, <2>7, <2>8
  <2>10. [new EXCEPT !.current = <<g + 1, q.key>>] = row
    BY <1>4, <2>4, <2>5, <2>8
  <2>11. [[[old EXCEPT !.generation = g + 1] EXCEPT !.previous = c] EXCEPT !.current = <<g + 1, q.key>>]
           = row
    BY <2>9, <2>10
  <2> QED BY <1>3, <2>1, <2>3, <2>4, <2>5, <2>11
<1>7. row.generation = g + 1 /\ row.current = <<g + 1, q.key>> /\ row.previous = sessions[s].current
      /\ row.version = sessions[s].version /\ row.ended = sessions[s].ended
  BY <1>4
<1>8. /\ sessions' \in [DOMAIN sessions -> SessionRows] /\ sessions'[s] = row
      /\ DOMAIN sessions' = DOMAIN sessions
      /\ \A t \in DOMAIN sessions : t # s => sessions'[t] = sessions[t]
  BY <1>3, <1>5, <1>6 DEF ServerInv, ServerTypeOK
<1>9. records' = records \cup {<<s, g, q.key>>} /\ UNCHANGED <<accountRow, created>>
      /\ sessions[s].current = q.credential
      /\ answer = Granted(s, <<g + 1, q.key>>) /\ Live(s)
  BY <1>1, <1>2 DEF RefreshRotates, PresentsCurrent
<1>10. sessions[s].current[1] = g
  BY <1>2, <1>3 DEF ServerInv, GenerationsFit
<1>11. ServerTypeOK'
  BY <1>3, <1>8, <1>9 DEF ServerInv, ServerTypeOK
<1>12. GenerationsFit'
  <2>1. \A r \in records : r \in (DOMAIN sessions) \X Nat \X (Nat \ {0})
    BY DEF ServerInv, ServerTypeOK
  <2>2. \A r \in records : r[2] < sessions[r[1]].generation
    BY DEF ServerInv, GenerationsFit
  <2>3. \A r \in records : r[1] = s => r[2] < g
    BY <1>2, <2>2
  <2>4. \A r \in records' : r[2] < sessions'[r[1]].generation
    BY <1>3, <1>7, <1>8, <1>9, <2>1, <2>2, <2>3
  <2>5. \A r, t \in records' : r[1] = t[1] /\ r[2] = t[2] => r = t
    BY <1>3, <1>9, <2>1, <2>3 DEF ServerInv, GenerationsFit
  <2>6. ASSUME NEW t \in DOMAIN sessions
        PROVE  /\ sessions'[t].current[1] = sessions'[t].generation
               /\ sessions'[t].generation = 0 => sessions'[t].current = <<0, 0>>
               /\ sessions'[t].generation > 0 =>
                     /\ sessions'[t].previous[1] = sessions'[t].generation - 1
                     /\ <<t, sessions'[t].generation - 1, sessions'[t].current[2]>> \in records'
    <3>1. CASE t = s
      BY <1>3, <1>7, <1>8, <1>9, <1>10, <3>1
    <3>2. CASE t # s
      BY <1>8, <1>9, <3>2 DEF ServerInv, GenerationsFit
    <3> QED BY <3>1, <3>2
  <2> QED BY <1>8, <2>4, <2>5, <2>6 DEF GenerationsFit
<1>13. EndingsFit'
  BY <1>7, <1>8, <1>9 DEF ServerInv, EndingsFit
<1>14. OneDevicePerRequest'
  BY <1>8, <1>9 DEF ServerInv, OneDevicePerRequest
<1>15. ASSUME NEW t \in DOMAIN sessions, NEW r \in RefreshRecords, Opens(t, r),
              \A p \in InFlight(t) : MadeWith(t, r, p)
       PROVE  Opens(t, r)' /\ sessions'[t].ended = sessions[t].ended
  <2>1. CASE t # s
    BY <1>8, <1>9, <1>15, <2>1 DEF Opens
  <2>2. CASE t = s
    <3>1. MadeWith(s, r, q) BY <1>1, <1>15, <2>2
    <3>2. r.credential \in Pairs /\ r.key \in Nat BY DEF RefreshRecords
    <3>3. r.credential[1] \in Nat BY <3>2 DEF Pairs
    <3>4. r.credential[1] <= g
      <4>1. g > 0 => sessions[s].previous[1] = g - 1
        BY <1>2, <1>3 DEF ServerInv, GenerationsFit
      <4> QED BY <1>2, <1>3, <1>10, <1>15, <2>2, <4>1 DEF Opens
    <3>5. q.credential = r.credential /\ q.key = r.key
      BY <1>3, <1>9, <1>10, <3>1, <3>3, <3>4 DEF MadeWith
    <3> QED BY <1>3, <1>7, <1>8, <1>9, <2>2, <3>5 DEF Opens
  <2> QED BY <2>1, <2>2
<1>16. StillOpens
  BY <1>8, <1>9, <1>15 DEF StillOpens
<1>17. <<g + 1, q.key>> # q.credential /\ <<g + 1, q.key>> \in Pairs
  <2>1. q.credential[1] = g BY <1>9, <1>10
  <2>2. <<g + 1, q.key>>[1] = g + 1 OBVIOUS
  <2> QED BY <1>3, <2>1, <2>2 DEF Pairs
<1>18. StaysEnded
  BY <1>7, <1>8, <1>9 DEF StaysEnded, Live
<1> QED BY <1>1, <1>7, <1>8, <1>9, <1>11, <1>12, <1>13, <1>14, <1>16, <1>17, <1>18 DEF ServerInv

\* A step that ends sessions and does nothing else to them.
OnlyEnds ==
    /\ UNCHANGED <<records, created>>
    /\ accountRow' \in [status : {"active", "disabled", "deleted"}, version : Nat]
    /\ accountRow'.version >= accountRow.version
    /\ sessions' \in [DOMAIN sessions -> SessionRows]
    /\ \A s \in DOMAIN sessions :
          /\ sessions'[s].generation = sessions[s].generation
          /\ sessions'[s].current = sessions[s].current
          /\ sessions'[s].previous = sessions[s].previous
          /\ sessions'[s].version = sessions[s].version
          /\ sessions[s].ended # "no" => sessions'[s].ended = sessions[s].ended
          /\ accountRow.status # "active" \/ accountRow'.status # "active" => sessions'[s].ended # "no"

LEMMA EndsFit ==
  ASSUME ServerInv, OnlyEnds
  PROVE  /\ ServerInv' /\ StaysEnded
         /\ DOMAIN sessions' = DOMAIN sessions /\ records' = records
         /\ \A s \in DOMAIN sessions, r \in RefreshRecords : Opens(s, r) => Opens(s, r)'
<1>1. DOMAIN sessions' = DOMAIN sessions /\ records' = records /\ created' = created
  BY DEF OnlyEnds
<1>2. ServerTypeOK'
  BY <1>1 DEF ServerInv, ServerTypeOK, OnlyEnds
<1>3. GenerationsFit'
  <2>1. \A r \in records : r \in (DOMAIN sessions) \X Nat \X (Nat \ {0})
    BY DEF ServerInv, ServerTypeOK
  <2> QED BY <1>1, <2>1 DEF ServerInv, GenerationsFit, OnlyEnds
<1>4. EndingsFit'
  <2>1. accountRow.version \in Nat /\ accountRow'.version \in Nat
    BY DEF ServerInv, ServerTypeOK, OnlyEnds
  <2>2. \A s \in DOMAIN sessions : sessions[s].version \in Nat
    BY DEF ServerInv, ServerTypeOK, SessionRows
  <2> QED BY <1>1, <2>1, <2>2 DEF ServerInv, EndingsFit, OnlyEnds
<1>5. OneDevicePerRequest'
  BY <1>1 DEF ServerInv, OneDevicePerRequest
<1>6. StaysEnded
  <2>1. accountRow.version \in Nat /\ accountRow'.version \in Nat
    BY DEF ServerInv, ServerTypeOK, OnlyEnds
  <2>2. \A s \in DOMAIN sessions : sessions[s].version \in Nat
    BY DEF ServerInv, ServerTypeOK, SessionRows
  <2> QED BY <1>1, <2>1, <2>2 DEF ServerInv, EndingsFit, OnlyEnds, StaysEnded, Live
<1>7. \A s \in DOMAIN sessions, r \in RefreshRecords : Opens(s, r) => Opens(s, r)'
  BY <1>1 DEF OnlyEnds, Opens
<1> QED BY <1>1, <1>2, <1>3, <1>4, <1>5, <1>6, <1>7 DEF ServerInv

\* Ending one session.
LEMMA OneEnds ==
  ASSUME ServerInv, NEW s \in DOMAIN sessions, NEW e \in {"revoked", "refresh-reuse"},
         sessions' = [sessions EXCEPT ![s].ended = IF @ = "no" THEN e ELSE @],
         UNCHANGED <<accountRow, records, created>>
  PROVE  /\ OnlyEnds
         /\ \A t \in DOMAIN sessions : t # s => sessions'[t] = sessions[t]
         /\ sessions'[s].ended = IF sessions[s].ended = "no" THEN e ELSE sessions[s].ended
<1>1. sessions \in [DOMAIN sessions -> SessionRows] BY DEF ServerInv, ServerTypeOK
<1>2. PICK x : x = IF sessions[s].ended = "no" THEN e ELSE sessions[s].ended OBVIOUS
<1>3. PICK row : row = [sessions[s] EXCEPT !.ended = x] OBVIOUS
<1>4. /\ row \in SessionRows /\ row.ended = x /\ row.generation = sessions[s].generation
      /\ row.current = sessions[s].current /\ row.previous = sessions[s].previous
      /\ row.version = sessions[s].version
  BY <1>1, <1>2, <1>3 DEF SessionRows
<1>5. sessions' = [sessions EXCEPT ![s] = row]
  BY <1>2, <1>3
<1>6. /\ sessions' \in [DOMAIN sessions -> SessionRows] /\ sessions'[s] = row
      /\ \A t \in DOMAIN sessions : t # s => sessions'[t] = sessions[t]
  BY <1>1, <1>4, <1>5
<1>7. accountRow' = accountRow /\ accountRow.version \in Nat
      /\ accountRow \in [status : {"active", "disabled", "deleted"}, version : Nat]
  BY DEF ServerInv, ServerTypeOK
<1>8. \A t \in DOMAIN sessions : accountRow.status # "active" => sessions[t].ended # "no"
  BY DEF ServerInv, EndingsFit
<1>9. OnlyEnds
  BY <1>2, <1>4, <1>6, <1>7, <1>8 DEF OnlyEnds
<1> QED BY <1>2, <1>4, <1>6, <1>9

LEMMA ReuseFits ==
  ASSUME ServerInv, NEW q \in RefreshRequests, NEW answer,
         q \in InFlight(q.session), q.session \in DOMAIN sessions, RefreshReuse(q, answer)
  PROVE  /\ ServerInv' /\ StillOpens /\ StaysEnded
         /\ DOMAIN sessions' = DOMAIN sessions
         /\ \A s \in DOMAIN sessions : s # q.session => sessions[s]' = sessions[s]
         /\ sessions[q.session]'.current = sessions[q.session].current
         /\ sessions[q.session]'.generation = sessions[q.session].generation
         /\ answer = Refused
<1>1. PICK s \in DOMAIN sessions : s = q.session OBVIOUS
<1>2. /\ sessions' = [sessions EXCEPT ![s].ended = IF @ = "no" THEN "refresh-reuse" ELSE @]
      /\ UNCHANGED <<accountRow, records, created>> /\ answer = Refused
  BY <1>1 DEF RefreshReuse
<1>3. /\ OnlyEnds /\ \A t \in DOMAIN sessions : t # s => sessions'[t] = sessions[t]
  BY <1>2, OneEnds
<1>4. \A r \in RefreshRecords : ~(Opens(s, r) /\ MadeWith(s, r, q))
  <2>1. SUFFICES ASSUME NEW r \in RefreshRecords, Opens(s, r), MadeWith(s, r, q) PROVE FALSE
    OBVIOUS
  <2>2. PICK g : g = sessions[s].generation OBVIOUS
  <2>3. g \in Nat /\ g > 0 /\ q.credential = sessions[s].previous
        /\ q.credential # sessions[s].current
        /\ <<s, g - 1, q.key>> \notin records
    BY <1>1, <2>2 DEF RefreshReuse, PresentsPrevious, PresentsCurrent, Replays, SourceGeneration,
       ServerInv, ServerTypeOK, SessionRows
  <2>4. q.credential[1] = g - 1
    BY <2>2, <2>3 DEF ServerInv, GenerationsFit
  <2>5. q.credential = r.credential /\ q.key = r.key
    BY <2>1, <2>3, <2>4 DEF MadeWith
  <2> QED BY <2>1, <2>2, <2>3, <2>5 DEF Opens
<1>5. StillOpens
  BY <1>1, <1>2, <1>3, <1>4, EndsFit DEF StillOpens
<1>6. sessions'[s].current = sessions[s].current /\ sessions'[s].generation = sessions[s].generation
  BY <1>3 DEF OnlyEnds
<1> QED BY <1>1, <1>2, <1>3, <1>5, <1>6, EndsFit

LEMMA ServerRests ==
  ASSUME ServerInv, UNCHANGED serverVars
  PROVE  ServerInv' /\ StillOpens /\ StaysEnded /\ sessions' = sessions /\ records' = records
<1>1. UNCHANGED <<accountRow, sessions, records, created>>
  BY DEF serverVars
<1>2. ServerInv'
  BY <1>1 DEF ServerInv, ServerTypeOK, GenerationsFit, EndingsFit, OneDevicePerRequest
<1> QED BY <1>1, <1>2 DEF StillOpens, StaysEnded, Live, Opens

LEMMA ReplayFits ==
  ASSUME ServerInv, NEW q \in RefreshRequests, NEW answer,
         q.session \in DOMAIN sessions, RefreshReplay(q, answer)
  PROVE  /\ answer = Granted(q.session, sessions[q.session].current)
         /\ sessions[q.session].current # q.credential /\ sessions[q.session].current \in Pairs
<1>1. PICK s \in DOMAIN sessions : s = q.session OBVIOUS
<1>2. PICK g : g = sessions[s].generation OBVIOUS
<1>3. g \in Nat /\ sessions[s].current \in Pairs /\ q.key \in Nat
  BY <1>1, <1>2 DEF ServerInv, ServerTypeOK, SessionRows, RefreshRequests
<1>4. <<s, g, q.key>> \notin records
  <2>1. <<s, g, q.key>>[1] = s /\ <<s, g, q.key>>[2] = g OBVIOUS
  <2>2. \A r \in records : r[2] < sessions[r[1]].generation BY DEF ServerInv, GenerationsFit
  <2> QED BY <1>2, <1>3, <2>1, <2>2
<1>5. ~PresentsCurrent(q) /\ PresentsPrevious(q)
  BY <1>1, <1>2, <1>4 DEF RefreshReplay, Replays, SourceGeneration
<1>6. SourceGeneration(q) = g - 1 /\ g > 0
  BY <1>1, <1>2, <1>5 DEF SourceGeneration, PresentsPrevious
<1>7. <<s, g - 1, q.key>> \in records /\ <<s, g - 1, sessions[s].current[2]>> \in records
      /\ sessions[s].current[1] = g
  BY <1>1, <1>2, <1>6 DEF RefreshReplay, Replays, ServerInv, GenerationsFit
<1>8. <<s, g - 1, q.key>> = <<s, g - 1, sessions[s].current[2]>>
  <2>1. PICK r, t : r = <<s, g - 1, q.key>> /\ t = <<s, g - 1, sessions[s].current[2]>> OBVIOUS
  <2>2. r[1] = t[1] /\ r[2] = t[2] /\ r \in records /\ t \in records BY <1>7, <2>1
  <2> QED BY <2>1, <2>2 DEF ServerInv, GenerationsFit
<1>9. q.key = sessions[s].current[2]
  BY <1>8
<1>10. sessions[s].current = <<g, q.key>>
  BY <1>3, <1>7, <1>9 DEF Pairs
<1>11. answer = Granted(s, <<g - 1 + 1, q.key>>)
  BY <1>1, <1>6 DEF RefreshReplay
<1>12. g - 1 + 1 = g BY <1>3
<1> QED BY <1>1, <1>3, <1>5, <1>10, <1>11, <1>12 DEF PresentsCurrent

LEMMA CreationFits ==
  ASSUME ServerInv, NEW q \in CreateRequests, NEW answer, CreateSession(q, answer)
  PROVE  /\ ServerInv' /\ StaysEnded /\ records' = records
         /\ DOMAIN sessions \subseteq DOMAIN sessions'
         /\ \A s \in DOMAIN sessions : sessions'[s] = sessions[s]
         /\ \A s \in DOMAIN sessions' \ DOMAIN sessions :
                sessions'[s].generation = 0 /\ sessions'[s].ended = "no"
         /\ answer = Refused \/ \E s \in DOMAIN sessions' : answer = Granted(s, <<0, 0>>)
<1>1. CASE UNCHANGED serverVars /\ (answer = Refused \/
            (q \in DOMAIN created /\ answer = Granted(created[q], <<0, 0>>)))
  <2>1. q \in DOMAIN created => created[q] \in DOMAIN sessions
    BY DEF ServerInv, ServerTypeOK
  <2> QED BY <1>1, <2>1, ServerRests
<1>2. CASE /\ q \notin DOMAIN created /\ ~CreateRefused(q) /\ UNCHANGED <<accountRow, records>>
           /\ \E s \in Ids : /\ s = Cardinality(DOMAIN sessions) + 1
                             /\ IssueInitialSession(s)
                             /\ created' = [p \in DOMAIN created \cup {q} |->
                                            IF p = q THEN s ELSE created[p]]
                             /\ answer = Granted(s, <<0, 0>>)
  <2>1. PICK s \in Ids : /\ s = Cardinality(DOMAIN sessions) + 1
                         /\ IssueInitialSession(s)
                         /\ created' = [p \in DOMAIN created \cup {q} |->
                                            IF p = q THEN s ELSE created[p]]
                         /\ answer = Granted(s, <<0, 0>>)
    BY <1>2
  <2>2. PICK n \in 0 .. MaxSession : DOMAIN sessions = 1 .. n
    BY DEF ServerInv, ServerTypeOK
  <2>3. n \in Nat /\ MaxSession \in Nat /\ MaxFresh \in Nat
    BY <2>2, SessionsAssumption
  <2>4. Cardinality(1 .. n) = n
    <3>1. Cardinality(1 .. n) = IF 1 > n THEN 0 ELSE n - 1 + 1 BY <2>3, FS_Interval
    <3> QED BY <2>3, <3>1
  <2>5. s = n + 1 BY <2>1, <2>2, <2>4
  <2>6. s \notin DOMAIN sessions /\ DOMAIN sessions \cup {s} = 1 .. s /\ s \in 0 .. MaxSession
    BY <2>1, <2>2, <2>3, <2>5 DEF Ids
  <2>7. PICK row : row = [generation |-> 0, current |-> <<0, 0>>, previous |-> NoCredential,
                          version |-> accountRow.version, ended |-> "no"]
    OBVIOUS
  <2>8. NoCredential \in Pairs /\ <<0, 0>> \in Pairs BY <2>3 DEF NoCredential, Pairs
  <2>9. accountRow.version \in Nat /\ accountRow' = accountRow /\ records' = records
    BY <1>2 DEF ServerInv, ServerTypeOK
  <2>10. row \in SessionRows BY <2>7, <2>8, <2>9 DEF SessionRows
  <2>11. sessions' = [i \in DOMAIN sessions \cup {s} |-> IF i = s THEN row ELSE sessions[i]]
    BY <2>1, <2>7 DEF IssueInitialSession
  <2>12. /\ DOMAIN sessions' = DOMAIN sessions \cup {s} /\ sessions'[s] = row
         /\ \A i \in DOMAIN sessions : sessions'[i] = sessions[i]
    BY <2>6, <2>11
  <2>13. sessions' \in [DOMAIN sessions' -> SessionRows]
    BY <2>10, <2>11, <2>12 DEF ServerInv, ServerTypeOK
  <2>14. /\ DOMAIN created' = DOMAIN created \cup {q} /\ created'[q] = s
         /\ \A p \in DOMAIN created : created'[p] = created[p]
         /\ created' \in [DOMAIN created' -> DOMAIN sessions']
    BY <1>2, <2>1, <2>12 DEF ServerInv, ServerTypeOK
  <2>15. ServerTypeOK'
    <3>1. \E m \in 0 .. MaxSession : DOMAIN sessions' = 1 .. m BY <2>6, <2>12
    <3>2. records' \subseteq (DOMAIN sessions') \X Nat \X (Nat \ {0})
      BY <2>9, <2>12 DEF ServerInv, ServerTypeOK
    <3> QED BY <2>9, <2>13, <2>14, <3>1, <3>2 DEF ServerInv, ServerTypeOK
  <2>16. /\ row.generation = 0 /\ row.current = <<0, 0>> /\ row.version = accountRow.version
         /\ row.ended = "no" /\ row.current[1] = 0
    BY <2>7
  <2>17. GenerationsFit'
    <3>1. \A r \in records : r \in (DOMAIN sessions) \X Nat \X (Nat \ {0})
      BY DEF ServerInv, ServerTypeOK
    <3> QED BY <2>9, <2>12, <2>16, <3>1 DEF ServerInv, GenerationsFit
  <2>18. accountRow.status = "active"
    BY <1>2 DEF CreateRefused, CreateReplays
  <2>19. EndingsFit'
    BY <2>9, <2>12, <2>16, <2>18 DEF ServerInv, EndingsFit
  <2>20. \A p \in DOMAIN created : created[p] \in DOMAIN sessions
    BY DEF ServerInv, ServerTypeOK
  <2>21. q.operation # "login" => \A p \in DOMAIN created : p.operation # q.operation
    BY <1>2 DEF CreateRefused, CreateReplays
  <2>22. \A t \in DOMAIN sessions' : \E p \in DOMAIN created' : created'[p] = t
    BY <2>12, <2>14 DEF ServerInv, OneDevicePerRequest
  <2>23. \A a, b \in DOMAIN created' :
            /\ created'[a] = created'[b] => a = b
            /\ a.operation = b.operation /\ a.operation # "login" => a = b
    BY <2>6, <2>14, <2>20, <2>21 DEF ServerInv, OneDevicePerRequest
  <2>24. OneDevicePerRequest'
    BY <2>22, <2>23 DEF OneDevicePerRequest
  <2>25. StaysEnded
    BY <2>9, <2>12 DEF StaysEnded, Live
  <2> QED BY <2>1, <2>9, <2>12, <2>15, <2>16, <2>17, <2>19, <2>24, <2>25 DEF ServerInv
<1> QED BY <1>1, <1>2 DEF CreateSession, CreateReplays

LEMMA RevocationFits ==
  ASSUME ServerInv, NEW q \in LogoutRequests, NEW answer,
         q.session \in DOMAIN sessions, RevokeMemberSession(q, answer)
  PROVE  /\ ServerInv' /\ StillOpens /\ StaysEnded
         /\ DOMAIN sessions' = DOMAIN sessions
         /\ \A s \in DOMAIN sessions : /\ sessions'[s].current = sessions[s].current
                                       /\ sessions'[s].generation = sessions[s].generation
                                       /\ sessions'[s].ended \in {sessions[s].ended, "revoked"}
         /\ answer \in {Refused, Done}
<1>1. CASE UNCHANGED serverVars /\ answer = Refused
  BY <1>1, ServerRests
<1>2. CASE /\ Authenticates(q.session, q.credential) /\ answer = Done
           /\ sessions' = [sessions EXCEPT ![q.session].ended = "revoked"]
           /\ UNCHANGED <<accountRow, records, created>>
  <2>1. PICK s \in DOMAIN sessions : s = q.session OBVIOUS
  <2>2. sessions[s].ended = "no" BY <1>2, <2>1 DEF Authenticates, Live
  <2>3. sessions' = [sessions EXCEPT ![s].ended = IF @ = "no" THEN "revoked" ELSE @]
    BY <1>2, <2>1, <2>2
  <2>4. /\ OnlyEnds /\ \A t \in DOMAIN sessions : t # s => sessions'[t] = sessions[t]
        /\ sessions'[s].ended = "revoked"
    BY <1>2, <2>2, <2>3, OneEnds
  <2>5. StillOpens
    BY <1>2, <2>4, EndsFit DEF StillOpens
  <2> QED BY <1>2, <2>4, <2>5, EndsFit DEF OnlyEnds
<1> QED BY <1>1, <1>2 DEF RevokeMemberSession, Done, serverVars

\* What the service does with a request that Connect made, and what it answers.
Handled(q, answer) ==
    /\ ServerInv' /\ StillOpens /\ StaysEnded
    /\ \A s \in DOMAIN sessions : (q \in RefreshRequests => s # q.session) =>
          /\ sessions'[s].current = sessions[s].current
          /\ sessions'[s].generation = sessions[s].generation
          /\ sessions'[s].ended \in {sessions[s].ended, "revoked"}
    /\ \A s \in DOMAIN sessions : sessions'[s].current # sessions[s].current =>
          /\ q \in RefreshRequests /\ q.session = s /\ q.credential = sessions[s].current
    /\ \A s \in DOMAIN sessions' \ DOMAIN sessions :
          sessions'[s].generation = 0 /\ sessions'[s].ended = "no"
    /\ q \in CreateRequests =>
          answer = Refused \/ \E s \in DOMAIN sessions' : answer = Granted(s, <<0, 0>>)
    /\ q \in RefreshRequests =>
          \/ answer = Refused
          \/ /\ answer = Granted(q.session, sessions'[q.session].current)
             /\ sessions'[q.session].current # q.credential
             /\ sessions'[q.session].current \in Pairs
    /\ q \in LogoutRequests => answer \in {Refused, Done}

LEMMA HandleFits ==
  ASSUME ServerInv, NEW q \in CreateRequests \cup RefreshRequests \cup LogoutRequests, NEW answer,
         Handle(q, answer),
         q \notin CreateRequests => q.session \in DOMAIN sessions,
         q \in RefreshRequests => q \in InFlight(q.session)
  PROVE  Handled(q, answer)
<1>1. /\ \A p \in CreateRequests : p.kind = "create" /\ p \notin RefreshRequests \cup LogoutRequests
      /\ \A p \in RefreshRequests : p.kind = "refresh" /\ p \notin CreateRequests \cup LogoutRequests
      /\ \A p \in LogoutRequests : p.kind = "logout" /\ p \notin CreateRequests \cup RefreshRequests
  BY AnswersDiffer DEF CreateRequests, RefreshRequests, LogoutRequests
<1>2. CASE q \in CreateRequests
  <2>1. CreateSession(q, answer) BY <1>1, <1>2 DEF Handle
  <2>2. /\ ServerInv' /\ StaysEnded /\ records' = records
        /\ DOMAIN sessions \subseteq DOMAIN sessions'
        /\ \A s \in DOMAIN sessions : sessions'[s] = sessions[s]
        /\ \A s \in DOMAIN sessions' \ DOMAIN sessions :
              sessions'[s].generation = 0 /\ sessions'[s].ended = "no"
        /\ answer = Refused \/ \E s \in DOMAIN sessions' : answer = Granted(s, <<0, 0>>)
    BY <1>2, <2>1, CreationFits
  <2>3. StillOpens BY <2>2 DEF StillOpens, Opens
  <2> QED BY <1>1, <1>2, <2>2, <2>3 DEF Handled
<1>3. CASE q \in RefreshRequests
  <2>1. q.session \in DOMAIN sessions /\ q \in InFlight(q.session) BY <1>1, <1>3
  <2>2. CASE RefreshReplay(q, answer)
    <3>1. UNCHANGED serverVars BY <2>2 DEF RefreshReplay
    <3> QED BY <1>1, <1>3, <2>1, <2>2, <3>1, ReplayFits, ServerRests DEF Handled
  <2>3. CASE RefreshReuse(q, answer)
    BY <1>1, <1>3, <2>1, <2>3, ReuseFits DEF Handled
  <2>4. CASE RefreshRotates(q, answer)
    BY <1>1, <1>3, <2>1, <2>4, RotationFits DEF Handled
  <2>5. CASE RefreshRefused(q, answer)
    <3>1. UNCHANGED serverVars /\ answer = Refused BY <2>5 DEF RefreshRefused
    <3> QED BY <1>1, <1>3, <2>1, <3>1, ServerRests DEF Handled
  <2> QED BY <1>1, <1>3, <2>2, <2>3, <2>4, <2>5 DEF Handle
<1>4. CASE q \in LogoutRequests
  <2>1. RevokeMemberSession(q, answer) /\ q.session \in DOMAIN sessions BY <1>1, <1>4 DEF Handle
  <2> QED BY <1>1, <1>4, <2>1, RevocationFits DEF Handled
<1> QED BY <1>2, <1>3, <1>4

LEMMA OpensBound ==
  ASSUME ServerInv, NEW s \in DOMAIN sessions, NEW r \in RefreshRecords, Opens(s, r)
  PROVE  r.credential[1] \in Nat /\ r.credential[1] <= sessions[s].generation
<1>1. sessions[s].generation \in Nat /\ r.credential \in Pairs
  BY DEF ServerInv, ServerTypeOK, SessionRows, RefreshRecords
<1>2. r.credential[1] \in Nat BY <1>1 DEF Pairs
<1>3. /\ sessions[s].current[1] = sessions[s].generation
      /\ sessions[s].generation > 0 => sessions[s].previous[1] = sessions[s].generation - 1
  BY DEF ServerInv, GenerationsFit
<1> QED BY <1>1, <1>2, <1>3 DEF Opens

\* The requests under way are about sessions that exist.
LEMMA RequestsKnown ==
  ASSUME SessionsInv, NEW q \in RefreshRequests, q \in late \/ q = sent
  PROVE  q \in InFlight(q.session) /\ q.session \in DOMAIN sessions
<1>1. q \in InFlight(q.session) BY DEF InFlight
<1>2. q.session \in Ids BY DEF RefreshRequests
<1>3. q.session \in discarded \/ q.session = vault.installed
  BY <1>1, <1>2 DEF SessionsInv, VaultFits, NeverInstalled
<1>4. q.session # 0
  BY <1>2, SessionsAssumption DEF Ids
<1>5. discarded \subseteq DOMAIN sessions /\ vault.installed \in {0} \cup DOMAIN sessions
  BY DEF SessionsInv, ManagerTypeOK, BoundFits
<1> QED BY <1>1, <1>3, <1>4, <1>5

LEMMA SessionsAreNumbered ==
  ASSUME ServerTypeOK PROVE DOMAIN sessions \subseteq Ids
<1>1. PICK n \in 0 .. MaxSession : DOMAIN sessions = 1 .. n BY DEF ServerTypeOK
<1> QED BY <1>1, SessionsAssumption DEF Ids

\* A step of the service alone: the slot that opens a session still does.
LEMMA ServerStepKeeps ==
  ASSUME SessionsInv, NEW q, NEW answer, Handled(q, answer),
         UNCHANGED <<vault, memory, pc, fresh, discarded>>,
         late' \subseteq late, sent' = sent \/ sent' = answer,
         q \in RefreshRequests => q \in InFlight(q.session),
         q \in CreateRequests \cup RefreshRequests \cup LogoutRequests,
         sent' # sent => sent = q /\ Requesting
  PROVE  SessionsInv'
<1>1. ServerInv /\ ServerInv' /\ DOMAIN sessions \subseteq DOMAIN sessions' /\ records \subseteq records'
  BY DEF SessionsInv, ServerInv, Handled, StillOpens
<1>2. UNCHANGED <<vault, memory, pc, fresh, discarded>>
  OBVIOUS
<1>3. ManagerTypeOK'
  BY <1>1, <1>2 DEF SessionsInv, ManagerTypeOK
<1>4. BoundFits'
  <2>1. pc = "commit cleanup" => sent' = sent
    BY DEF Requesting
  <2> QED BY <1>1, <1>2, <2>1 DEF SessionsInv, BoundFits
<1>5. DeviceFits'
  <2>1. pc \in Committing => sent' = sent
    BY DEF Requesting, Committing
  <2>2. pc = "commit installed" => pc \in Committing BY DEF Committing
  <2>3. StoredSlots(vault.installed)' = StoredSlots(vault.installed)
    BY <1>2 DEF StoredSlots
  <2> QED BY <1>2, <2>1, <2>2, <2>3 DEF SessionsInv, DeviceFits
<1>6. SentFits'
  <2>1. CASE sent' = sent
    BY <1>1, <1>2, <2>1 DEF SessionsInv, SentFits
  <2>2. CASE sent' # sent
    <3>1. sent = q /\ sent' = answer /\ pc \in {"creating", "refreshing", "leaving"}
      BY <2>2 DEF Requesting
    <3>2. CASE pc = "creating"
      <4>1. q \in CreateRequests
        BY <3>1, <3>2, AnswersDiffer DEF SessionsInv, SentFits
      <4>2. \A s \in DOMAIN sessions' : Granted(s, <<0, 0>>) \in Grants
        <5>1. PICK n \in 0 .. MaxSession : DOMAIN sessions' = 1 .. n
          BY <1>1 DEF ServerInv, ServerTypeOK
        <5>2. DOMAIN sessions' \subseteq Ids
          BY <5>1, SessionsAssumption DEF Ids
        <5> QED BY <5>2 DEF Granted, Grants, Pairs
      <4>3. sent' \in {Refused} \cup Grants /\ (sent' \in Grants =>
                sent'.session \in DOMAIN sessions' /\ sent'.credential = <<0, 0>>)
        BY <3>1, <4>1, <4>2, AnswersDiffer DEF Handled, Granted
      <4> QED BY <1>2, <3>2, <4>3, AnswersDiffer DEF SentFits, Committing
    <3>3. CASE pc = "refreshing"
      <4>1. q \in RefreshRequests /\ q.session = memory.bound /\ q.session \in Ids
        BY <3>1, <3>3, AnswersDiffer DEF SessionsInv, SentFits, RefreshRequests
      <4>2. answer \in {Refused} \cup Grants /\ (answer \in Grants => answer.session = q.session)
        BY <4>1, AnswersDiffer DEF Handled, Granted, Grants
      <4> QED BY <1>2, <3>1, <3>3, <4>1, <4>2, AnswersDiffer DEF SentFits, Committing
    <3>4. CASE pc = "leaving"
      <4>1. q \in LogoutRequests
        BY <3>1, <3>4, AnswersDiffer DEF SessionsInv, SentFits
      <4> QED BY <1>2, <3>1, <3>4, <4>1, AnswersDiffer DEF SentFits, Committing, Handled
    <3> QED BY <3>1, <3>2, <3>3, <3>4
  <2> QED BY <2>1, <2>2
<1>7. answer \notin RefreshRequests
  BY AnswersDiffer DEF Handled, Granted, RefreshRequests
<1>8. \A s : InFlight(s)' \subseteq InFlight(s)
  BY <1>7 DEF InFlight
<1>9. VaultFits'
  <2>1. SUFFICES ASSUME NEW s \in Ids \ discarded
                 PROVE  IF s = vault.installed THEN \E i \in {0, 1} : Kept(s, i)'
                                               ELSE NeverInstalled(s)'
    BY <1>2 DEF VaultFits
  <2>2. CASE s # vault.installed
    <3>1. NeverInstalled(s) BY <2>2 DEF SessionsInv, VaultFits
    <3>2. InFlight(s) = {} /\ InFlight(s)' = {} BY <1>8, <3>1 DEF NeverInstalled
    <3>3. s \in DOMAIN sessions' => sessions'[s].generation = 0
      BY <3>1, <3>2 DEF Handled, NeverInstalled
    <3> QED BY <1>2, <2>2, <3>1, <3>2, <3>3 DEF NeverInstalled
  <2>3. CASE s = vault.installed
    <3>1. PICK i \in {0, 1} : Kept(s, i) BY <2>3 DEF SessionsInv, VaultFits
    <3>2. PICK r : r = vault.refresh[s][i] OBVIOUS
    <3>3. r \in RefreshRecords /\ s \in DOMAIN sessions
      <4>1. r \in {None} \cup RefreshRecords
        BY <3>2 DEF SessionsInv, ManagerTypeOK, Vaults
      <4>2. s # 0 BY SessionsAssumption DEF Ids
      <4> QED BY <2>3, <3>1, <3>2, <4>1, <4>2 DEF Kept, SessionsInv, BoundFits
    <3>4. Opens(s, r) /\ \A p \in InFlight(s) : MadeWith(s, r, p)
      BY <3>1, <3>2 DEF Kept
    <3>5. Opens(s, r)'
      BY <3>3, <3>4 DEF Handled, StillOpens
    <3>6. \A p \in InFlight(s)' : MadeWith(s, r, p)'
      BY <1>1, <1>8, <3>4 DEF MadeWith
    <3>7. pc = "refreshing" /\ sent' \in Grants =>
            sent'.credential = sessions'[s].current /\ r.credential # sessions'[s].current
      <4>1. SUFFICES ASSUME pc = "refreshing", sent' \in Grants
                     PROVE  sent'.credential = sessions'[s].current /\ r.credential # sessions'[s].current
        OBVIOUS
      <4>2. CASE sent' = sent
        <5>1. sent.credential = sessions[s].current /\ r.credential # sessions[s].current
          BY <3>1, <3>2, <4>1, <4>2 DEF Kept
        <5>2. ASSUME sessions'[s].current # sessions[s].current PROVE FALSE
          <6>1. q \in RefreshRequests /\ q.session = s /\ q.credential = sessions[s].current
            BY <3>3, <5>2 DEF Handled
          <6>2. MadeWith(s, r, q) BY <3>4, <6>1
          <6>3. q.credential[1] = sessions[s].generation
            BY <1>1, <3>3, <6>1 DEF ServerInv, GenerationsFit
          <6>4. sessions[s].generation \in Nat
            BY <1>1, <3>3 DEF ServerInv, ServerTypeOK, SessionRows
          <6> QED BY <1>1, <3>3, <3>4, <5>1, <6>1, <6>2, <6>3, <6>4, OpensBound DEF MadeWith
        <5> QED BY <4>2, <5>1, <5>2
      <4>3. CASE sent' # sent
        <5>1. sent = q /\ sent' = answer BY <4>3
        <5>2. q \in RefreshRequests /\ q.session = memory.bound /\ memory.bound # 0
              /\ q.credential = memory.refresh.record.credential
          BY <4>1, <5>1, AnswersDiffer DEF SessionsInv, SentFits, BoundFits
        <5>3. q.session = s
          BY <2>3, <4>1, <5>2 DEF SessionsInv, BoundFits
        <5>4. memory.refresh = [slot |-> i, record |-> r]
          BY <3>1, <3>2, <4>1, <5>2, <5>3 DEF Kept
        <5>5. q.credential = r.credential BY <5>2, <5>4
        <5>6. answer = Granted(s, sessions'[s].current) /\ sessions'[s].current # q.credential
          BY <4>1, <5>1, <5>2, <5>3, AnswersDiffer DEF Handled
        <5> QED BY <5>1, <5>5, <5>6 DEF Granted
      <4> QED BY <4>2, <4>3
    <3>8. Kept(s, i)'
      BY <1>2, <3>1, <3>2, <3>5, <3>6, <3>7 DEF Kept
    <3> QED BY <2>3, <3>8
  <2> QED BY <2>2, <2>3
<1>10. RetriesAreNotReuse'
  <2>1. SUFFICES ASSUME NEW s \in DOMAIN sessions' \ discarded
                 PROVE  sessions'[s].ended # "refresh-reuse"
    BY <1>2 DEF RetriesAreNotReuse
  <2>2. CASE s \notin DOMAIN sessions BY <2>2 DEF Handled
  <2>3. CASE s \in DOMAIN sessions
    <3>1. sessions[s].ended # "refresh-reuse" BY <2>3 DEF SessionsInv, RetriesAreNotReuse
    <3>2. s \in Ids BY <1>1, <2>3, SessionsAreNumbered DEF ServerInv
    <3>3. CASE s = vault.installed
      <4>1. PICK i \in {0, 1} : Kept(s, i) BY <3>2, <3>3 DEF SessionsInv, VaultFits
      <4>2. PICK r : r = vault.refresh[s][i] OBVIOUS
      <4>3. r \in RefreshRecords
        BY <3>2, <4>1, <4>2 DEF Kept, SessionsInv, ManagerTypeOK, Vaults
      <4>4. Opens(s, r) /\ \A p \in InFlight(s) : MadeWith(s, r, p)
        BY <4>1, <4>2 DEF Kept
      <4> QED BY <2>3, <3>1, <4>3, <4>4 DEF Handled, StillOpens
    <3>4. CASE s # vault.installed
      <4>1. InFlight(s) = {} BY <3>2, <3>4 DEF SessionsInv, VaultFits, NeverInstalled
      <4>2. q \in RefreshRequests => q.session # s BY <4>1
      <4> QED BY <2>3, <3>1, <4>2 DEF Handled
    <3> QED BY <3>3, <3>4
  <2> QED BY <2>2, <2>3
<1> QED BY <1>1, <1>3, <1>4, <1>5, <1>6, <1>9, <1>10 DEF SessionsInv, ServerInv

LEMMA LateArrivesHolds ==
  ASSUME SessionsInv, LateArrives PROVE SessionsInv' /\ StaysEnded
<1>0. PICK q \in late : late' = late \ {q} /\ \E answer : Handle(q, answer)
  BY DEF LateArrives
<1>1. PICK answer : Handle(q, answer) /\ late' = late \ {q}
  BY <1>0
<1>2. UNCHANGED <<vault, memory, pc, sent, fresh, discarded>>
  BY DEF LateArrives, connectVars
<1>3. q \in CreateRequests \cup RefreshRequests
  BY DEF SessionsInv, ManagerTypeOK
<1>4. Handled(q, answer)
  BY <1>1, <1>3, HandleFits, RequestsKnown DEF SessionsInv, ServerInv
<1>5. q \in RefreshRequests => q \in InFlight(q.session) BY RequestsKnown
<1> QED BY <1>1, <1>2, <1>3, <1>4, <1>5, ServerStepKeeps DEF Handled

LEMMA ServeHolds ==
  ASSUME SessionsInv, Serve PROVE SessionsInv' /\ StaysEnded
<1>1. PICK answer : Handle(sent, answer) /\ sent' = answer
  BY DEF Serve
<1>2. UNCHANGED <<vault, memory, pc, late, fresh, discarded>> /\ Requesting
  BY DEF Serve
<1>3. sent # None /\ sent.kind \in {"create", "refresh", "logout"} /\ pc \in {"creating", "refreshing", "leaving"}
  BY DEF Serve, IsRequest, Requesting
<1>4. PICK q : q = sent OBVIOUS
<1>5. q \in CreateRequests \cup RefreshRequests \cup LogoutRequests
  BY <1>3, <1>4 DEF SessionsInv, SentFits, Grants, Refused, Done
<1>6. q \in LogoutRequests => q.session \in DOMAIN sessions
  <2>1. q \in LogoutRequests => pc = "leaving"
    BY <1>3, <1>4, AnswersDiffer DEF SessionsInv, SentFits
  <2> QED BY <1>4, <2>1 DEF SessionsInv, SentFits, BoundFits
<1>7. q \in RefreshRequests => q \in InFlight(q.session) /\ q.session \in DOMAIN sessions
  BY <1>4, RequestsKnown
<1>8. Handled(q, answer)
  BY <1>1, <1>4, <1>5, <1>6, <1>7, HandleFits DEF SessionsInv, ServerInv
<1> QED BY <1>1, <1>2, <1>4, <1>5, <1>7, <1>8, ServerStepKeeps DEF Handled

LEMMA AdminKeeps ==
  ASSUME SessionsInv, OnlyEnds, UNCHANGED <<connectVars, late>>,
         \A s \in DOMAIN sessions : sessions'[s].ended \in {sessions[s].ended, "revoked"}
  PROVE  SessionsInv' /\ StaysEnded
<1>1. UNCHANGED <<vault, memory, pc, sent, fresh, discarded, late>>
  BY DEF connectVars
<1>2. PICK q : q = [kind |-> "logout", session |-> 1, credential |-> <<0, 0>>] OBVIOUS
<1>3. q \in LogoutRequests
  BY <1>2, SessionsAssumption DEF LogoutRequests, Ids, Pairs
<1>4. ServerInv BY DEF SessionsInv, ServerInv
<1>5. StillOpens
  BY <1>4, EndsFit DEF StillOpens
<1>6. Handled(q, Refused)
  BY <1>3, <1>4, <1>5, EndsFit, AnswersDiffer DEF Handled, OnlyEnds
<1> QED BY <1>1, <1>3, <1>6, AnswersDiffer, ServerStepKeeps DEF Handled

LEMMA ResetHolds ==
  ASSUME SessionsInv, NEW status \in {"active", "disabled", "deleted"}, Reset(status),
         status = "active" => accountRow.status = "active"
  PROVE  SessionsInv' /\ StaysEnded
<1>1. /\ accountRow' = [status |-> status, version |-> accountRow.version + 1]
      /\ sessions' = [s \in DOMAIN sessions |->
                        [sessions[s] EXCEPT !.ended = IF @ = "no" THEN "revoked" ELSE @]]
      /\ UNCHANGED <<records, created, connectVars, late>>
  BY DEF Reset, RevokeUserSessions
<1>2. ServerInv BY DEF SessionsInv, ServerInv
<1>3. accountRow.version \in Nat BY <1>2 DEF ServerInv, ServerTypeOK
<1>4. /\ accountRow' \in [status : {"active", "disabled", "deleted"}, version : Nat]
      /\ accountRow'.version >= accountRow.version /\ accountRow'.status = status
  BY <1>1, <1>3
<1>5. ASSUME NEW s \in DOMAIN sessions
      PROVE  /\ sessions'[s] \in SessionRows
             /\ sessions'[s].generation = sessions[s].generation
             /\ sessions'[s].current = sessions[s].current
             /\ sessions'[s].previous = sessions[s].previous
             /\ sessions'[s].version = sessions[s].version
             /\ sessions'[s].ended = IF sessions[s].ended = "no" THEN "revoked" ELSE sessions[s].ended
  <2>1. sessions[s] \in SessionRows BY <1>2 DEF ServerInv, ServerTypeOK
  <2>2. sessions'[s] = [sessions[s] EXCEPT !.ended = IF @ = "no" THEN "revoked" ELSE @] BY <1>1
  <2> QED BY <2>1, <2>2 DEF SessionRows
<1>6. sessions' \in [DOMAIN sessions -> SessionRows]
  BY <1>1, <1>5
<1>7. OnlyEnds
  BY <1>1, <1>4, <1>5, <1>6 DEF OnlyEnds
<1> QED BY <1>1, <1>5, <1>7, AdminKeeps

LEMMA AdminHolds ==
  ASSUME SessionsInv, AdminNext
  PROVE  SessionsInv' /\ StaysEnded
<1>1. ServerInv /\ accountRow \in [status : {"active", "disabled", "deleted"}, version : Nat]
  BY DEF SessionsInv, ServerInv, ServerTypeOK
<1>2. CASE ResetAccountSessions \/ DisableAccount \/ DeleteAccount
  BY <1>1, <1>2, ResetHolds DEF ResetAccountSessions, DisableAccount, DeleteAccount
<1>3. CASE ReactivateAccount
  <2>1. /\ accountRow' = [accountRow EXCEPT !.status = "active"] /\ accountRow.status = "disabled"
        /\ UNCHANGED <<sessions, records, created, connectVars, late>>
    BY <1>3 DEF ReactivateAccount
  <2>2. accountRow' \in [status : {"active", "disabled", "deleted"}, version : Nat]
        /\ accountRow'.version = accountRow.version /\ accountRow.version \in Nat
    BY <1>1, <2>1
  <2>3. OnlyEnds
    BY <1>1, <2>1, <2>2 DEF OnlyEnds, ServerInv, ServerTypeOK, EndingsFit
  <2> QED BY <2>1, <2>3, AdminKeeps
<1>4. ASSUME NEW s \in Ids, RevokeMemberDevice(s) PROVE SessionsInv' /\ StaysEnded
  <2>1. /\ s \in DOMAIN sessions /\ sessions[s].ended = "no"
        /\ sessions' = [sessions EXCEPT ![s].ended = "revoked"]
        /\ UNCHANGED <<accountRow, records, created, connectVars, late>>
    BY <1>4 DEF RevokeMemberDevice
  <2>2. sessions' = [sessions EXCEPT ![s].ended = IF @ = "no" THEN "revoked" ELSE @]
    BY <2>1
  <2>3. /\ OnlyEnds /\ \A t \in DOMAIN sessions : t # s => sessions'[t] = sessions[t]
        /\ sessions'[s].ended = "revoked"
    BY <1>1, <2>1, <2>2, OneEnds
  <2> QED BY <2>1, <2>3, AdminKeeps
<1> QED BY <1>2, <1>3, <1>4 DEF AdminNext

LEMMA ConnectKeeps ==
  ASSUME SessionsInv, UNCHANGED serverVars, discarded \subseteq discarded',
         ManagerTypeOK', SentFits', BoundFits', DeviceFits', VaultFits'
  PROVE  SessionsInv' /\ StaysEnded
<1>1. ServerInv /\ RetriesAreNotReuse BY DEF SessionsInv, ServerInv
<1>2. ServerInv' /\ StaysEnded /\ sessions' = sessions BY <1>1, ServerRests
<1>3. RetriesAreNotReuse' BY <1>1, <1>2 DEF RetriesAreNotReuse
<1> QED BY <1>2, <1>3 DEF SessionsInv, ServerInv

LEMMA SentTyped ==
  ASSUME SessionsInv
  PROVE  sent \in {None, Refused, Done} \cup CreateRequests \cup RefreshRequests
                    \cup LogoutRequests \cup Grants
  BY DEF SessionsInv, ManagerTypeOK, SessionPoints, SentFits

LEMMA LateTyped ==
  ASSUME SessionsInv, MayBeLate PROVE sent \in CreateRequests \cup RefreshRequests
<1>1. sent # None /\ sent.kind \in {"create", "refresh"} BY DEF MayBeLate
<1> QED BY <1>1, SentTyped DEF LogoutRequests, Grants, Refused, Done

\* What a step leaves of the slots when it writes none of them.
LEMMA VaultRests ==
  ASSUME SessionsInv, UNCHANGED <<serverVars, vault, discarded>>,
         \A s : InFlight(s)' \subseteq InFlight(s),
         memory'.bound # 0 => /\ memory'.bound = memory.bound /\ memory'.refresh = memory.refresh
                              /\ (pc' = "rotated" <=> pc = "rotated"),
         ~(pc' = "refreshing" /\ sent' \in Grants)
  PROVE  VaultFits'
<1>1. UNCHANGED <<sessions, records, vault, discarded>> BY DEF serverVars
<1>2. SUFFICES ASSUME NEW s \in Ids \ discarded
               PROVE  IF s = vault.installed THEN \E i \in {0, 1} : Kept(s, i)'
                                             ELSE NeverInstalled(s)'
  BY <1>1 DEF VaultFits
<1>3. s # 0 BY SessionsAssumption DEF Ids
<1>4. CASE s # vault.installed
  <2>1. NeverInstalled(s) BY <1>4 DEF SessionsInv, VaultFits
  <2> QED BY <1>1, <1>4, <2>1 DEF NeverInstalled
<1>5. CASE s = vault.installed
  <2>1. PICK i \in {0, 1} : Kept(s, i) BY <1>5 DEF SessionsInv, VaultFits
  <2>2. Opens(s, vault.refresh[s][i])' BY <1>1, <2>1 DEF Kept, Opens
  <2>3. \A q \in InFlight(s)' : MadeWith(s, vault.refresh[s][i], q)'
    BY <1>1, <2>1 DEF Kept, MadeWith
  <2>4. memory'.bound = s => IF pc' = "rotated"
                               THEN memory'.refresh.slot = 1 - i
                               ELSE memory'.refresh = [slot |-> i, record |-> vault.refresh[s][i]]
    BY <1>3, <2>1 DEF Kept
  <2>5. Kept(s, i)'
    BY <1>1, <2>1, <2>2, <2>3, <2>4 DEF Kept
  <2> QED BY <1>5, <2>5
<1> QED BY <1>4, <1>5

LEMMA StoredTyped ==
  ASSUME ManagerTypeOK, NEW s \in Ids, NEW i \in {0, 1}
  PROVE  vault.refresh[s][i] \in {None} \cup RefreshRecords
  BY DEF ManagerTypeOK, Vaults

LEMMA LoadSome ==
  ASSUME ManagerTypeOK, NEW s \in Ids, StoredSlots(s) # {}
  PROVE  LoadRefresh(s) \in StoredRefresh /\ LoadRefresh(s) # None
<1>1. \A j \in StoredSlots(s) : j \in {0, 1} /\ vault.refresh[s][j] \in RefreshRecords
  BY StoredTyped DEF StoredSlots
<1>2. \A j \in StoredSlots(s) : vault.refresh[s][j].rotation \in Nat
  BY <1>1 DEF RefreshRecords
<1>3. \E i \in StoredSlots(s) : \A j \in StoredSlots(s) :
          vault.refresh[s][j].rotation <= vault.refresh[s][i].rotation
  BY <1>1, <1>2
<1>4. PICK i \in StoredSlots(s) : LoadRefresh(s) = [slot |-> i, record |-> vault.refresh[s][i]]
  BY <1>3 DEF LoadRefresh
<1>5. LoadRefresh(s) \in StoredRefresh
  BY <1>1, <1>4 DEF StoredRefresh
<1> QED BY <1>5, AnswersDiffer

LEMMA LoadNewest ==
  ASSUME ManagerTypeOK, NEW s \in Ids, NEW i \in {0, 1}, Kept(s, i)
  PROVE  LoadRefresh(s) = [slot |-> i, record |-> vault.refresh[s][i]] /\ StoredSlots(s) # {}
<1>1. /\ vault.refresh[s][i] # None
      /\ vault.refresh[s][1 - i] = None
          \/ vault.refresh[s][1 - i].rotation < vault.refresh[s][i].rotation
  BY DEF Kept
<1>2. \A j \in StoredSlots(s) : j \in {0, 1} /\ vault.refresh[s][j] \in RefreshRecords
  BY StoredTyped DEF StoredSlots
<1>3. \A j \in StoredSlots(s) : vault.refresh[s][j].rotation \in Nat
  BY <1>2 DEF RefreshRecords
<1>4. i \in StoredSlots(s) BY <1>1 DEF StoredSlots
<1>5. \A j \in StoredSlots(s) : j = i \/ j = 1 - i BY <1>2
<1>6. \A k \in StoredSlots(s) :
        (\A j \in StoredSlots(s) :
            vault.refresh[s][j].rotation <= vault.refresh[s][k].rotation) <=> k = i
  <2>1. \A j \in StoredSlots(s) : j # i =>
            vault.refresh[s][j].rotation < vault.refresh[s][i].rotation
    BY <1>1, <1>5 DEF StoredSlots
  <2>2. \A j \in StoredSlots(s) : vault.refresh[s][j].rotation <= vault.refresh[s][i].rotation
    <3>1. TAKE j \in StoredSlots(s)
    <3>2. PICK x, y : x = vault.refresh[s][j].rotation /\ y = vault.refresh[s][i].rotation OBVIOUS
    <3>3. x \in Nat /\ y \in Nat /\ (j = i \/ x < y) BY <1>3, <1>4, <2>1, <3>2
    <3>4. j = i => x = y BY <3>2
    <3>5. x <= y BY <3>3, <3>4
    <3> QED BY <3>2, <3>5
  <2>3. ASSUME NEW k \in StoredSlots(s), k # i,
               \A j \in StoredSlots(s) : vault.refresh[s][j].rotation <= vault.refresh[s][k].rotation
        PROVE  FALSE
    <3>1. PICK x, y : x = vault.refresh[s][k].rotation /\ y = vault.refresh[s][i].rotation OBVIOUS
    <3>2. x \in Nat /\ y \in Nat BY <1>3, <1>4, <2>3, <3>1
    <3>3. y <= x BY <1>4, <2>3, <3>1
    <3>4. x < y BY <2>1, <2>3, <3>1
    <3> QED BY <3>2, <3>3, <3>4
  <2> QED BY <2>2, <2>3
<1>7. (CHOOSE k \in StoredSlots(s) : \A j \in StoredSlots(s) :
          vault.refresh[s][j].rotation <= vault.refresh[s][k].rotation) = i
  BY <1>4, <1>6
<1> QED BY <1>4, <1>7 DEF LoadRefresh

\* The steps that write nothing to the vault.
LEMMA VaultUnwritten ==
  ASSUME SessionsInv, UNCHANGED <<serverVars, vault, discarded>>
  PROVE  /\ UNCHANGED <<sessions, records, vault, discarded>>
         /\ \A s : StoredSlots(s)' = StoredSlots(s)
  BY DEF serverVars, StoredSlots

LEMMA RestoreHolds ==
  ASSUME SessionsInv, Restore PROVE SessionsInv' /\ StaysEnded
<1>1. /\ pc = "idle" /\ memory.bound = 0 /\ vault.installed # 0
      /\ UNCHANGED <<serverVars, vault, pc, sent, late, fresh, discarded>>
      /\ memory' = [bound |-> vault.installed, refresh |-> LoadRefresh(vault.installed), access |-> FALSE]
  BY DEF Restore, SignedOut
<1>2. ManagerTypeOK /\ vault.installed \in Ids /\ StoredSlots(vault.installed) # {}
  BY <1>1, SessionsAreNumbered DEF SessionsInv, BoundFits, DeviceFits
<1>3. UNCHANGED <<sessions, records, vault, discarded>> /\ \A s : StoredSlots(s)' = StoredSlots(s)
  BY <1>1, VaultUnwritten
<1>4. LoadRefresh(vault.installed) \in StoredRefresh /\ LoadRefresh(vault.installed) # None
  BY <1>2, LoadSome
<1>5. memory' \in Memories
  <2>1. vault.installed \in Nat BY <1>2 DEF ManagerTypeOK, Vaults
  <2> QED BY <1>1, <1>4, <2>1 DEF Memories
<1>6. ManagerTypeOK' BY <1>1, <1>2, <1>3, <1>5 DEF ManagerTypeOK
<1>7. SentFits' BY <1>1, AnswersDiffer DEF SessionsInv, SentFits, Committing
<1>8. BoundFits' BY <1>1, <1>3, <1>4 DEF SessionsInv, BoundFits
<1>9. DeviceFits' BY <1>1, <1>3 DEF SessionsInv, DeviceFits, Committing
<1>10. VaultFits'
  <2>1. SUFFICES ASSUME NEW s \in Ids \ discarded
                 PROVE  IF s = vault.installed THEN \E i \in {0, 1} : Kept(s, i)'
                                               ELSE NeverInstalled(s)'
    BY <1>3 DEF VaultFits
  <2>2. InFlight(s)' = InFlight(s) BY <1>1 DEF InFlight
  <2>3. CASE s # vault.installed
    <3>1. NeverInstalled(s) BY <2>3 DEF SessionsInv, VaultFits
    <3> QED BY <1>3, <2>2, <2>3, <3>1 DEF NeverInstalled
  <2>4. CASE s = vault.installed
    <3>1. PICK i \in {0, 1} : Kept(s, i) BY <2>4 DEF SessionsInv, VaultFits
    <3>2. LoadRefresh(s) = [slot |-> i, record |-> vault.refresh[s][i]]
      BY <1>2, <3>1, LoadNewest
    <3>3. memory'.refresh = [slot |-> i, record |-> vault.refresh[s][i]]
      BY <1>1, <2>4, <3>2
    <3>4. Opens(s, vault.refresh[s][i])' BY <1>3, <3>1 DEF Kept, Opens
    <3>5. \A q \in InFlight(s)' : MadeWith(s, vault.refresh[s][i], q)'
      BY <1>3, <2>2, <3>1 DEF Kept, MadeWith
    <3>6. Kept(s, i)' BY <1>1, <1>3, <3>1, <3>3, <3>4, <3>5 DEF Kept
    <3> QED BY <2>4, <3>6
  <2> QED BY <2>3, <2>4
<1> QED BY <1>1, <1>6, <1>7, <1>8, <1>9, <1>10, ConnectKeeps

LEMMA BeginLogoutHolds ==
  ASSUME SessionsInv, BeginLogout PROVE SessionsInv' /\ StaysEnded
<1>1. /\ pc = "idle" /\ memory.bound # 0 /\ pc' = "leaving"
      /\ UNCHANGED <<serverVars, vault, memory, late, fresh, discarded>>
      /\ sent' = [kind |-> "logout", session |-> memory.bound,
                  credential |-> memory.refresh.record.credential]
  BY DEF BeginLogout
<1>2. memory.bound \in Ids /\ vault.installed = memory.bound /\ memory.refresh # None
  BY <1>1, SessionsAreNumbered DEF SessionsInv, BoundFits
<1>3. memory.refresh.record.credential \in Pairs
  BY <1>2 DEF SessionsInv, ManagerTypeOK, Memories, StoredRefresh, RefreshRecords
<1>4. sent' \in LogoutRequests /\ sent'.session = memory.bound
  BY <1>1, <1>2, <1>3 DEF LogoutRequests
<1>5. UNCHANGED <<sessions, records, vault, discarded>> /\ \A s : StoredSlots(s)' = StoredSlots(s)
  BY <1>1, VaultUnwritten
<1>6. ManagerTypeOK' BY <1>1, <1>5 DEF SessionsInv, ManagerTypeOK, SessionPoints
<1>7. SentFits' BY <1>1, <1>4, AnswersDiffer DEF SentFits, Committing
<1>8. BoundFits' BY <1>1, <1>2, <1>5 DEF SessionsInv, BoundFits
<1>9. DeviceFits' BY <1>1, <1>5 DEF SessionsInv, DeviceFits, Committing
<1>10. \A s : InFlight(s)' \subseteq InFlight(s)
  BY <1>1, <1>4, AnswersDiffer DEF InFlight
<1>11. VaultFits' BY <1>1, <1>10, VaultRests
<1> QED BY <1>1, <1>6, <1>7, <1>8, <1>9, <1>11, ConnectKeeps

LEMMA DiscardLocalHolds ==
  ASSUME SessionsInv, DiscardLocal PROVE SessionsInv' /\ StaysEnded
<1>1. /\ pc = "idle" /\ memory.bound # 0 /\ pc' = "forgetting" /\ sent' = None
      /\ UNCHANGED <<serverVars, vault, memory, late, fresh, discarded>>
  BY DEF DiscardLocal
<1>2. UNCHANGED <<sessions, records, vault, discarded>> /\ \A s : StoredSlots(s)' = StoredSlots(s)
  BY <1>1, VaultUnwritten
<1>3. ManagerTypeOK' BY <1>1, <1>2 DEF SessionsInv, ManagerTypeOK, SessionPoints
<1>4. SentFits' BY <1>1, AnswersDiffer DEF SentFits, Committing
<1>5. BoundFits' BY <1>1, <1>2 DEF SessionsInv, BoundFits
<1>6. DeviceFits' BY <1>1, <1>2 DEF SessionsInv, DeviceFits, Committing
<1>7. \A s : InFlight(s)' \subseteq InFlight(s)
  BY <1>1, AnswersDiffer DEF InFlight
<1>8. VaultFits' BY <1>1, <1>7, VaultRests
<1> QED BY <1>1, <1>3, <1>4, <1>5, <1>6, <1>8, ConnectKeeps

LEMMA GiveUpHolds ==
  ASSUME SessionsInv,
         late' \in (IF MayBeLate /\ Cardinality(late) < MaxLate THEN {late, late \cup {sent}} ELSE {late}),
         sent' = None, UNCHANGED <<serverVars, vault, fresh, discarded>>,
         \/ memory' = SignedOut /\ pc' = "idle"
         \/ /\ memory' = memory /\ Requesting
            /\ pc' = IF pc = "leaving" THEN "forgetting" ELSE "idle"
  PROVE  SessionsInv' /\ StaysEnded
<1>1. UNCHANGED <<sessions, records, vault, discarded>> /\ \A s : StoredSlots(s)' = StoredSlots(s)
  BY VaultUnwritten
<1>2. pc' \in {"idle", "forgetting"} OBVIOUS
<1>3. late' \subseteq CreateRequests \cup RefreshRequests
  BY LateTyped DEF SessionsInv, ManagerTypeOK
<1>4. memory' \in Memories
  <2>1. SignedOut \in Memories BY DEF SignedOut, Memories
  <2>2. memory \in Memories BY DEF SessionsInv, ManagerTypeOK
  <2> QED BY <2>1, <2>2
<1>5. ManagerTypeOK' BY <1>1, <1>2, <1>3, <1>4 DEF SessionsInv, ManagerTypeOK, SessionPoints
<1>6. SentFits' BY <1>2, AnswersDiffer DEF SentFits, Committing
<1>7. BoundFits'
  <2>1. CASE memory' = SignedOut /\ pc' = "idle"
    BY <1>1, <2>1 DEF SessionsInv, BoundFits, SignedOut
  <2>2. CASE memory' = memory /\ Requesting /\ pc' = IF pc = "leaving" THEN "forgetting" ELSE "idle"
    BY <1>1, <2>2 DEF SessionsInv, BoundFits, Requesting
  <2> QED BY <2>1, <2>2
<1>8. DeviceFits' BY <1>1, <1>2 DEF SessionsInv, DeviceFits, Committing
<1>9. \A s : InFlight(s)' \subseteq InFlight(s)
  BY AnswersDiffer DEF InFlight
<1>10. memory'.bound # 0 => memory' = memory /\ pc # "rotated"
  BY DEF SignedOut, Requesting
<1>11. VaultFits' BY <1>2, <1>9, <1>10, VaultRests
<1> QED BY <1>5, <1>6, <1>7, <1>8, <1>11, ConnectKeeps

LEMMA EndingsHold ==
  ASSUME SessionsInv, GiveUpWaiting \/ AnswerRefused \/ CrashConnect
  PROVE  SessionsInv' /\ StaysEnded
<1>1. CASE GiveUpWaiting BY <1>1, GiveUpHolds DEF GiveUpWaiting
<1>2. CASE CrashConnect BY <1>2, GiveUpHolds DEF CrashConnect, EndsOperation
<1>3. CASE AnswerRefused
  <2>1. late' = late BY <1>3 DEF AnswerRefused
  <2>2. late' \in (IF MayBeLate /\ Cardinality(late) < MaxLate THEN {late, late \cup {sent}} ELSE {late})
    BY <2>1
  <2> QED BY <1>3, <2>2, GiveUpHolds DEF AnswerRefused
<1> QED BY <1>1, <1>2, <1>3

\* The fields of a vault with one slot written.
LEMMA SlotWritten ==
  ASSUME vault \in Vaults, NEW s \in Ids, NEW i \in {0, 1}, NEW r \in {None} \cup RefreshRecords,
         vault' = [vault EXCEPT !.refresh[s][i] = r]
  PROVE  /\ vault' \in Vaults /\ vault'.installed = vault.installed
         /\ vault'.device = vault.device /\ vault'.pending = vault.pending
         /\ vault'.refresh[s][i] = r
         /\ \A t \in Ids, j \in {0, 1} : t # s \/ j # i => vault'.refresh[t][j] = vault.refresh[t][j]
<1>1. vault.refresh \in [Ids -> [{0, 1} -> {None} \cup RefreshRecords]] BY DEF Vaults
<1>2. PICK both : both = [vault.refresh[s] EXCEPT ![i] = r] OBVIOUS
<1>3. both \in [{0, 1} -> {None} \cup RefreshRecords] /\ both[i] = r
      /\ \A j \in {0, 1} : j # i => both[j] = vault.refresh[s][j]
  BY <1>1, <1>2
<1>4. PICK all : all = [vault.refresh EXCEPT ![s] = both] OBVIOUS
<1>5. all \in [Ids -> [{0, 1} -> {None} \cup RefreshRecords]] /\ all[s] = both
      /\ \A t \in Ids : t # s => all[t] = vault.refresh[t]
  BY <1>1, <1>3, <1>4
<1>6. vault' = [vault EXCEPT !.refresh = all]
  BY <1>2, <1>4
<1>7. /\ vault' \in Vaults /\ vault'.refresh = all /\ vault'.installed = vault.installed
      /\ vault'.device = vault.device /\ vault'.pending = vault.pending
  BY <1>5, <1>6 DEF Vaults
<1> QED BY <1>3, <1>5, <1>7

\* A step of Connect keeps the tables and the requests: a slot that opened a session still does.
LEMMA StillKept ==
  ASSUME SessionsInv, UNCHANGED <<sessions, records>>, NEW s \in Ids, NEW r, NEW q
  PROVE  Opens(s, r)' = Opens(s, r) /\ MadeWith(s, r, q)' = MadeWith(s, r, q)
  BY DEF Opens, MadeWith

LEMMA PrepareRefreshHolds ==
  ASSUME SessionsInv, PrepareRefresh PROVE SessionsInv' /\ StaysEnded
<1>1. PICK b, i, old : b = memory.bound /\ i = memory.refresh.slot /\ old = memory.refresh.record
  OBVIOUS
<1>2. PICK key : key = IF old.key = 0 THEN fresh + 1 ELSE old.key OBVIOUS
<1>3. PICK new : new = [old EXCEPT !.key = key] OBVIOUS
<1>4. /\ pc = "idle" /\ b # 0 /\ memory.refresh # None /\ key \in Fresh
      /\ fresh' = IF old.key = 0 THEN fresh + 1 ELSE fresh
      /\ vault' = [vault EXCEPT !.refresh[b][i] = new]
      /\ memory' = [memory EXCEPT !.refresh.record = new]
      /\ sent' = [kind |-> "refresh", session |-> b, credential |-> new.credential, key |-> key]
      /\ pc' = "refreshing" /\ UNCHANGED <<serverVars, late, discarded>>
  BY <1>1, <1>2, <1>3 DEF PrepareRefresh
<1>5. vault.installed = b /\ b \in Ids
  BY <1>1, <1>4, SessionsAreNumbered DEF SessionsInv, BoundFits
<1>6. memory \in Memories /\ memory.refresh \in StoredRefresh /\ i \in {0, 1} /\ old \in RefreshRecords
  BY <1>1, <1>4 DEF SessionsInv, ManagerTypeOK, Memories, StoredRefresh
<1>7. key \in Nat \ {0} /\ fresh' \in Nat
  BY <1>2, <1>4, SessionsAssumption DEF Fresh, SessionsInv, ManagerTypeOK
<1>8. new \in RefreshRecords /\ new.credential = old.credential /\ new.rotation = old.rotation
      /\ new.key = key
  BY <1>3, <1>6, <1>7 DEF RefreshRecords
<1>9. /\ vault' \in Vaults /\ vault'.installed = vault.installed
      /\ vault'.device = vault.device /\ vault'.pending = vault.pending
      /\ vault'.refresh[b][i] = new
      /\ \A t \in Ids, j \in {0, 1} : t # b \/ j # i => vault'.refresh[t][j] = vault.refresh[t][j]
  BY <1>4, <1>5, <1>6, <1>8, SlotWritten DEF SessionsInv, ManagerTypeOK
<1>10. PICK ref : ref = [memory.refresh EXCEPT !.record = new] OBVIOUS
<1>11. ref \in StoredRefresh /\ ref.slot = i /\ ref.record = new /\ ref = [slot |-> i, record |-> new]
  BY <1>1, <1>6, <1>8, <1>10 DEF StoredRefresh
<1>12. memory' = [memory EXCEPT !.refresh = ref] BY <1>4, <1>10
<1>13. memory' \in Memories /\ memory'.bound = b /\ memory'.refresh = ref
  BY <1>1, <1>6, <1>11, <1>12 DEF Memories
<1>14. sent' \in RefreshRequests /\ sent'.session = b /\ sent'.credential = new.credential
       /\ sent'.key = key
  BY <1>4, <1>5, <1>7, <1>8 DEF RefreshRequests, RefreshRecords
<1>15. UNCHANGED <<sessions, records, late, discarded>> BY <1>4 DEF serverVars
<1>16. ManagerTypeOK'
  BY <1>4, <1>7, <1>9, <1>13, <1>15 DEF SessionsInv, ManagerTypeOK, SessionPoints
<1>17. SentFits'
  BY <1>4, <1>8, <1>11, <1>13, <1>14, AnswersDiffer DEF SentFits, Committing
<1>18. BoundFits'
  BY <1>4, <1>5, <1>9, <1>11, <1>13, <1>15, AnswersDiffer DEF SessionsInv, BoundFits
<1>19. DeviceFits'
  <2>1. i \in StoredSlots(b)' BY <1>6, <1>8, <1>9, AnswersDiffer DEF StoredSlots
  <2> QED BY <1>4, <1>5, <1>9, <2>1 DEF SessionsInv, DeviceFits, Committing
<1>20. VaultFits'
  <2>1. SUFFICES ASSUME NEW s \in Ids \ discarded
                 PROVE  IF s = vault.installed THEN \E k \in {0, 1} : Kept(s, k)'
                                               ELSE NeverInstalled(s)'
    BY <1>9, <1>15 DEF VaultFits
  <2>2. sent = None BY <1>4 DEF SessionsInv, SentFits
  <2>3. CASE s # vault.installed
    <3>1. NeverInstalled(s) BY <2>3 DEF SessionsInv, VaultFits
    <3>2. InFlight(s)' = {}
      BY <1>5, <1>14, <1>15, <2>3, <3>1 DEF NeverInstalled, InFlight
    <3> QED BY <1>5, <1>9, <1>15, <2>3, <3>1, <3>2 DEF NeverInstalled
  <2>4. CASE s = vault.installed
    <3>1. PICK k \in {0, 1} : Kept(s, k) BY <2>4 DEF SessionsInv, VaultFits
    <3>2. s = b /\ s \in DOMAIN sessions
      BY <1>4, <1>5, <2>4 DEF SessionsInv, BoundFits
    <3>3. k = i /\ vault.refresh[s][i] = old
      BY <1>1, <1>4, <3>1, <3>2 DEF Kept
    <3>4. Opens(s, old) /\ \A q \in InFlight(s) : MadeWith(s, old, q)
      BY <3>1, <3>3 DEF Kept
    <3>5. /\ \A t \in records : t[3] # 0
      BY DEF SessionsInv, ServerTypeOK
    <3>6. old.key # 0 => key = old.key BY <1>2
    <3>7. Opens(s, new)
      <4>1. <<s, sessions[s].generation - 1, old.key>> \in records => old.key # 0
        <5>1. <<s, sessions[s].generation - 1, old.key>>[3] = old.key OBVIOUS
        <5> QED BY <3>5, <5>1
      <4> QED BY <1>8, <3>4, <3>6, <4>1 DEF Opens
    <3>8. \A q \in InFlight(s) : MadeWith(s, new, q)
      <4>1. \A q \in InFlight(s) : q.key # 0 BY DEF InFlight, RefreshRequests
      <4> QED BY <1>8, <3>4, <3>6, <4>1 DEF MadeWith
    <3>9. \A q \in InFlight(s)' : q \in InFlight(s) \/ q = sent'
      BY <1>15 DEF InFlight
    <3>10. MadeWith(s, new, sent') BY <1>8, <1>14 DEF MadeWith
    <3>11. \A q \in InFlight(s)' : MadeWith(s, new, q) BY <3>8, <3>9, <3>10
    <3>12. vault'.refresh[s][k] = new BY <1>9, <3>2, <3>3
    <3>13. Opens(s, new)' /\ \A q \in InFlight(s)' : MadeWith(s, new, q)'
      BY <1>15, <3>7, <3>11, StillKept
    <3>14. vault'.refresh[s][1 - k] = vault.refresh[s][1 - k]
      BY <1>9, <3>3
    <3>15. vault'.refresh[s][1 - k] = None
             \/ vault'.refresh[s][1 - k].rotation < new.rotation
      BY <1>8, <3>1, <3>3, <3>14 DEF Kept
    <3>16. Kept(s, k)'
      BY <1>4, <1>8, <1>11, <1>13, <1>14, <3>3, <3>12, <3>13, <3>15, AnswersDiffer DEF Kept
    <3> QED BY <2>4, <3>16
  <2> QED BY <2>3, <2>4
<1> QED BY <1>4, <1>15, <1>16, <1>17, <1>18, <1>19, <1>20, ConnectKeeps

LEMMA RotateRefreshHolds ==
  ASSUME SessionsInv, RotateRefresh PROVE SessionsInv' /\ StaysEnded
<1>1. PICK b, i, old : b = memory.bound /\ i = memory.refresh.slot /\ old = memory.refresh.record
  OBVIOUS
<1>2. PICK new : new = [credential |-> sent.credential, rotation |-> old.rotation + 1, key |-> 0]
  OBVIOUS
<1>3. /\ pc = "refreshing" /\ sent # None /\ sent.kind = "granted"
      /\ vault' = [vault EXCEPT !.refresh[b][1 - i] = new]
      /\ pc' = "rotated" /\ UNCHANGED <<serverVars, memory, sent, late, fresh, discarded>>
  BY <1>1, <1>2 DEF RotateRefresh, WriteSlot
<1>4. b # 0 /\ vault.installed = b /\ b \in Ids /\ memory.refresh # None /\ b \in DOMAIN sessions
  BY <1>1, <1>3, SessionsAreNumbered DEF SessionsInv, BoundFits
<1>5. memory.refresh \in StoredRefresh /\ i \in {0, 1} /\ old \in RefreshRecords /\ 1 - i \in {0, 1}
  BY <1>1, <1>4 DEF SessionsInv, ManagerTypeOK, Memories, StoredRefresh
<1>6. sent \in Grants
  BY <1>3 DEF SessionsInv, SentFits, RefreshRequests, Refused
<1>7. new \in RefreshRecords /\ new.credential = sent.credential /\ new.rotation = old.rotation + 1
      /\ new.key = 0 /\ new # None
  <2>1. sent.credential \in Pairs /\ old.rotation + 1 \in Nat
    BY <1>5, <1>6 DEF Grants, RefreshRecords
  <2>2. new \in RefreshRecords BY <1>2, <2>1 DEF RefreshRecords
  <2> QED BY <1>2, <2>2, AnswersDiffer
<1>8. /\ vault' \in Vaults /\ vault'.installed = vault.installed
      /\ vault'.device = vault.device /\ vault'.pending = vault.pending
      /\ vault'.refresh[b][1 - i] = new
      /\ \A t \in Ids, j \in {0, 1} : t # b \/ j # 1 - i => vault'.refresh[t][j] = vault.refresh[t][j]
  BY <1>3, <1>4, <1>5, <1>7, SlotWritten DEF SessionsInv, ManagerTypeOK
<1>9. UNCHANGED <<sessions, records, late, discarded, memory, sent>> BY <1>3 DEF serverVars
<1>10. ManagerTypeOK'
  BY <1>3, <1>8, <1>9 DEF SessionsInv, ManagerTypeOK, SessionPoints
<1>11. SentFits'
  BY <1>3, <1>6, <1>9, AnswersDiffer DEF SessionsInv, SentFits, Committing
<1>12. BoundFits' BY <1>1, <1>3, <1>4, <1>8, <1>9 DEF SessionsInv, BoundFits
<1>13. DeviceFits'
  <2>1. 1 - i \in StoredSlots(b)' BY <1>5, <1>7, <1>8 DEF StoredSlots
  <2> QED BY <1>1, <1>3, <1>4, <1>7, <1>8, <1>9, <2>1 DEF SessionsInv, DeviceFits, Committing
<1>14. VaultFits'
  <2>1. SUFFICES ASSUME NEW s \in Ids \ discarded
                 PROVE  IF s = vault.installed THEN \E k \in {0, 1} : Kept(s, k)'
                                               ELSE NeverInstalled(s)'
    BY <1>8, <1>9 DEF VaultFits
  <2>2. InFlight(s)' = InFlight(s) BY <1>9 DEF InFlight
  <2>3. CASE s # vault.installed
    <3>1. NeverInstalled(s) BY <2>3 DEF SessionsInv, VaultFits
    <3> QED BY <1>4, <1>8, <1>9, <2>2, <2>3, <3>1 DEF NeverInstalled
  <2>4. CASE s = vault.installed
    <3>1. PICK k \in {0, 1} : Kept(s, k) BY <2>4 DEF SessionsInv, VaultFits
    <3>2. s = b BY <1>4, <2>4
    <3>3. k = i /\ vault.refresh[s][i] = old
      BY <1>1, <1>3, <3>1, <3>2 DEF Kept
    <3>4. Opens(s, old) /\ \A q \in InFlight(s) : MadeWith(s, old, q)
      BY <3>1, <3>3 DEF Kept
    <3>5. sent.credential = sessions[s].current /\ old.credential # sessions[s].current
      BY <1>3, <1>6, <3>1, <3>3 DEF Kept
    <3>6. PICK g : g = sessions[s].generation OBVIOUS
    <3>7. /\ g \in Nat /\ g > 0 /\ old.credential = sessions[s].previous
          /\ <<s, g - 1, old.key>> \in records
      BY <1>4, <3>2, <3>4, <3>5, <3>6 DEF Opens, SessionsInv, ServerTypeOK, SessionRows
    <3>8. old.credential[1] = g - 1 /\ new.credential[1] = g
      <4>1. sessions[s].current[1] = g /\ sessions[s].previous[1] = g - 1
        BY <1>4, <3>2, <3>6, <3>7 DEF SessionsInv, GenerationsFit
      <4> QED BY <1>7, <3>5, <3>7, <4>1
    <3>9. Opens(s, new) BY <1>7, <3>5 DEF Opens
    <3>10. ASSUME NEW q \in InFlight(s) PROVE MadeWith(s, new, q)
      <4>1. MadeWith(s, old, q) BY <3>4
      <4>2. CASE q.credential = old.credential /\ q.key = old.key
        BY <3>7, <3>8, <4>2 DEF MadeWith
      <4>3. CASE q.credential[1] < old.credential[1] /\ <<s, q.credential[1], q.key>> \in records
        <5>1. q.credential[1] \in Nat BY DEF InFlight, RefreshRequests, Pairs
        <5> QED BY <3>7, <3>8, <4>3, <5>1 DEF MadeWith
      <4> QED BY <4>1, <4>2, <4>3 DEF MadeWith
    <3>11. vault'.refresh[s][1 - i] = new /\ vault'.refresh[s][i] = old
      BY <1>5, <1>8, <3>2, <3>3
    <3>12. 1 - (1 - i) = i /\ old.rotation < new.rotation
      BY <1>5, <1>7 DEF RefreshRecords
    <3>13. Opens(s, new)' /\ \A q \in InFlight(s)' : MadeWith(s, new, q)'
      BY <1>9, <2>2, <3>9, <3>10, StillKept
    <3>14. Kept(s, 1 - i)'
      BY <1>1, <1>3, <1>5, <1>7, <1>9, <3>11, <3>12, <3>13 DEF Kept
    <3> QED BY <1>5, <2>4, <1>8, <3>14
  <2> QED BY <2>3, <2>4
<1> QED BY <1>3, <1>9, <1>10, <1>11, <1>12, <1>13, <1>14, ConnectKeeps

\* While no account is installed no session that Connect did not give up was refreshed.
LEMMA NothingInstalled ==
  ASSUME SessionsInv, vault.installed = 0, UNCHANGED <<sessions, discarded>>, vault'.installed = 0,
         \A s \in Ids : vault'.refresh[s][1] \in {None, vault.refresh[s][1]},
         \A s : InFlight(s)' \subseteq InFlight(s)
  PROVE  VaultFits'
<1>1. ASSUME NEW s \in Ids \ discarded PROVE s # vault'.installed /\ NeverInstalled(s)'
  <2>1. s # 0 BY SessionsAssumption DEF Ids
  <2>2. NeverInstalled(s) BY <2>1 DEF SessionsInv, VaultFits
  <2> QED BY <2>1, <2>2 DEF NeverInstalled
<1> QED BY <1>1 DEF VaultFits

LEMMA BeginCreateHolds ==
  ASSUME SessionsInv, NEW o \in Operations, BeginCreate(o) PROVE SessionsInv' /\ StaysEnded
<1>1. /\ pc = "idle" /\ memory.bound = 0 /\ vault.installed = 0 /\ pc' = "creating"
      /\ LoadOrCreatePending(o)
      /\ sent' = [kind |-> "create", operation |-> o, identity |-> vault'.pending[o]]
      /\ UNCHANGED <<serverVars, memory, late, discarded>>
  BY DEF BeginCreate
<1>2. UNCHANGED <<sessions, records, discarded, late, memory>> BY <1>1 DEF serverVars
<1>3. vault \in Vaults /\ fresh \in Nat BY DEF SessionsInv, ManagerTypeOK
<1>4. /\ vault' \in Vaults /\ vault'.pending[o] # 0 /\ vault'.installed = 0
      /\ vault'.refresh = vault.refresh /\ fresh' \in Nat
  <2>1. CASE vault.pending[o] # 0
    BY <1>1, <1>3, <2>1 DEF LoadOrCreatePending
  <2>2. CASE vault.pending[o] = 0
    <3>1. vault' = [vault EXCEPT !.pending[o] = fresh + 1] /\ fresh' = fresh + 1
      BY <1>1, <2>2 DEF LoadOrCreatePending
    <3>2. PICK p : p = [vault.pending EXCEPT ![o] = fresh + 1] OBVIOUS
    <3>3. p \in [Operations -> Nat] /\ p[o] = fresh + 1 /\ fresh + 1 # 0
      BY <1>3, <3>2 DEF Vaults
    <3>4. vault' = [vault EXCEPT !.pending = p] BY <3>1, <3>2
    <3> QED BY <1>1, <1>3, <3>1, <3>3, <3>4 DEF Vaults
  <2> QED BY <2>1, <2>2
<1>5. sent' \in CreateRequests
  <2>1. vault'.pending[o] \in Nat \ {0} BY <1>4 DEF Vaults
  <2> QED BY <1>1, <2>1 DEF CreateRequests
<1>6. ManagerTypeOK' BY <1>1, <1>2, <1>4 DEF SessionsInv, ManagerTypeOK, SessionPoints
<1>7. SentFits' BY <1>1, <1>5, AnswersDiffer DEF SentFits, Committing
<1>8. BoundFits' BY <1>1, <1>2, <1>4 DEF SessionsInv, BoundFits
<1>9. DeviceFits' BY <1>1, <1>4 DEF DeviceFits, Committing
<1>10. \A s : InFlight(s)' \subseteq InFlight(s)
  BY <1>2, <1>5, AnswersDiffer DEF InFlight
<1>11. VaultFits' BY <1>1, <1>2, <1>4, <1>10, NothingInstalled
<1> QED BY <1>1, <1>6, <1>7, <1>8, <1>9, <1>11, ConnectKeeps

LEMMA CommitKeysHolds ==
  ASSUME SessionsInv, CommitKeys PROVE SessionsInv' /\ StaysEnded
<1>1. PICK q \in DOMAIN created : /\ created[q] = sent.session
                                  /\ vault' = [vault EXCEPT !.device[sent.session] = q.identity]
  BY DEF CommitKeys
<1>2. /\ pc = "creating" /\ sent # None /\ sent.kind = "granted" /\ pc' = "commit refresh"
      /\ UNCHANGED <<serverVars, memory, sent, late, fresh, discarded>>
  BY DEF CommitKeys
<1>3. UNCHANGED <<sessions, records, discarded, late, memory, sent>> BY <1>2 DEF serverVars
<1>4. sent \in Grants
  <2>1. sent \in CreateRequests \cup {Refused} \cup Grants BY <1>2 DEF SessionsInv, SentFits
  <2>2. Refused.kind = "refused" /\ \A p \in CreateRequests : p.kind = "create"
    BY DEF Refused, CreateRequests
  <2> QED BY <1>2, <2>1, <2>2
<1>5. sent.session \in Ids /\ q.identity \in Nat \ {0} /\ memory.bound = 0 /\ vault.installed = 0
  BY <1>1, <1>2, <1>4 DEF Grants, SessionsInv, ServerTypeOK, CreateRequests, BoundFits
<1>6. vault \in Vaults BY DEF SessionsInv, ManagerTypeOK
<1>7. /\ vault' \in Vaults /\ vault'.installed = 0 /\ vault'.refresh = vault.refresh
      /\ vault'.device[sent.session] # 0
  <2>1. PICK d : d = [vault.device EXCEPT ![sent.session] = q.identity] OBVIOUS
  <2>2. d \in [Ids -> Nat] /\ d[sent.session] = q.identity BY <1>5, <1>6, <2>1 DEF Vaults
  <2>3. vault' = [vault EXCEPT !.device = d] BY <1>1, <2>1
  <2> QED BY <1>5, <1>6, <2>2, <2>3 DEF Vaults
<1>8. ManagerTypeOK' BY <1>2, <1>3, <1>7 DEF SessionsInv, ManagerTypeOK, SessionPoints, Committing
<1>9. SentFits' BY <1>2, <1>3, <1>4, AnswersDiffer DEF SessionsInv, SentFits, Committing
<1>10. BoundFits' BY <1>2, <1>3, <1>5, <1>7 DEF BoundFits
<1>11. DeviceFits' BY <1>2, <1>3, <1>7 DEF DeviceFits
<1>12. \A s : InFlight(s)' \subseteq InFlight(s) BY <1>3 DEF InFlight
<1>13. VaultFits' BY <1>3, <1>5, <1>7, <1>12, NothingInstalled
<1> QED BY <1>2, <1>8, <1>9, <1>10, <1>11, <1>13, ConnectKeeps

LEMMA CommitRefreshHolds ==
  ASSUME SessionsInv, CommitRefresh PROVE SessionsInv' /\ StaysEnded
<1>1. PICK new : new = [credential |-> sent.credential, rotation |-> 1, key |-> 0] OBVIOUS
<1>2. /\ pc = "commit refresh" /\ pc' = "commit installed"
      /\ vault' = [vault EXCEPT !.refresh[sent.session][0] = new]
      /\ UNCHANGED <<serverVars, memory, sent, late, fresh, discarded>>
  BY <1>1 DEF CommitRefresh, WriteSlot
<1>3. UNCHANGED <<sessions, records, discarded, late, memory, sent>> BY <1>2 DEF serverVars
<1>4. /\ sent \in Grants /\ sent.session \in Ids /\ sent.credential \in Pairs
      /\ sent.session \in DOMAIN sessions /\ sent.credential = <<0, 0>>
      /\ memory.bound = 0 /\ vault.installed = 0 /\ vault.device[sent.session] # 0
  BY <1>2 DEF SessionsInv, SentFits, BoundFits, DeviceFits, Grants, Committing
<1>5. new \in RefreshRecords BY <1>1, <1>4 DEF RefreshRecords
<1>6. /\ vault' \in Vaults /\ vault'.installed = vault.installed
      /\ vault'.device = vault.device /\ vault'.refresh[sent.session][0] = new
      /\ \A t \in Ids : vault'.refresh[t][1] = vault.refresh[t][1]
  <2>1. PICK b \in Ids : b = sent.session BY <1>4
  <2>2. vault \in Vaults /\ 0 \in {0, 1} /\ new \in {None} \cup RefreshRecords
        /\ vault' = [vault EXCEPT !.refresh[b][0] = new]
    BY <1>2, <1>5, <2>1 DEF SessionsInv, ManagerTypeOK
  <2>3. /\ vault' \in Vaults /\ vault'.installed = vault.installed
        /\ vault'.device = vault.device /\ vault'.refresh[b][0] = new
        /\ \A t \in Ids, j \in {0, 1} : t # b \/ j # 0 => vault'.refresh[t][j] = vault.refresh[t][j]
    BY <2>2, SlotWritten
  <2> QED BY <2>1, <2>3
<1>7. ManagerTypeOK' BY <1>2, <1>3, <1>6 DEF SessionsInv, ManagerTypeOK, SessionPoints, Committing
<1>8. SentFits' BY <1>2, <1>3, <1>4, AnswersDiffer DEF SentFits, Committing
<1>9. BoundFits' BY <1>2, <1>3, <1>4, <1>6 DEF BoundFits
<1>10. DeviceFits' BY <1>1, <1>2, <1>3, <1>4, <1>6 DEF DeviceFits
<1>11. \A s : InFlight(s)' \subseteq InFlight(s) BY <1>3 DEF InFlight
<1>12. VaultFits' BY <1>3, <1>4, <1>6, <1>11, NothingInstalled
<1> QED BY <1>2, <1>7, <1>8, <1>9, <1>10, <1>12, ConnectKeeps

LEMMA CommitInstalledHolds ==
  ASSUME SessionsInv, CommitInstalled PROVE SessionsInv' /\ StaysEnded
<1>1. /\ pc = "commit installed" /\ pc' = "commit cleanup"
      /\ vault' = [vault EXCEPT !.installed = sent.session]
      /\ UNCHANGED <<serverVars, memory, sent, late, fresh, discarded>>
  BY DEF CommitInstalled
<1>2. UNCHANGED <<sessions, records, discarded, late, memory, sent>> BY <1>1 DEF serverVars
<1>3. PICK b : b = sent.session OBVIOUS
<1>4. PICK new : new = [credential |-> <<0, 0>>, rotation |-> 1, key |-> 0] OBVIOUS
<1>5. /\ sent \in Grants /\ b \in Ids /\ b \in DOMAIN sessions /\ sent.credential = <<0, 0>>
      /\ memory.bound = 0 /\ vault.installed = 0 /\ vault.device[b] # 0 /\ vault.refresh[b][0] = new
  BY <1>1, <1>3, <1>4 DEF SessionsInv, SentFits, BoundFits, DeviceFits, Grants, Committing
<1>6. b \in Nat /\ b # 0 BY <1>5, SessionsAssumption DEF Ids
<1>7. /\ vault' \in Vaults /\ vault'.installed = b /\ vault'.refresh = vault.refresh
      /\ vault'.device = vault.device
  BY <1>1, <1>3, <1>6 DEF SessionsInv, ManagerTypeOK, Vaults
<1>8. new \in RefreshRecords /\ new # None /\ new.credential = <<0, 0>> /\ new.rotation = 1
  <2>1. new \in RefreshRecords BY <1>4 DEF RefreshRecords, Pairs
  <2> QED BY <1>4, <2>1, AnswersDiffer
<1>9. ManagerTypeOK' BY <1>1, <1>2, <1>7 DEF SessionsInv, ManagerTypeOK, SessionPoints, Committing
<1>10. SentFits' BY <1>1, <1>2, <1>3, <1>5, AnswersDiffer DEF SentFits, Committing
<1>11. BoundFits' BY <1>1, <1>2, <1>3, <1>5, <1>7 DEF BoundFits
<1>12. DeviceFits'
  <2>1. 0 \in StoredSlots(b)' BY <1>5, <1>7, <1>8 DEF StoredSlots
  <2> QED BY <1>1, <1>2, <1>3, <1>5, <1>7, <2>1 DEF DeviceFits
<1>13. VaultFits'
  <2>1. SUFFICES ASSUME NEW s \in Ids \ discarded
                 PROVE  IF s = b THEN Kept(s, 0)' ELSE NeverInstalled(s)'
    BY <1>2, <1>7 DEF VaultFits
  <2>2. InFlight(s)' = InFlight(s) BY <1>2 DEF InFlight
  <2>3. NeverInstalled(s)
    BY <1>5, SessionsAssumption DEF SessionsInv, VaultFits, Ids
  <2>4. CASE s # b BY <1>2, <1>7, <2>2, <2>3, <2>4 DEF NeverInstalled
  <2>5. CASE s = b
    <3>1. sessions[s].generation = 0 /\ vault.refresh[s][1] = None /\ InFlight(s)' = {}
      BY <1>5, <2>2, <2>3, <2>5 DEF NeverInstalled
    <3>2. sessions[s].current = <<0, 0>>
      BY <1>5, <2>5, <3>1 DEF SessionsInv, GenerationsFit
    <3>3. Opens(s, new)' BY <1>2, <1>8, <3>2 DEF Opens
    <3>4. vault'.refresh[s][0] = new /\ vault'.refresh[s][1 - 0] = None
      BY <1>5, <1>7, <2>5, <3>1
    <3>5. Kept(s, 0)'
      BY <1>1, <1>2, <1>5, <1>6, <1>8, <2>5, <3>1, <3>3, <3>4 DEF Kept
    <3> QED BY <2>5, <3>5
  <2> QED BY <2>4, <2>5
<1> QED BY <1>1, <1>9, <1>10, <1>11, <1>12, <1>13, ConnectKeeps

LEMMA CommitCleanupHolds ==
  ASSUME SessionsInv, CommitCleanup PROVE SessionsInv' /\ StaysEnded
<1>1. PICK b, ref : b = sent.session /\ ref = LoadRefresh(sent.session) OBVIOUS
<1>2. PICK p : p = [o \in Operations |-> IF vault.pending[o] = vault.device[b] THEN 0 ELSE vault.pending[o]]
  OBVIOUS
<1>3. /\ pc = "commit cleanup" /\ pc' = "idle" /\ sent' = None
      /\ vault' = [vault EXCEPT !.pending = p]
      /\ memory' = [bound |-> b, access |-> TRUE, refresh |-> ref]
      /\ UNCHANGED <<serverVars, late, fresh, discarded>>
  BY <1>1, <1>2 DEF CommitCleanup, EndsOperation
<1>4. UNCHANGED <<sessions, records, discarded, late>> BY <1>3 DEF serverVars
<1>5. /\ sent \in Grants /\ b \in Ids /\ vault.installed = b /\ b \in DOMAIN sessions
  BY <1>1, <1>3 DEF SessionsInv, SentFits, BoundFits, Grants, Committing
<1>6. b \in Nat /\ b # 0 BY <1>5, SessionsAssumption DEF Ids
<1>7. StoredSlots(b) # {} /\ ManagerTypeOK /\ vault \in Vaults
  BY <1>5, <1>6 DEF SessionsInv, DeviceFits, ManagerTypeOK
<1>8. ref \in StoredRefresh /\ ref # None BY <1>1, <1>5, <1>7, LoadSome
<1>9. p \in [Operations -> Nat] BY <1>2, <1>7 DEF Vaults
<1>10. /\ vault' \in Vaults /\ vault'.installed = b /\ vault'.refresh = vault.refresh
       /\ vault'.device = vault.device
  BY <1>3, <1>5, <1>7, <1>9 DEF Vaults
<1>11. memory' \in Memories BY <1>3, <1>6, <1>8 DEF Memories
<1>12. ManagerTypeOK' BY <1>3, <1>4, <1>7, <1>10, <1>11 DEF ManagerTypeOK, SessionPoints
<1>13. SentFits' BY <1>3, AnswersDiffer DEF SentFits, Committing
<1>14. BoundFits' BY <1>3, <1>4, <1>5, <1>8, <1>10 DEF BoundFits
<1>15. DeviceFits'
  <2>1. StoredSlots(b)' = StoredSlots(b) BY <1>10 DEF StoredSlots
  <2> QED BY <1>3, <1>5, <1>6, <1>7, <1>10, <2>1 DEF SessionsInv, DeviceFits, Committing
<1>16. VaultFits'
  <2>1. SUFFICES ASSUME NEW s \in Ids \ discarded
                 PROVE  IF s = b THEN \E i \in {0, 1} : Kept(s, i)' ELSE NeverInstalled(s)'
    BY <1>4, <1>10 DEF VaultFits
  <2>2. InFlight(s)' \subseteq InFlight(s) BY <1>3, <1>4, AnswersDiffer DEF InFlight
  <2>3. CASE s # b
    <3>1. NeverInstalled(s) BY <1>5, <2>3 DEF SessionsInv, VaultFits
    <3> QED BY <1>4, <1>10, <2>2, <2>3, <3>1 DEF NeverInstalled
  <2>4. CASE s = b
    <3>1. PICK i \in {0, 1} : Kept(s, i) BY <1>5, <2>4 DEF SessionsInv, VaultFits
    <3>2. ref = [slot |-> i, record |-> vault.refresh[s][i]]
      BY <1>1, <1>7, <2>4, <3>1, LoadNewest
    <3>3. memory'.refresh = [slot |-> i, record |-> vault'.refresh[s][i]]
      BY <1>3, <1>10, <3>2
    <3>4. Opens(s, vault.refresh[s][i])' BY <1>4, <1>10, <3>1 DEF Kept, Opens
    <3>5. \A q \in InFlight(s)' : MadeWith(s, vault.refresh[s][i], q)'
      BY <1>4, <1>10, <2>2, <3>1 DEF Kept, MadeWith
    <3>6. Kept(s, i)' BY <1>3, <1>10, <3>1, <3>3, <3>4, <3>5 DEF Kept
    <3> QED BY <2>4, <3>6
  <2> QED BY <2>3, <2>4
<1> QED BY <1>3, <1>12, <1>13, <1>14, <1>15, <1>16, ConnectKeeps

\* The fields of a vault without a device.
LEMMA DeviceForgotten ==
  ASSUME NEW v \in Vaults, NEW b \in Ids
  PROVE  /\ WithoutDevice(v, b) \in Vaults /\ WithoutDevice(v, b).installed = v.installed
         /\ \A s \in Ids : WithoutDevice(v, b).refresh[s][1] \in {None, v.refresh[s][1]}
<1>1. PICK d, r : /\ d = [v.device EXCEPT ![b] = 0]
                  /\ r = [v.refresh EXCEPT ![b] = [i \in {0, 1} |-> None]]
  OBVIOUS
<1>2. v.device \in [Ids -> Nat] /\ v.refresh \in [Ids -> [{0, 1} -> {None} \cup RefreshRecords]]
  BY DEF Vaults
<1>3. /\ d \in [Ids -> Nat] /\ r \in [Ids -> [{0, 1} -> {None} \cup RefreshRecords]]
      /\ \A s \in Ids : r[s][1] \in {None, v.refresh[s][1]}
  BY <1>1, <1>2
<1>4. PICK w : w = [v EXCEPT !.device = d] OBVIOUS
<1>5. w \in Vaults /\ w.installed = v.installed /\ w.refresh = v.refresh BY <1>3, <1>4 DEF Vaults
<1>6. PICK x : x = [w EXCEPT !.refresh = r] OBVIOUS
<1>7. x \in Vaults /\ x.installed = v.installed /\ x.refresh = r BY <1>3, <1>5, <1>6 DEF Vaults
<1>8. WithoutDevice(v, b) = x
  BY <1>1, <1>4, <1>6 DEF WithoutDevice
<1> QED BY <1>3, <1>7, <1>8

LEMMA CommitFailsHolds ==
  ASSUME SessionsInv, CommitFails PROVE SessionsInv' /\ StaysEnded
<1>1. /\ pc \in Committing /\ pc' = "idle" /\ sent' = None
      /\ UNCHANGED <<serverVars, memory, late, fresh, discarded>>
      /\ vault' = IF pc = "commit cleanup" THEN vault
                  ELSE WithoutDevice(WithoutInstalled(vault, sent.session), sent.session)
  BY DEF CommitFails, EndsOperation, Committing
<1>2. UNCHANGED <<sessions, records, discarded, late, memory>> BY <1>1 DEF serverVars
<1>3. sent \in Grants /\ sent.session \in Ids /\ memory.bound = 0
  BY <1>1 DEF SessionsInv, SentFits, BoundFits, Grants, Committing
<1>4. vault \in Vaults BY DEF SessionsInv, ManagerTypeOK
<1>5. \A s : InFlight(s)' \subseteq InFlight(s) BY <1>1, <1>2, AnswersDiffer DEF InFlight
<1>6. SentFits' BY <1>1, AnswersDiffer DEF SentFits, Committing
<1>7. CASE pc = "commit cleanup"
  <2>1. vault' = vault BY <1>1, <1>7
  <2>2. ManagerTypeOK' BY <1>1, <1>2, <2>1 DEF SessionsInv, ManagerTypeOK, SessionPoints
  <2>3. BoundFits' BY <1>1, <1>2, <1>3, <2>1 DEF SessionsInv, BoundFits
  <2>4. DeviceFits'
    <3>1. \A s : StoredSlots(s)' = StoredSlots(s) BY <2>1 DEF StoredSlots
    <3> QED BY <1>1, <2>1, <3>1 DEF SessionsInv, DeviceFits, Committing
  <2>5. VaultFits' BY <1>1, <1>3, <1>5, <2>1, VaultRests
  <2> QED BY <1>1, <1>6, <2>2, <2>3, <2>4, <2>5, ConnectKeeps
<1>8. CASE pc # "commit cleanup"
  <2>1. vault.installed = 0 BY <1>1, <1>8 DEF SessionsInv, BoundFits, Committing
  <2>2. WithoutInstalled(vault, sent.session) = vault
    BY <1>4, <2>1 DEF WithoutInstalled, Vaults
  <2>3. vault' = WithoutDevice(vault, sent.session) BY <1>1, <1>8, <2>2
  <2>4. /\ vault' \in Vaults /\ vault'.installed = 0
        /\ \A s \in Ids : vault'.refresh[s][1] \in {None, vault.refresh[s][1]}
    BY <1>3, <1>4, <2>1, <2>3, DeviceForgotten
  <2>5. ManagerTypeOK' BY <1>1, <1>2, <2>4 DEF SessionsInv, ManagerTypeOK, SessionPoints
  <2>6. BoundFits' BY <1>1, <1>2, <1>3, <2>4 DEF BoundFits
  <2>7. DeviceFits' BY <1>1, <2>4 DEF DeviceFits, Committing
  <2>8. VaultFits' BY <1>2, <1>5, <2>1, <2>4, NothingInstalled
  <2> QED BY <1>1, <1>6, <2>5, <2>6, <2>7, <2>8, ConnectKeeps
<1> QED BY <1>7, <1>8

LEMMA DropOldSlotHolds ==
  ASSUME SessionsInv, DropOldSlot PROVE SessionsInv' /\ StaysEnded
<1>1. PICK b, i : b = memory.bound /\ i = memory.refresh.slot OBVIOUS
<1>2. PICK r : r = vault.refresh[b][1 - i] OBVIOUS
<1>3. PICK ref : ref = [slot |-> 1 - i, record |-> r] OBVIOUS
<1>4. /\ pc = "rotated" /\ pc' = "idle" /\ sent' = None
      /\ vault' = [vault EXCEPT !.refresh[b][i] = None] \/ vault' = vault
      /\ memory' = [memory EXCEPT !.refresh = ref, !.access = TRUE]
      /\ UNCHANGED <<serverVars, late, fresh, discarded>>
  BY <1>1, <1>2, <1>3 DEF DropOldSlot, EndsOperation, WriteSlot
<1>5. UNCHANGED <<sessions, records, discarded, late>> BY <1>4 DEF serverVars
<1>6. b # 0 /\ vault.installed = b /\ b \in Ids /\ memory.refresh # None /\ b \in DOMAIN sessions
  BY <1>1, <1>4, SessionsAreNumbered DEF SessionsInv, BoundFits
<1>7. /\ memory \in Memories /\ i \in {0, 1} /\ 1 - i \in {0, 1} /\ vault \in Vaults /\ 1 - (1 - i) = i
      /\ 1 - i # i
  BY <1>1, <1>6 DEF SessionsInv, ManagerTypeOK, Memories, StoredRefresh
<1>8. r \in RefreshRecords /\ r # None
  BY <1>1, <1>2, <1>4, <1>6, <1>7, StoredTyped DEF SessionsInv, DeviceFits
<1>9. ref \in StoredRefresh /\ ref # None
  BY <1>3, <1>7, <1>8, AnswersDiffer DEF StoredRefresh
<1>10. memory' \in Memories /\ memory'.bound = b /\ memory'.refresh = ref
  BY <1>1, <1>4, <1>7, <1>9 DEF Memories
<1>11. /\ vault' \in Vaults /\ vault'.installed = b /\ vault'.device = vault.device
       /\ vault'.refresh[b][1 - i] = r /\ vault'.refresh[b][i] \in {None, vault.refresh[b][i]}
       /\ \A t \in Ids, j \in {0, 1} : t # b => vault'.refresh[t][j] = vault.refresh[t][j]
  <2>1. CASE vault' = vault BY <1>2, <1>6, <1>7, <2>1
  <2>2. CASE vault' = [vault EXCEPT !.refresh[b][i] = None]
    <3>1. /\ vault' \in Vaults /\ vault'.installed = vault.installed /\ vault'.device = vault.device
          /\ vault'.refresh[b][i] = None
          /\ \A t \in Ids, j \in {0, 1} : t # b \/ j # i => vault'.refresh[t][j] = vault.refresh[t][j]
      BY <1>6, <1>7, <2>2, SlotWritten
    <3> QED BY <1>2, <1>6, <1>7, <3>1
  <2> QED BY <1>4, <2>1, <2>2
<1>12. ManagerTypeOK' BY <1>4, <1>5, <1>10, <1>11 DEF SessionsInv, ManagerTypeOK, SessionPoints
<1>13. SentFits' BY <1>4, AnswersDiffer DEF SentFits, Committing
<1>14. BoundFits' BY <1>4, <1>5, <1>6, <1>9, <1>10, <1>11 DEF BoundFits
<1>15. DeviceFits'
  <2>1. 1 - i \in StoredSlots(b)' BY <1>7, <1>8, <1>11 DEF StoredSlots
  <2> QED BY <1>4, <1>6, <1>11, <2>1 DEF SessionsInv, DeviceFits, Committing
<1>16. VaultFits'
  <2>1. SUFFICES ASSUME NEW s \in Ids \ discarded
                 PROVE  IF s = b THEN \E k \in {0, 1} : Kept(s, k)' ELSE NeverInstalled(s)'
    BY <1>5, <1>11 DEF VaultFits
  <2>2. InFlight(s)' \subseteq InFlight(s) BY <1>4, <1>5, AnswersDiffer DEF InFlight
  <2>3. CASE s # b
    <3>1. NeverInstalled(s) BY <1>6, <2>3 DEF SessionsInv, VaultFits
    <3> QED BY <1>5, <1>11, <2>2, <2>3, <3>1 DEF NeverInstalled
  <2>4. CASE s = b
    <3>1. PICK k \in {0, 1} : Kept(s, k) BY <1>6, <2>4 DEF SessionsInv, VaultFits
    <3>2. k = 1 - i
      BY <1>1, <1>4, <1>7, <2>4, <3>1 DEF Kept
    <3>3. /\ Opens(s, r) /\ \A q \in InFlight(s) : MadeWith(s, r, q)
          /\ vault.refresh[s][i] = None \/ vault.refresh[s][i].rotation < r.rotation
      BY <1>2, <1>7, <2>4, <3>1, <3>2 DEF Kept
    <3>4. vault'.refresh[s][k] = r /\ vault'.refresh[s][1 - k] = vault'.refresh[s][i]
          /\ ref = [slot |-> k, record |-> r]
      BY <1>3, <1>7, <1>11, <2>4, <3>2
    <3>5. Opens(s, r)' /\ \A q \in InFlight(s)' : MadeWith(s, r, q)'
      BY <1>5, <2>2, <3>3, StillKept
    <3>6. vault'.refresh[s][1 - k] = None \/ vault'.refresh[s][1 - k].rotation < r.rotation
      BY <1>11, <2>4, <3>3, <3>4
    <3>7. Kept(s, k)' BY <1>4, <1>8, <1>10, <3>4, <3>5, <3>6 DEF Kept
    <3> QED BY <2>4, <3>7
  <2> QED BY <2>3, <2>4
<1> QED BY <1>4, <1>12, <1>13, <1>14, <1>15, <1>16, ConnectKeeps

LEMMA ForgetHolds ==
  ASSUME SessionsInv, Forget PROVE SessionsInv' /\ StaysEnded
<1>1. PICK b : b = memory.bound OBVIOUS
<1>2. /\ pc \in {"leaving", "forgetting"} /\ sent \in {Done, None} /\ pc' = "forgotten" /\ sent' = None
      /\ vault' = [vault EXCEPT !.installed = IF @ = b THEN 0 ELSE @]
      /\ discarded' = discarded \cup {b} /\ UNCHANGED <<serverVars, memory, late, fresh>>
  BY <1>1 DEF Forget, WithoutInstalled, Done, SessionsInv, SentFits
<1>3. UNCHANGED <<sessions, records, memory, late>> BY <1>2 DEF serverVars
<1>4. b # 0 /\ vault.installed = b /\ b \in DOMAIN sessions /\ memory.refresh # None
  BY <1>1, <1>2 DEF SessionsInv, BoundFits
<1>5. vault' \in Vaults /\ vault'.installed = 0 /\ vault'.refresh = vault.refresh
  BY <1>2, <1>4 DEF SessionsInv, ManagerTypeOK, Vaults
<1>6. ManagerTypeOK' BY <1>2, <1>3, <1>4, <1>5 DEF SessionsInv, ManagerTypeOK, SessionPoints
<1>7. SentFits' BY <1>2, AnswersDiffer DEF SentFits, Committing
<1>8. BoundFits' BY <1>1, <1>2, <1>3, <1>4, <1>5 DEF BoundFits
<1>9. DeviceFits' BY <1>2, <1>5 DEF DeviceFits, Committing
<1>10. VaultFits'
  <2>1. SUFFICES ASSUME NEW s \in Ids \ discarded' PROVE s # 0 /\ NeverInstalled(s)'
    BY <1>5 DEF VaultFits
  <2>2. s # 0 BY SessionsAssumption DEF Ids
  <2>3. NeverInstalled(s) BY <1>2, <1>4 DEF SessionsInv, VaultFits
  <2>4. InFlight(s)' \subseteq InFlight(s) BY <1>2, <1>3, AnswersDiffer DEF InFlight
  <2> QED BY <1>3, <1>5, <2>2, <2>3, <2>4 DEF NeverInstalled
<1> QED BY <1>2, <1>6, <1>7, <1>8, <1>9, <1>10, ConnectKeeps

LEMMA ForgetDeviceHolds ==
  ASSUME SessionsInv, ForgetDevice PROVE SessionsInv' /\ StaysEnded
<1>1. /\ pc = "forgotten" /\ pc' = "idle" /\ sent' = None /\ memory' = SignedOut
      /\ vault' = WithoutDevice(vault, memory.bound) /\ UNCHANGED <<serverVars, late, fresh, discarded>>
  BY DEF ForgetDevice, EndsOperation
<1>2. UNCHANGED <<sessions, records, late, discarded>> BY <1>1 DEF serverVars
<1>3. memory.bound \in Ids /\ vault.installed = 0 /\ vault \in Vaults
  BY <1>1, SessionsAreNumbered DEF SessionsInv, BoundFits, ManagerTypeOK
<1>4. /\ vault' \in Vaults /\ vault'.installed = 0
      /\ \A s \in Ids : vault'.refresh[s][1] \in {None, vault.refresh[s][1]}
  BY <1>1, <1>3, DeviceForgotten
<1>5. memory' \in Memories /\ memory'.bound = 0 BY <1>1 DEF SignedOut, Memories
<1>6. ManagerTypeOK' BY <1>1, <1>2, <1>4, <1>5 DEF SessionsInv, ManagerTypeOK, SessionPoints
<1>7. SentFits' BY <1>1, AnswersDiffer DEF SentFits, Committing
<1>8. BoundFits' BY <1>1, <1>2, <1>4, <1>5 DEF BoundFits
<1>9. DeviceFits' BY <1>1, <1>4 DEF DeviceFits, Committing
<1>10. \A s : InFlight(s)' \subseteq InFlight(s) BY <1>1, <1>2, AnswersDiffer DEF InFlight
<1>11. VaultFits' BY <1>2, <1>3, <1>4, <1>10, NothingInstalled
<1> QED BY <1>1, <1>6, <1>7, <1>8, <1>9, <1>11, ConnectKeeps

LEMMA SessionsStart == SessionsInit => SessionsInv
<1> SUFFICES ASSUME SessionsInit PROVE SessionsInv
  OBVIOUS
<1>1. /\ accountRow = [status |-> "active", version |-> 0] /\ sessions = [s \in {} |-> None]
      /\ records = {} /\ created = [q \in {} |-> 0] /\ vault = EmptyVault /\ memory = SignedOut
      /\ pc = "idle" /\ sent = None /\ late = {} /\ fresh = 0 /\ discarded = {}
  BY DEF SessionsInit, EmptySessionTables
<1>2. DOMAIN sessions = {} /\ DOMAIN created = {} BY <1>1
<1>3. ServerTypeOK
  <2>1. 0 \in 0 .. MaxSession /\ 1 .. 0 = {} BY SessionsAssumption
  <2>2. \E n \in 0 .. MaxSession : DOMAIN sessions = 1 .. n BY <1>2, <2>1
  <2>3. sessions \in [DOMAIN sessions -> SessionRows] BY <1>1, <1>2
  <2>4. created \in [DOMAIN created -> DOMAIN sessions] BY <1>1, <1>2
  <2> QED BY <1>1, <1>2, <2>2, <2>3, <2>4 DEF ServerTypeOK
<1>4. vault \in Vaults /\ vault.installed = 0 /\ \A s \in Ids : vault.refresh[s][1] = None
  BY <1>1 DEF EmptyVault, Vaults
<1>5. memory \in Memories /\ memory.bound = 0 BY <1>1 DEF SignedOut, Memories
<1>6. ManagerTypeOK BY <1>1, <1>4, <1>5 DEF ManagerTypeOK, SessionPoints
<1>7. GenerationsFit /\ EndingsFit /\ OneDevicePerRequest /\ RetriesAreNotReuse
  BY <1>1, <1>2 DEF GenerationsFit, EndingsFit, OneDevicePerRequest, RetriesAreNotReuse
<1>8. SentFits BY <1>1, AnswersDiffer DEF SentFits, Committing
<1>9. BoundFits BY <1>1, <1>4, <1>5 DEF BoundFits
<1>10. DeviceFits BY <1>1, <1>4 DEF DeviceFits, Committing
<1>11. VaultFits
  <2>1. ASSUME NEW s \in Ids PROVE s # 0 /\ NeverInstalled(s)
    <3>1. s # 0 BY SessionsAssumption DEF Ids
    <3>2. InFlight(s) = {} BY <1>1, AnswersDiffer DEF InFlight
    <3> QED BY <1>2, <1>4, <3>1, <3>2 DEF NeverInstalled
  <2> QED BY <1>4, <2>1 DEF VaultFits
<1> QED BY <1>3, <1>6, <1>7, <1>8, <1>9, <1>10, <1>11 DEF SessionsInv

LEMMA SessionsStep ==
  ASSUME SessionsInv, [SessionsNext]_sessionsVars PROVE SessionsInv' /\ StaysEnded
<1>1. CASE AdminNext BY <1>1, AdminHolds
<1>2. CASE ConnectNext
  <2>1. CASE GiveUpWaiting \/ AnswerRefused \/ CrashConnect BY <2>1, EndingsHold
  <2> QED BY <1>2, <2>1, RestoreHolds, PrepareRefreshHolds, BeginLogoutHolds, DiscardLocalHolds,
        BeginCreateHolds, CommitKeysHolds, CommitRefreshHolds, CommitInstalledHolds,
        CommitCleanupHolds, CommitFailsHolds, RotateRefreshHolds, DropOldSlotHolds, ForgetHolds,
        ForgetDeviceHolds DEF ConnectNext
<1>3. CASE Serve BY <1>3, ServeHolds
<1>4. CASE LateArrives BY <1>4, LateArrivesHolds
<1>5. CASE UNCHANGED sessionsVars
  <2>1. UNCHANGED <<accountRow, sessions, records, created, vault, memory, pc, sent, late, fresh, discarded>>
    BY <1>5 DEF sessionsVars
  <2>2. UNCHANGED <<serverVars, vault, discarded>> BY <2>1 DEF serverVars
  <2>3. \A s : InFlight(s)' \subseteq InFlight(s) BY <2>1 DEF InFlight
  <2>4. UNCHANGED connectVars BY <2>1 DEF connectVars
  <2>5. ManagerTypeOK' BY <2>1 DEF SessionsInv, ManagerTypeOK
  <2>6. SentFits' BY <2>1 DEF SessionsInv, SentFits
  <2>7. BoundFits' BY <2>1 DEF SessionsInv, BoundFits
  <2>8. DeviceFits' BY <2>1 DEF SessionsInv, DeviceFits, StoredSlots
  <2>9. VaultFits'
    BY <2>1 DEF SessionsInv, VaultFits, Kept, NeverInstalled, Opens, MadeWith, InFlight
  <2> QED BY <2>1, <2>2, <2>5, <2>6, <2>7, <2>8, <2>9, ConnectKeeps
<1> QED BY <1>1, <1>2, <1>3, <1>4, <1>5 DEF SessionsNext

LEMMA InstalledOpens ==
  ASSUME SessionsInv PROVE InstalledCanRefresh
<1>1. SUFFICES ASSUME NEW s, s = vault.installed, s # 0
               PROVE  /\ LoadRefresh(s) # None /\ vault.device[s] # 0
                      /\ Live(s) /\ s \notin discarded =>
                          \/ LoadRefresh(s).record.credential = sessions[s].current
                          \/ /\ LoadRefresh(s).record.credential = sessions[s].previous
                             /\ <<s, sessions[s].generation - 1, LoadRefresh(s).record.key>> \in records
  BY DEF InstalledCanRefresh
<1>2. s \in Ids /\ ManagerTypeOK /\ StoredSlots(s) # {} /\ vault.device[s] # 0
  BY <1>1, SessionsAreNumbered DEF SessionsInv, BoundFits, DeviceFits
<1>3. LoadRefresh(s) # None BY <1>2, LoadSome
<1>4. ASSUME s \notin discarded
      PROVE  \/ LoadRefresh(s).record.credential = sessions[s].current
             \/ /\ LoadRefresh(s).record.credential = sessions[s].previous
                /\ <<s, sessions[s].generation - 1, LoadRefresh(s).record.key>> \in records
  <2>1. PICK i \in {0, 1} : Kept(s, i) BY <1>1, <1>2, <1>4 DEF SessionsInv, VaultFits
  <2>2. LoadRefresh(s).record = vault.refresh[s][i] BY <1>2, <2>1, LoadNewest
  <2> QED BY <2>1, <2>2 DEF Kept, Opens
<1> QED BY <1>2, <1>3, <1>4

\* The credential that an installed account keeps opens its session as long as the service has
\* not ended it, for every number of sessions, rotations, retries, late requests and crashes
\* (session.rs rotate_locked, vault.rs rotate_refresh, db.rs refresh_member_session).
THEOREM InstalledRefreshes == SessionsSpec => []InstalledCanRefresh
<1>1. SessionsInv => InstalledCanRefresh BY InstalledOpens
<1> QED BY <1>1, SessionsStart, SessionsStep, PTL DEF SessionsSpec

\* Connect's retries are never taken for the reuse of a stolen credential, no request makes
\* two devices, and a session that no longer opens anything never does again (db.rs
\* refresh_member_session, create_member_session, apply_account_status_transition).
THEOREM SessionsSound == SessionsSpec => SessionsAreSound
<1>1. SessionsInv => RetriesAreNotReuse /\ OneDevicePerRequest BY DEF SessionsInv
<1>2. SessionsInv /\ [SessionsNext]_sessionsVars => SessionsInv' BY SessionsStep
<1>3. SessionsInv /\ [SessionsNext]_sessionsVars =>
        [\A s \in DOMAIN sessions :
           ~Live(s) => ~Live(s)' /\ sessions'[s].generation = sessions[s].generation]_sessionsVars
  BY SessionsStep DEF StaysEnded
<1> QED BY <1>1, <1>2, <1>3, SessionsStart, PTL DEF SessionsSpec, SessionsAreSound, EndedSessionsStayEnded
=============================================================================
