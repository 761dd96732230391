----------------------------- MODULE MemberSetup -----------------------------
(***************************************************************************)
(* How a member's setup code becomes an installed account of Connect       *)
(* (client/src-tauri/src/member_setup.rs and runtime.rs): the setup        *)
(* sessions that wait for a confirmation, the runtime that is activated    *)
(* and not yet installed, and the installed one.  Operations of the        *)
(* registry are serialized, but codes are entered at any time, requests    *)
(* are lost, sessions expire and Connect may exit between two steps.       *)
(***************************************************************************)
EXTENDS Naturals, FiniteSets

CONSTANTS
    SetupCodes,   \* setup codes: each holds one activation
    MaxWaiting,   \* MAX_PENDING_SETUP_SESSIONS
    MaxBegun,     \* bound: setup sessions begun
    MaxExit       \* bound: exits of Connect

ASSUME MemberSetupAssumption ==
    /\ IsFiniteSet(SetupCodes) /\ {MaxWaiting, MaxBegun, MaxExit} \subseteq Nat

VARIABLES
    waiting,     \* SetupSessionStore: session |-> code, for the sessions it holds
    begun,       \* sessions begun, numbered
    overdue,     \* codes past their expiry
    runtime,     \* RegistryState: the pending session, and whether a runtime is active
    confirming,  \* confirm_setup: where it is, its session and its code
    keys,        \* the vault's activation keys: code |-> device, 0 for none
    account,     \* the vault's installed account: the code's device, 0 for none
    activated,   \* at Control: the device that consumed each activation, 0 for none
    cancelled,   \* activated codes whose setup the member cancelled
    devices,     \* device identities drawn so far
    exits        \* exits so far

memberVars ==
    <<waiting, begun, overdue, runtime, confirming, keys, account, activated, cancelled, devices, exits>>

NoRuntime == [pending |-> 0, active |-> FALSE]
NotConfirming == [at |-> "idle", session |-> 0, code |-> "none"]
Waiting == DOMAIN waiting
Without(gone) == [s \in Waiting \ gone |-> waiting[s]]
With(s, code) == [t \in Waiting \cup {s} |-> IF t = s THEN code ELSE waiting[t]]

-----------------------------------------------------------------------------
(* SetupSessionStore *)

\* begin_at: sessions that expired make room first.
BeginSession(code) ==
    LET kept == {s \in Waiting : waiting[s] \notin overdue}
    IN  /\ code \notin overdue /\ begun < MaxBegun /\ Cardinality(kept) < MaxWaiting
        /\ waiting' = [s \in kept \cup {begun + 1} |-> IF s = begun + 1 THEN code ELSE waiting[s]]
        /\ begun' = begun + 1
        /\ UNCHANGED <<overdue, runtime, confirming, keys, account, activated, cancelled, devices, exits>>

CodeExpires(code) ==
    /\ code \notin overdue /\ overdue' = overdue \cup {code}
    /\ UNCHANGED <<waiting, begun, runtime, confirming, keys, account, activated, cancelled, devices, exits>>

-----------------------------------------------------------------------------
(* ConnectRuntimeRegistry *)

\* lazy_restore, at the start of every operation.
Restored == [runtime EXCEPT !.active = @ \/ (runtime.pending = 0 /\ account # 0)]

RegistryIsIdle == confirming = NotConfirming

\* checkout takes the session from the store, so that no other confirmation has it.
CheckOut(s) ==
    /\ RegistryIsIdle
    /\ runtime' = Restored
    /\ waiting' = Without({s})
    /\ confirming' = [at |-> "checked", session |-> s, code |-> waiting[s]]
    /\ UNCHANGED <<begun, overdue, keys, account, activated, cancelled, devices, exits>>

\* restore_error: the session goes back as it was.
RestoreError ==
    /\ waiting' = With(confirming.session, confirming.code)
    /\ confirming' = NotConfirming

\* Another account is installed, or another setup is under way.
RefuseConfirmation ==
    /\ confirming.at = "checked"
    /\ runtime.active \/ runtime.pending \notin {0, confirming.session}
    /\ RestoreError
    /\ UNCHANGED <<begun, overdue, runtime, keys, account, activated, cancelled, devices, exits>>

\* An expired session is dropped unless its activation already succeeded.
ExpiredConfirmation ==
    /\ confirming.at = "checked" /\ ~ runtime.active /\ runtime.pending = 0
    /\ confirming.code \in overdue
    /\ confirming' = NotConfirming
    /\ UNCHANGED <<waiting, begun, overdue, runtime, keys, account, activated, cancelled, devices, exits>>

\* Mutant: every attempt draws a device of its own.
DrawActivationKeys(code) == devices + 1

\* The keys of an earlier attempt are used again.
LoadOrCreateActivationKeys(code) == IF keys[code] = 0 THEN devices + 1 ELSE keys[code]

BeginActivation ==
    /\ confirming.at = "checked" /\ runtime = NoRuntime /\ confirming.code \notin overdue
    /\ LET device == LoadOrCreateActivationKeys(confirming.code)
       IN  /\ keys' = [keys EXCEPT ![confirming.code] = device]
           /\ devices' = IF device > devices THEN device ELSE devices
    /\ confirming' = [confirming EXCEPT !.at = "activating"]
    /\ UNCHANGED <<waiting, begun, overdue, runtime, account, activated, cancelled, exits>>

\* Control, by its own clock, consumes the activation once and repeats its answer to the
\* same device.
ControlActivates ==
    /\ confirming.at = "activating" /\ activated[confirming.code] = 0
    /\ activated' = [activated EXCEPT ![confirming.code] = keys[confirming.code]]
    /\ UNCHANGED <<waiting, begun, overdue, runtime, confirming, keys, account, cancelled, devices, exits>>

\* The request is refused, its answer lost or a vault write fails before the account is stored.
ActivationFails ==
    /\ confirming.at = "activating"
    /\ RestoreError
    /\ UNCHANGED <<begun, overdue, runtime, keys, account, activated, cancelled, devices, exits>>

\* The account is stored and its activation keys are removed; the runtime is retained.
ActivationSucceeds ==
    /\ confirming.at = "activating" /\ activated[confirming.code] = keys[confirming.code]
    /\ account' = keys[confirming.code]
    /\ keys' = [keys EXCEPT ![confirming.code] = 0]
    /\ runtime' = [runtime EXCEPT !.pending = confirming.session]
    /\ confirming' = [confirming EXCEPT !.at = "bundle"]
    /\ UNCHANGED <<waiting, begun, overdue, activated, cancelled, devices, exits>>

\* A confirmation that comes back goes straight to its bundle, expired or not.
ResumePending ==
    /\ confirming.at = "checked" /\ ~ runtime.active /\ runtime.pending = confirming.session
    /\ confirming' = [confirming EXCEPT !.at = "bundle"]
    /\ UNCHANGED <<waiting, begun, overdue, runtime, keys, account, activated, cancelled, devices, exits>>

BootstrapFails ==
    /\ confirming.at = "bundle"
    /\ RestoreError
    /\ UNCHANGED <<begun, overdue, runtime, keys, account, activated, cancelled, devices, exits>>

\* The first bundle is verified and cached, and the pending runtime becomes the active one.
InstallRuntime ==
    /\ confirming.at = "bundle"
    /\ runtime' = [pending |-> 0, active |-> TRUE]
    /\ confirming' = NotConfirming
    /\ UNCHANGED <<waiting, begun, overdue, keys, account, activated, cancelled, devices, exits>>

\* abort_setup: the local account goes before the session does.
AbortSetup(s) ==
    IF runtime.pending = s
    THEN /\ account' = 0 /\ runtime' = NoRuntime
         /\ cancelled' = cancelled \cup {c \in SetupCodes : activated[c] = account}
    ELSE runtime' = Restored /\ UNCHANGED <<account, cancelled>>

CancelSetup(s) ==
    /\ RegistryIsIdle
    /\ AbortSetup(s)
    /\ waiting' = Without({s})
    /\ UNCHANGED <<begun, overdue, confirming, keys, activated, devices, exits>>

ConnectExits ==
    /\ exits < MaxExit
    /\ exits' = exits + 1
    /\ waiting' = Without(Waiting) /\ runtime' = NoRuntime /\ confirming' = NotConfirming
    /\ UNCHANGED <<begun, overdue, keys, account, activated, cancelled, devices>>

MemberSetupInit ==
    /\ waiting = [s \in {} |-> "none"] /\ begun = 0 /\ overdue = {}
    /\ runtime = NoRuntime /\ confirming = NotConfirming
    /\ keys = [c \in SetupCodes |-> 0] /\ activated = [c \in SetupCodes |-> 0]
    /\ account = 0 /\ cancelled = {} /\ devices = 0 /\ exits = 0

MemberSetupNext ==
    \/ \E code \in SetupCodes : BeginSession(code) \/ CodeExpires(code)
    \/ \E s \in 1 .. begun : CancelSetup(s) \/ (s \in Waiting /\ CheckOut(s))
    \/ RefuseConfirmation \/ ExpiredConfirmation \/ BeginActivation \/ ControlActivates
    \/ ActivationFails \/ ActivationSucceeds \/ ResumePending \/ BootstrapFails \/ InstallRuntime
    \/ ConnectExits

MemberSetupSpec == MemberSetupInit /\ [][MemberSetupNext]_memberVars

-----------------------------------------------------------------------------
\* An activation that Control gave to a device is never lost, however often its
\* confirmation fails, is repeated or cut off (confirm_setup of runtime.rs): the device's
\* keys are still in the vault, or its account is, unless the member cancelled. A runtime
\* that is pending or active has its account, and a pending one can still be confirmed
\* until its code expires.
SetupIsKept ==
    /\ \A c \in SetupCodes : activated[c] # 0 /\ c \notin cancelled =>
           activated[c] \in {keys[c], account}
    /\ runtime.pending # 0 \/ runtime.active => account # 0
    /\ runtime.pending # 0 => ~ runtime.active
    /\ RegistryIsIdle /\ runtime.pending \notin Waiting \cup {0} =>
           \E c \in overdue : activated[c] = account
=============================================================================
