------------------------------- MODULE Connect -------------------------------
(***************************************************************************)
(* Connect, the member's client: the bundle of node profiles it caches     *)
(* (client/src-tauri/src/bundle.rs), the node it selects (selection.rs),   *)
(* the Xray child it supervises (process.rs), the operating-system proxy   *)
(* settings it changes and restores (system_proxy.rs), and the service and *)
(* registry operations that drive them (connect_service.rs, runtime.rs).   *)
(* One operation runs at a time (ConnectRuntimeRegistry::operations); the  *)
(* monitor of the Xray child runs beside it, and the process may die       *)
(* between any two steps.  A supervisor generation is represented by       *)
(* whether the exit event of the current child is still to be handled:     *)
(* events of earlier generations are ignored by handle_termination.        *)
(***************************************************************************)
EXTENDS Naturals, FiniteSets

CONSTANTS
    Hosts,     \* nodes a bundle may name
    Priority,  \* Priority[h]: the priority the bundles give node h
    Modes,     \* selection modes the member may choose
    MaxBundle, \* bound: bundle generations the service issues
    MaxDamage  \* bound: cached files that are damaged

ASSUME ConnectAssumption ==
    /\ IsFiniteSet(Hosts) /\ Hosts # {} /\ "none" \notin Hosts
    /\ Priority \in [Hosts -> Nat]
    /\ \E m \in Modes : m.kind = "automatic"
    /\ \A m \in Modes : m.kind = "pinned" =>
           DOMAIN m.order \subseteq Nat /\ m.order \in [DOMAIN m.order -> Hosts]
    /\ MaxBundle \in Nat \ {0} /\ MaxDamage \in Nat

VARIABLES
    offered,  \* bundles issued by the service: generation -> nodes
    cache,    \* BundleCache on disk, and whether a purge of it was cut short
    bundle,   \* ConnectInner.bundle: generation in force, 0 for none, and whether it expired
    selector, \* NodeSelector
    xray,     \* XraySupervisor's state and child
    exited,   \* the current child's exit event is still to be handled
    monitor,  \* handle_termination past its generation check
    proxy,    \* the system proxy settings and the recovery journal
    op        \* the operation in progress

connectionVars == <<offered, cache, bundle, selector, xray, exited, monitor, proxy, op>>

Generations == 1 .. MaxBundle
Idle == [pc |-> "idle", step |-> "none", then |-> "done", node |-> "none", mode |-> "none",
         generation |-> 0]

-----------------------------------------------------------------------------
(* bundle.rs *)

Issued == DOMAIN offered
Newest(S) == CHOOSE g \in S : \A h \in S : h <= g

\* prune: the active file and the newest other one stay.
Prune(files, active) ==
    LET others == files \ {active}
    IN  (files \cap {active}) \cup (IF others = {} THEN {} ELSE {Newest(others)})

\* The first intact candidate: the pointer's file, then the newest.
Recoverable == cache.files \ cache.damaged
RecoverChoice ==
    IF cache.pointer \in Recoverable THEN cache.pointer ELSE Newest(Recoverable)

\* NodeSelector::new and reconcile_bundle for the bundle of generation g.
ReconcileBundle(s, g) ==
    [s EXCEPT !.health = [h \in Hosts |-> IF h \in offered[g] THEN @[h] ELSE "unknown"],
              !.active = IF @ \in offered[g] THEN @ ELSE "none"]

\* The service issues a new generation when the member's nodes change (member_profile_bundle).
IssueBundle(nodes) ==
    /\ Cardinality(Issued) < MaxBundle
    /\ offered' = [g \in 1 .. Cardinality(Issued) + 1 |->
                      IF g \in Issued THEN offered[g] ELSE nodes]
    /\ UNCHANGED <<cache, bundle, selector, xray, exited, monitor, proxy, op>>

\* A cached file is damaged while Connect is not looking.
DamageFile(g) ==
    /\ g \in cache.files \ cache.damaged /\ Cardinality(cache.damaged) < MaxDamage
    /\ cache' = [cache EXCEPT !.damaged = @ \cup {g}]
    /\ UNCHANGED <<offered, bundle, selector, xray, exited, monitor, proxy, op>>

OfflineExpires ==
    /\ bundle.generation # 0 /\ ~bundle.expired
    /\ bundle' = [bundle EXCEPT !.expired = TRUE]
    /\ UNCHANGED <<offered, cache, selector, xray, exited, monitor, proxy, op>>

-----------------------------------------------------------------------------
(* selection.rs: what the latencies are is left open, and so is whether the *)
(* minimum hold has elapsed.                                                *)

Candidates == IF bundle.generation = 0 THEN {} ELSE offered[bundle.generation]
Healthy(s) == {h \in Candidates : s.health[h] = "healthy"}
\* The active node counts as failed when it left the bundle or reached the threshold.
ActiveFailed(s) == s.active # "none" /\ (s.active \notin Candidates \/ s.health[s.active] = "failed")

\* best_automatic.
BestAutomatic(s) == {h \in Healthy(s) : \A k \in Healthy(s) : Priority[h] <= Priority[k]}

\* The nodes select may leave active, "none" for clear.
SelectManual(s, h) == IF h \in Candidates THEN {h} ELSE {"none"}
SelectAutomatic(s) ==
    IF BestAutomatic(s) = {} THEN {IF ActiveFailed(s) THEN "none" ELSE s.active}
    ELSE IF s.active = "none" \/ ActiveFailed(s) THEN BestAutomatic(s)
    ELSE {s.active} \cup {h \in BestAutomatic(s) : Priority[h] <= Priority[s.active]}

SelectPinned(s, order) ==
    LET healthy == {i \in DOMAIN order : order[i] \in Healthy(s)}
        best == CHOOSE i \in healthy : \A j \in healthy : i <= j
        above == \A i \in DOMAIN order : order[i] = s.active => best < i
    IN  IF healthy = {} THEN {IF ActiveFailed(s) THEN "none" ELSE s.active}
        ELSE IF s.active = "none" \/ ActiveFailed(s) THEN {order[best]}
        ELSE {s.active} \cup (IF above /\ \E i \in DOMAIN order : order[i] = s.active
                              THEN {order[best]} ELSE {})

Select(s) ==
    CASE s.mode.kind = "manual" -> SelectManual(s, s.mode.node)
      [] s.mode.kind = "pinned" -> SelectPinned(s, s.mode.order)
      [] OTHER -> SelectAutomatic(s)

\* probe_nodes_locked: every candidate is observed once.  A node that never answered
\* stays unknown until it has failed as often as the threshold; a healthy one stays healthy.
Observe(was, now) ==
    \/ now = "healthy"
    \/ now = "unknown" /\ was = "unknown"
    \/ now = "failed"

Probed(s, health) ==
    \A h \in Hosts : IF h \in Candidates THEN Observe(s.health[h], health[h])
                                         ELSE health[h] = s.health[h]

SetSelectionMode(m) ==
    /\ op.pc = "idle" /\ m # selector.mode
    /\ selector' = [selector EXCEPT !.mode = m]
    /\ UNCHANGED <<offered, cache, bundle, xray, exited, monitor, proxy, op>>

-----------------------------------------------------------------------------
(* connect_service.rs.  apply_selection stops Xray and starts it for the    *)
(* selected node, or leaves it alone.                                       *)

ApplySelection(mode, force, stopWhenUnavailable) ==
    \E health \in [Hosts -> {"unknown", "healthy", "failed"}] :
      /\ Probed(selector, health)
      /\ LET s == [selector EXCEPT !.health = health]
         IN  \E h \in Select(s) :
               /\ selector' = [s EXCEPT !.active = h]
               /\ IF h = "none"
                    THEN op' = IF stopWhenUnavailable THEN [Idle EXCEPT !.pc = "stop"] ELSE Idle
                    ELSE op' = IF h # selector.active \/ force
                               THEN [Idle EXCEPT !.pc = "stop", !.then = "start",
                                               !.node = h, !.mode = mode]
                               ELSE Idle

\* select_and_connect; stop_if_bundle_expired comes first.
ConnectOperation(mode) ==
    /\ op.pc = "idle" /\ bundle.generation # 0
    /\ IF bundle.expired
         THEN op' = [Idle EXCEPT !.pc = "stop"] /\ UNCHANGED selector
         ELSE ApplySelection(mode, FALSE, TRUE)
    /\ UNCHANGED <<offered, cache, bundle, xray, exited, monitor, proxy>>

\* active_recovery.
ActiveRecovery == xray.profile.node # "none" /\ xray.phase \in {"connected", "failed"}

MaintainConnection ==
    /\ op.pc = "idle" /\ bundle.generation # 0
    /\ IF bundle.expired
         THEN op' = [Idle EXCEPT !.pc = "stop"] /\ UNCHANGED selector
         ELSE /\ ActiveRecovery
              /\ ApplySelection(xray.mode, xray.phase = "failed", FALSE)
    /\ UNCHANGED <<offered, cache, bundle, xray, exited, monitor, proxy>>

StopOperation ==
    /\ op.pc = "idle"
    /\ op' = [Idle EXCEPT !.pc = "stop"]
    /\ UNCHANGED <<offered, cache, bundle, selector, xray, exited, monitor, proxy>>

\* logout and abort_setup stop Xray first; the account's cache goes after it.
LogoutOperation ==
    /\ op.pc = "idle" /\ (cache.files # {} \/ cache.cut)
    /\ op' = [Idle EXCEPT !.pc = "stop", !.then = "purge"]
    /\ UNCHANGED <<offered, cache, bundle, selector, xray, exited, monitor, proxy>>

\* The account's bundle and selector are dropped.
Discard ==
    /\ bundle' = [generation |-> 0, expired |-> FALSE]
    /\ selector' = [selector EXCEPT !.active = "none", !.health = [h \in Hosts |-> "unknown"]]

Purge ==
    /\ op.pc = "purge"
    /\ cache' = [cache EXCEPT !.files = {}, !.pointer = 0, !.cut = FALSE]
    /\ Discard
    /\ op' = Idle
    /\ UNCHANGED <<offered, xray, exited, monitor, proxy>>

\* remove_dir_all fails part way.  The registry drops the runtime of a logout all the same,
\* and keeps that of a setup it could not abort.
PurgeFails ==
    /\ op.pc = "purge"
    /\ \E left \in SUBSET cache.files, pointer \in {0, cache.pointer} :
          cache' = [cache EXCEPT !.files = left, !.pointer = pointer, !.cut = TRUE]
    /\ Discard \/ UNCHANGED <<bundle, selector>>
    /\ op' = Idle
    /\ UNCHANGED <<offered, xray, exited, monitor, proxy>>

\* refresh_bundle reads the runtime state first (op.then: whether and how to
\* recover, op.mode: in which proxy mode).
BeginRefresh ==
    /\ op.pc = "idle" /\ Issued # {}
    /\ op' = [Idle EXCEPT !.pc = "fetch", !.then = IF ActiveRecovery THEN xray.phase ELSE "none",
                          !.mode = xray.mode]
    /\ UNCHANGED <<offered, cache, bundle, selector, xray, exited, monitor, proxy>>

FetchFails ==
    /\ op.pc = "fetch"
    /\ op' = IF bundle.expired THEN [Idle EXCEPT !.pc = "stop"] ELSE Idle
    /\ UNCHANGED <<offered, cache, bundle, selector, xray, exited, monitor, proxy>>

FetchNotModified ==
    /\ op.pc = "fetch" /\ bundle.generation = Newest(Issued)
    /\ op.then \in {"none", "connected"}
    /\ op' = Idle
    /\ UNCHANGED <<offered, cache, bundle, selector, xray, exited, monitor, proxy>>

\* refresh_recovery: a failed runtime is started again, without probing.
FetchNotModifiedRecovers ==
    /\ op.pc = "fetch" /\ bundle.generation = Newest(Issued) /\ op.then = "failed"
    /\ \E h \in Select(selector) :
          /\ selector' = [selector EXCEPT !.active = h]
          /\ op' = IF h = "none" THEN [Idle EXCEPT !.pc = "stop"]
                   ELSE [Idle EXCEPT !.pc = "stop", !.then = "start", !.node = h, !.mode = op.mode]
    /\ UNCHANGED <<offered, cache, bundle, xray, exited, monitor, proxy>>

\* BundleCache::install: the file, then the pointer; a generation behind the pointer's is refused.
InstallFile ==
    /\ op.pc = "fetch" /\ bundle.generation # Newest(Issued)
    /\ Newest(Issued) > cache.pointer
    /\ cache' = [cache EXCEPT !.files = @ \cup {Newest(Issued)},
                              !.damaged = @ \ {Newest(Issued)}]
    /\ op' = [op EXCEPT !.pc = "install", !.generation = Newest(Issued)]
    /\ UNCHANGED <<offered, bundle, selector, xray, exited, monitor, proxy>>

InstallPointer ==
    /\ op.pc = "install"
    /\ cache' = [cache EXCEPT !.pointer = op.generation, !.files = Prune(@, op.generation), !.cut = FALSE]
    /\ op' = [op EXCEPT !.pc = "activate"]
    /\ UNCHANGED <<offered, bundle, selector, xray, exited, monitor, proxy>>

\* Writing the pointer, pruning or the last sync fails: refresh_bundle_locked returns before
\* activate_verified, whether or not the pointer has moved.
InstallFails ==
    /\ op.pc = "install"
    /\ \/ UNCHANGED cache
       \/ \E left \in {cache.files, Prune(cache.files, op.generation)} :
             cache' = [cache EXCEPT !.pointer = op.generation, !.files = left, !.cut = FALSE]
    /\ op' = IF bundle.expired THEN [Idle EXCEPT !.pc = "stop"] ELSE Idle
    /\ UNCHANGED <<offered, bundle, selector, xray, exited, monitor, proxy>>

\* The same generation is already installed: the file stays as it is.
InstallSame ==
    /\ op.pc = "fetch" /\ bundle.generation # Newest(Issued)
    /\ Newest(Issued) = cache.pointer
    /\ op' = [op EXCEPT !.pc = "activate", !.generation = cache.pointer]
    /\ UNCHANGED <<offered, cache, bundle, selector, xray, exited, monitor, proxy>>

\* activate_verified.
ActivateVerified ==
    /\ op.pc = "activate"
    /\ bundle' = [generation |-> op.generation, expired |-> FALSE]
    /\ selector' = ReconcileBundle(selector, op.generation)
    /\ op' = IF op.then = "none" THEN Idle ELSE [op EXCEPT !.pc = "apply"]
    /\ UNCHANGED <<offered, cache, xray, exited, monitor, proxy>>

ApplyRefreshed ==
    /\ op.pc = "apply"
    /\ ApplySelection(op.mode, TRUE, TRUE)
    /\ UNCHANGED <<offered, cache, bundle, xray, exited, monitor, proxy>>

\* lazy_restore and BundleCache::recover after a restart.
RestoreBundle ==
    /\ op.pc = "idle" /\ bundle.generation = 0 /\ Recoverable # {}
    /\ cache' = [cache EXCEPT !.pointer = RecoverChoice, !.cut = FALSE,
                    !.files = Prune({g \in @ : g <= RecoverChoice}, RecoverChoice)]
    /\ bundle' = [generation |-> RecoverChoice, expired |-> FALSE]
    /\ selector' = ReconcileBundle(selector, RecoverChoice)
    /\ UNCHANGED <<offered, xray, exited, monitor, proxy, op>>

\* recover fails once it has repointed the cache, before or after removing newer files.
RestoreBundleFails ==
    /\ op.pc = "idle" /\ bundle.generation = 0 /\ Recoverable # {}
    /\ \E left \in {cache.files, {g \in cache.files : g <= RecoverChoice}} :
          cache' = [cache EXCEPT !.pointer = RecoverChoice, !.files = left, !.cut = FALSE]
    /\ cache' # cache
    /\ UNCHANGED <<offered, bundle, selector, xray, exited, monitor, proxy, op>>

-----------------------------------------------------------------------------
(* process.rs and system_proxy.rs.  The proxy manager's lock is held from   *)
(* the first change of the settings to the last change of the journal.      *)

MonitorHoldsProxy == monitor = "clear"
OperationHoldsProxy ==
    op.pc \in {"clear", "capture", "switch"} \/ (op.pc = "restore" /\ op.step = "rollback")

\* The current generation ends: its exit event, if any, will be ignored.
EndGeneration(phase) ==
    /\ exited' = FALSE
    /\ xray' = [xray EXCEPT !.child = "none", !.phase = phase]

NoProfile == [node |-> "none", generation |-> 0]
Restoring(step) == [op EXCEPT !.pc = "restore", !.step = step]

\* What follows restore_pending, by the step it was called for: ensure_startup_recovery,
\* finish_stop, the two places of SystemProxyManager::apply and fail_start.
AfterRestore(ok) ==
    CASE op.step = "recover" /\ ok ->
            /\ xray' = [xray EXCEPT !.recovered = TRUE]
            /\ op' = [op EXCEPT !.pc = IF op.then = "starting" THEN "begin" ELSE "take"]
      [] op.step = "stop" /\ ok ->
            /\ xray' = [xray EXCEPT !.recovered = TRUE, !.phase = "disconnected",
                                    !.profile = NoProfile, !.mode = "none"]
            /\ op' = CASE op.then = "start" -> [op EXCEPT !.pc = "start", !.then = "starting"]
                       [] op.then = "purge" -> [Idle EXCEPT !.pc = "purge"]
                       [] OTHER -> Idle
      [] op.step = "failed" /\ ok ->
            xray' = [xray EXCEPT !.recovered = TRUE] /\ op' = Idle
      [] op.step = "apply" /\ ok -> op' = [op EXCEPT !.pc = "capture"] /\ UNCHANGED xray
      [] op.step = "rollback" \/ (op.step = "apply" /\ ~ok) ->
            op' = [op EXCEPT !.pc = "fail"] /\ UNCHANGED xray
      [] OTHER -> xray' = [xray EXCEPT !.recovered = FALSE, !.phase = "failed"] /\ op' = Idle

\* The platform's adapter: it reads, sets and restores the settings of every network
\* service command by command, and a command that fails may leave some of them changed.
AdapterCaptures == proxy.settings
AdapterApplies == proxy' = [proxy EXCEPT !.settings = "connect"]
AdapterRestores == proxy' = [proxy EXCEPT !.settings = proxy.journal]
AdapterFails == \E now \in {proxy.settings, "mixed"} : proxy' = [proxy EXCEPT !.settings = now]

\* restore_locked: the adapter restores what the journal holds, or fails part way ...
RestoreNothing ==
    /\ op.pc = "restore" /\ ~MonitorHoldsProxy /\ proxy.journal = "none"
    /\ AfterRestore(TRUE)
    /\ UNCHANGED <<offered, cache, bundle, selector, exited, monitor, proxy>>

RestoreSettings ==
    /\ op.pc = "restore" /\ ~MonitorHoldsProxy /\ proxy.journal # "none"
    /\ \/ /\ AdapterRestores
          /\ op' = [op EXCEPT !.pc = "clear"] /\ UNCHANGED xray
       \/ /\ AdapterFails
          /\ AfterRestore(FALSE)
    /\ UNCHANGED <<offered, cache, bundle, selector, exited, monitor>>

\* ... and the journal is removed after that.
ClearJournal ==
    /\ op.pc = "clear"
    /\ \/ proxy' = [proxy EXCEPT !.journal = "none"] /\ AfterRestore(TRUE)
       \/ UNCHANGED proxy /\ AfterRestore(FALSE)
    /\ UNCHANGED <<offered, cache, bundle, selector, exited, monitor>>

\* XraySupervisor::stop.
EnterStop ==
    /\ op.pc = "stop"
    /\ op' = IF xray.recovered THEN [op EXCEPT !.pc = "take"] ELSE Restoring("recover")
    /\ UNCHANGED <<offered, cache, bundle, selector, xray, exited, monitor, proxy>>

TakeChild ==
    /\ op.pc = "take"
    /\ EndGeneration(IF xray.phase = "disconnected" THEN "disconnected" ELSE "stopping")
    /\ op' = Restoring("stop")
    /\ UNCHANGED <<offered, cache, bundle, selector, monitor, proxy>>

\* XraySupervisor::start; it always follows a stop, so no connection is active.
EnterStart ==
    /\ op.pc = "start"
    /\ op' = IF xray.recovered THEN [op EXCEPT !.pc = "begin"] ELSE Restoring("recover")
    /\ UNCHANGED <<offered, cache, bundle, selector, xray, exited, monitor, proxy>>

\* begin_start up to attach_child; a port in use, the config or the spawn may fail.
BeginStart ==
    /\ op.pc = "begin" /\ xray.phase \in {"disconnected", "failed"}
    /\ \E spawned \in BOOLEAN :
          /\ xray' = [xray EXCEPT !.phase = IF spawned THEN "starting" ELSE "failed",
                          !.profile = [node |-> op.node, generation |-> bundle.generation],
                          !.mode = op.mode, !.child = IF spawned THEN "running" ELSE "none"]
          /\ op' = IF spawned THEN [op EXCEPT !.pc = "await"] ELSE Idle
    /\ UNCHANGED <<offered, cache, bundle, selector, exited, monitor, proxy>>

PortsReady ==
    /\ op.pc = "await" /\ xray.child = "running"
    /\ op' = IF op.mode = "system" THEN Restoring("apply") ELSE [op EXCEPT !.pc = "mark"]
    /\ UNCHANGED <<offered, cache, bundle, selector, xray, exited, monitor, proxy>>

StartObservesExit ==
    /\ op.pc = "await" /\ xray.phase = "failed"
    /\ op' = Idle
    /\ UNCHANGED <<offered, cache, bundle, selector, xray, exited, monitor, proxy>>

StartTimesOut ==
    /\ op.pc = "await" /\ xray.phase # "failed"
    /\ op' = [op EXCEPT !.pc = "fail"]
    /\ UNCHANGED <<offered, cache, bundle, selector, xray, exited, monitor, proxy>>

\* Mutant: the settings are changed although they could not be journalled.
CaptureSettingsIgnoringFailure ==
    /\ op.pc = "capture"
    /\ \/ proxy' = [proxy EXCEPT !.journal = proxy.settings]
       \/ UNCHANGED proxy
    /\ op' = [op EXCEPT !.pc = "switch"]
    /\ UNCHANGED <<offered, cache, bundle, selector, xray, exited, monitor>>

\* SystemProxyManager::apply after its restore: capture and journal, then change the settings.
CaptureSettings ==
    /\ op.pc = "capture"
    /\ \/ /\ proxy' = [proxy EXCEPT !.journal = AdapterCaptures]
          /\ op' = [op EXCEPT !.pc = "switch"]
       \/ UNCHANGED proxy /\ op' = [op EXCEPT !.pc = "fail"]
    /\ UNCHANGED <<offered, cache, bundle, selector, xray, exited, monitor>>

SwitchSettings ==
    /\ op.pc = "switch"
    /\ \/ /\ AdapterApplies
          /\ op' = [op EXCEPT !.pc = "mark"]
       \/ /\ AdapterFails
          /\ op' = Restoring("rollback")
    /\ UNCHANGED <<offered, cache, bundle, selector, xray, exited, monitor>>

MarkConnected ==
    /\ op.pc = "mark"
    /\ IF xray.phase = "starting"
         THEN xray' = [xray EXCEPT !.phase = "connected"] /\ op' = Idle
         ELSE UNCHANGED xray /\ op' = [op EXCEPT !.pc = "fail"]
    /\ UNCHANGED <<offered, cache, bundle, selector, exited, monitor, proxy>>

FailStart ==
    /\ op.pc = "fail"
    /\ EndGeneration("failed")
    /\ op' = Restoring("failed")
    /\ UNCHANGED <<offered, cache, bundle, selector, monitor, proxy>>

\* The child ends by itself; handle_termination runs on the monitor's thread.  Bound: one
\* monitor past its generation check at a time.
ChildExits ==
    /\ xray.child = "running"
    /\ xray' = [xray EXCEPT !.child = "none"]
    /\ exited' = TRUE
    /\ UNCHANGED <<offered, cache, bundle, selector, monitor, proxy, op>>

HandleTermination ==
    /\ exited /\ monitor = "none"
    /\ exited' = FALSE
    /\ xray' = [xray EXCEPT !.phase = "failed"]
    /\ monitor' = "restore"
    /\ UNCHANGED <<offered, cache, bundle, selector, proxy, op>>

MonitorEnds(ok) ==
    /\ monitor' = "none"
    /\ xray' = [xray EXCEPT !.recovered = ok, !.phase = IF ok THEN @ ELSE "failed"]

MonitorRestores ==
    /\ monitor = "restore" /\ ~OperationHoldsProxy
    /\ \/ proxy.journal = "none" /\ MonitorEnds(TRUE) /\ UNCHANGED proxy
       \/ /\ proxy.journal # "none"
          /\ AdapterRestores
          /\ monitor' = "clear" /\ UNCHANGED xray
       \/ /\ proxy.journal # "none"
          /\ AdapterFails
          /\ MonitorEnds(FALSE)
    /\ UNCHANGED <<offered, cache, bundle, selector, exited, op>>

MonitorClears ==
    /\ monitor = "clear"
    /\ \/ proxy' = [proxy EXCEPT !.journal = "none"] /\ MonitorEnds(TRUE)
       \/ UNCHANGED proxy /\ MonitorEnds(FALSE)
    /\ UNCHANGED <<offered, cache, bundle, selector, exited, op>>

\* What a new process starts from.
EmptyCache == [files |-> {}, pointer |-> 0, damaged |-> {}, cut |-> FALSE]
Unbundled == [generation |-> 0, expired |-> FALSE]
NewSelector ==
    [mode |-> CHOOSE m \in Modes : m.kind = "automatic", active |-> "none",
     health |-> [h \in Hosts |-> "unknown"]]
NewSupervisor ==
    [phase |-> "disconnected", child |-> "none", recovered |-> FALSE, profile |-> NoProfile, mode |-> "none"]
UserSettings == [settings |-> "user", journal |-> "none"]

\* The process ends: at once, or through stop_blocking, which restores first.
NewProcess ==
    /\ bundle' = Unbundled /\ selector' = NewSelector
    /\ xray' = NewSupervisor /\ exited' = FALSE /\ monitor' = "none" /\ op' = Idle
    /\ UNCHANGED <<offered, cache>>

ConnectDies == NewProcess /\ UNCHANGED proxy
StopBlocking ==
    /\ ~MonitorHoldsProxy /\ ~OperationHoldsProxy /\ proxy.journal # "none"
    /\ proxy' = [settings |-> proxy.journal, journal |-> "none"]
    /\ NewProcess

ConnectionInit ==
    /\ offered = [g \in {} |-> {}]
    /\ cache = EmptyCache /\ bundle = Unbundled
    /\ selector = NewSelector
    /\ xray = NewSupervisor /\ exited = FALSE /\ monitor = "none"
    /\ proxy = UserSettings
    /\ op = Idle

BundleNext ==
    \/ \E nodes \in SUBSET Hosts : IssueBundle(nodes)
    \/ \E g \in Generations : DamageFile(g)
    \/ OfflineExpires \/ RestoreBundle \/ RestoreBundleFails
    \/ BeginRefresh \/ FetchFails \/ FetchNotModified \/ FetchNotModifiedRecovers
    \/ InstallFile \/ InstallPointer \/ InstallFails \/ InstallSame
    \/ ActivateVerified \/ ApplyRefreshed

OperationNext ==
    \/ \E mode \in {"system", "manual"} : ConnectOperation(mode)
    \/ \E m \in Modes : SetSelectionMode(m)
    \/ MaintainConnection \/ StopOperation \/ LogoutOperation
    \/ Purge \/ PurgeFails

SupervisorNext ==
    \/ EnterStop \/ TakeChild \/ EnterStart \/ BeginStart
    \/ PortsReady \/ StartObservesExit \/ StartTimesOut \/ MarkConnected \/ FailStart
    \/ CaptureSettings \/ SwitchSettings
    \/ RestoreNothing \/ RestoreSettings \/ ClearJournal
    \/ ChildExits \/ HandleTermination \/ MonitorRestores \/ MonitorClears
    \/ ConnectDies \/ StopBlocking

ConnectionNext == BundleNext \/ OperationNext \/ SupervisorNext

ConnectionSpec == ConnectionInit /\ [][ConnectionNext]_connectionVars

-----------------------------------------------------------------------------
(* Correctness *)

\* Whenever the system proxy settings are not the user's, the recovery journal holds the
\* user's, and it never holds settings Connect made: wherever the process dies, the next launch
\* can give the user's settings back (system_proxy.rs SystemProxyManager::apply, restore_locked).
JournalHoldsUserSettings ==
    /\ proxy.settings # "user" => proxy.journal = "user"
    /\ proxy.journal \in {"none", "user"}

\* Once startup recovery is done, a disconnected Connect has no Xray child and has given the
\* user's settings back, also when a child's exit is handled late (process.rs stop, finish_stop).
DisconnectedIsClean ==
    xray.phase = "disconnected" /\ xray.recovered =>
        xray.child = "none" /\ proxy = [settings |-> "user", journal |-> "none"]

\* Between operations Xray runs with a profile of the bundle in force, for a node the bundle
\* names. The installed bundle, which a restart recovers, is that one or a newer one whose
\* install failed after its pointer was written, never an older one; only a purge that
\* was cut short leaves it behind (connect_service.rs refresh_bundle, apply_selection; bundle.rs
\* install, recover).
RunsCurrentBundle ==
    /\ op.pc = "idle" /\ xray.phase = "connected" =>
          /\ xray.profile.generation = bundle.generation
          /\ xray.profile.node \in offered[bundle.generation]
    /\ ~cache.cut => cache.pointer >= bundle.generation
    /\ ~cache.cut /\ cache.pointer # 0 => cache.pointer \in cache.files

\* A connect that finishes without starting anything, with a node selected, finds Xray connected
\* (runtime.rs connect: "Selects and starts the account-owned Xray runtime.").
ConnectStarts ==
    [][\A mode \in {"system", "manual"} :
           ConnectOperation(mode) /\ op'.pc = "idle" /\ selector'.active # "none" =>
               xray.phase = "connected"]_connectionVars

\* The three things a user relies on: the settings saved are the user's own, disconnected
\* means untouched, and connected means a node of the bundle in force, with nothing older
\* installed (system_proxy.rs, process.rs, connect_service.rs, bundle.rs).
ConnectionIsSafe == JournalHoldsUserSettings /\ DisconnectedIsClean /\ RunsCurrentBundle
=============================================================================
