------------------------------- MODULE Policy -------------------------------
(***************************************************************************)
(* What the provider allows: pause, weekly schedule, monthly transfer cap  *)
(* and session limit (node-host/src/policy.rs), how a pass of the service  *)
(* enforces them (run_cycle of service.rs) and the public admission gate   *)
(* that carries the streams (admission.rs).  The provider's commands run   *)
(* in other processes between any two steps of a pass, and the clock may   *)
(* be set back.                                                            *)
(***************************************************************************)
EXTENDS Naturals, FiniteSets

CONSTANTS
    WeekDays, DayMinutes,  \* the week, scaled down
    Policies,              \* policies the provider may configure
    Cap,                   \* monthly_transfer_cap_bytes
    MaxTime,               \* bound: minutes; a month is one week
    MaxBytes               \* bound: bytes in a month

\* WeeklyScheduleWindow::validate.
ValidWindow(w) ==
    /\ w \in [weekday : 1 .. WeekDays, start : 0 .. DayMinutes - 1, end : 0 .. DayMinutes - 1]
    /\ w.start # w.end

\* ProviderPolicy::validate, which every configured policy has passed.
ValidPolicy(p) ==
    /\ p = [paused |-> p.paused, window |-> p.window, capped |-> p.capped, limit |-> p.limit]
    /\ {p.paused, p.capped} \subseteq BOOLEAN /\ p.limit \in Nat \ {0}
    /\ \A w \in p.window : ValidWindow(w)

ASSUME PolicyAssumption ==
    /\ {WeekDays, DayMinutes, Cap} \subseteq Nat \ {0} /\ {MaxTime, MaxBytes} \subseteq Nat
    /\ \A p \in Policies : ValidPolicy(p)

VARIABLES
    clock,      \* the wall clock
    provider,   \* provider_policy
    month,      \* provider_month_usage: month, bytes, clock high-watermark
    command,    \* set_pause: the policy it read and is about to write back
    gate,       \* AdmissionGate: whether it listens, its limit, its streams
    pass,       \* where run_cycle is
    enforced    \* yes: a whole pass ran and nothing has changed since it began

policyVars == <<clock, provider, month, command, gate, pass, enforced>>

Week == WeekDays * DayMinutes

\* month_key.
MonthOf(t) == t \div Week
Later(a, b) == IF a > b THEN a ELSE b

-----------------------------------------------------------------------------
(* Evaluation *)

\* WeeklyScheduleWindow::contains: a window that ends before it starts runs into the next day.
Contains(w, t) ==
    LET day == (t % Week) \div DayMinutes + 1
        minute == t % DayMinutes
        Next(d) == IF d = WeekDays THEN 1 ELSE d + 1
    IN  IF w.start < w.end
        THEN day = w.weekday /\ minute >= w.start /\ minute < w.end
        ELSE \/ day = w.weekday /\ minute >= w.start
             \/ day = Next(w.weekday) /\ minute < w.end

ScheduleAllows(window, t) == window = {} \/ \E w \in window : Contains(w, t)

\* Mutant: the clock is trusted when it was set back.
EffectiveClockTrusting == clock

\* The clock never runs behind its high-watermark.
EffectiveClock == Later(clock, month.watermark)

\* A later month starts at zero; an earlier one never comes back.
MonthAt(t) ==
    [month |-> Later(month.month, MonthOf(t)), watermark |-> t,
     bytes |-> IF month.month < MonthOf(t) THEN 0 ELSE month.bytes]

\* load_status_components.
AvailableIn(m) ==
    /\ ~ provider.paused
    /\ ScheduleAllows(provider.window, m.watermark)
    /\ provider.capped => m.bytes < Cap

ClosedGate == [open |-> FALSE, limit |-> 0, streams |-> 0]

-----------------------------------------------------------------------------
(* A pass of the service: run_cycle *)

\* withdraw_data_paths: no mapping, no relay, no Xray, no gate.
Withdraw ==
    /\ gate' = ClosedGate /\ pass' = "idle" /\ enforced' = "yes"
    /\ UNCHANGED <<command, clock, provider>>

\* evaluate_and_checkpoint, at three points of a pass.
EvaluateAt(from, to) ==
    /\ pass = from
    /\ month' = MonthAt(EffectiveClock)
    /\ IF AvailableIn(month')
       THEN /\ pass' = to /\ enforced' = IF from = "idle" THEN "checking" ELSE enforced
            /\ UNCHANGED <<command, clock, provider, gate>>
       ELSE Withdraw

\* configure_admission_limits stops the runtime when a limit changed; reconcile
\* starts it (ensure_active_running).
ReconcileRuntime ==
    /\ pass = "available"
    /\ gate' = IF gate.open /\ gate.limit = provider.limit THEN gate
               ELSE [open |-> TRUE, limit |-> provider.limit, streams |-> 0]
    /\ pass' = "running"
    /\ UNCHANGED <<command, clock, provider, month, enforced>>

\* record_usage_delta_in_transaction, inside the collection's transaction.
CollectUsage(bytes) ==
    /\ pass = "running" /\ month.bytes + bytes <= MaxBytes
    /\ month' = [MonthAt(EffectiveClock) EXCEPT !.bytes = @ + bytes]
    /\ pass' = "collected"
    /\ UNCHANGED <<command, clock, provider, gate, enforced>>

\* The exchange with Control, during which anything may change.
Synchronize ==
    /\ pass = "syncing"
    /\ pass' = "synced"
    /\ UNCHANGED <<command, clock, provider, month, gate, enforced>>

EndPass ==
    /\ pass = "ending"
    /\ pass' = "idle" /\ enforced' = IF enforced = "checking" THEN "yes" ELSE enforced
    /\ UNCHANGED <<command, clock, provider, month, gate>>

-----------------------------------------------------------------------------
(* The admission gate *)

\* run_gate: a stream needs a permit and a backend connection.
AcceptStream ==
    /\ gate.open /\ gate.streams < gate.limit
    /\ gate' = [gate EXCEPT !.streams = @ + 1]
    /\ UNCHANGED <<command, clock, provider, month, pass, enforced>>

FinishStream ==
    /\ gate.streams > 0
    /\ gate' = [gate EXCEPT !.streams = @ - 1]
    /\ UNCHANGED <<command, clock, provider, month, pass, enforced>>

-----------------------------------------------------------------------------
(* The provider, and the world *)

\* configure_provider_policy replaces the whole policy.
ConfigurePolicy(policy) ==
    /\ provider' = policy /\ enforced' = "no"
    /\ UNCHANGED <<command, clock, month, gate, pass>>

\* pause_provider and resume_provider read the policy in one transaction and write
\* it back, with paused set, in another.
ReadForPause(paused) ==
    /\ command = {}
    /\ command' = {[provider EXCEPT !.paused = paused]}
    /\ UNCHANGED <<clock, provider, month, gate, pass, enforced>>

WritePause(policy) ==
    /\ command = {policy}
    /\ command' = {} /\ provider' = policy /\ enforced' = "no"
    /\ UNCHANGED <<clock, month, gate, pass>>

SetClock(t) ==
    /\ t # clock
    /\ clock' = t /\ enforced' = "no"
    /\ UNCHANGED <<command, provider, month, gate, pass>>

-----------------------------------------------------------------------------
PolicyInit ==
    /\ clock = 0 /\ provider \in {p \in Policies : ~ p.paused /\ p.window = {} /\ ~ p.capped}
    /\ month = [month |-> 0, bytes |-> 0, watermark |-> 0]
    /\ command = {} /\ gate = ClosedGate /\ pass = "idle" /\ enforced = "no"

PolicyNext ==
    \/ EvaluateAt("idle", "available") \/ EvaluateAt("collected", "syncing") \/ EvaluateAt("synced", "ending")
    \/ ReconcileRuntime \/ Synchronize
    \/ \E bytes \in 0 .. 1 : CollectUsage(bytes)
    \/ EndPass \/ AcceptStream \/ FinishStream
    \/ \E p \in Policies : ConfigurePolicy(p)
    \/ \E p \in command : WritePause(p)
    \/ \E paused \in BOOLEAN : ReadForPause(paused)
    \/ \E t \in 0 .. MaxTime : SetClock(t)

PolicySpec == PolicyInit /\ [][PolicyNext]_policyVars

-----------------------------------------------------------------------------
\* The minutes of the week that a window promises: its length from its start on.
Promised(w) ==
    LET first == (w.weekday - 1) * DayMinutes + w.start
        length == (w.end + DayMinutes - w.start) % DayMinutes
    IN  {(first + k) % Week : k \in 0 .. length - 1}

\* Once a pass has ended and nothing changed since, an open gate means that the
\* provider is not paused, that the later of the clock and the latest time seen is
\* in a window of the schedule, that the month's cap is not used up and that there are no more
\* streams than the provider allows now.
PolicyIsEnforced ==
    enforced = "yes" /\ gate.open =>
        /\ ~ provider.paused
        /\ provider.window = {} \/ \E w \in provider.window : EffectiveClock % Week \in Promised(w)
        /\ provider.capped /\ month.month = MonthOf(EffectiveClock) => month.bytes < Cap
        /\ gate.streams <= provider.limit

\* A clock that is set back, a crash or another pass never gives a month its bytes
\* back, nor reopens an earlier month.
UsageNeverShrinks ==
    [][/\ month'.month >= month.month /\ month'.watermark >= month.watermark
       /\ month'.month = month.month => month'.bytes >= month.bytes]_policyVars

\* The provider's limits hold at the gate, and the month's account behind them only grows
\* (service.rs run_cycle, policy.rs record_usage_delta_in_transaction).
PolicyHolds == []PolicyIsEnforced /\ UsageNeverShrinks
=============================================================================
