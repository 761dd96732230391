-------------------------------- MODULE Usage --------------------------------
(***************************************************************************)
(* The operator console's local usage database (src-tauri/src/db.rs) and   *)
(* the commands that feed it (src-tauri/src/lib.rs): refreshes sample      *)
(* Xray's cumulative counters outside the database lock and turn them into *)
(* deltas.  Xray restarts, users come and go, refreshes overlap, and one   *)
(* may end at any point outside a transaction.                             *)
(***************************************************************************)
EXTENDS Naturals, FiniteSets

CONSTANTS
    Clients,      \* users of the local Xray
    Refreshers,   \* refresh commands that may overlap
    MaxTraffic,   \* bound: traffic of a user
    MaxSample,    \* bound: samples taken
    MaxPeriod     \* bound: calendar months

ASSUME UsageAssumption ==
    /\ IsFiniteSet(Clients) /\ IsFiniteSet(Refreshers)
    /\ {MaxTraffic, MaxSample, MaxPeriod} \subseteq Nat

VARIABLES
    meter,       \* Xray: users configured, their counters, and all they ever carried
    identities,  \* user_identities that are active
    ledger,      \* per user: the legacy row, the usage row and the counter row
    refresh,     \* each refresh in progress
    samples,     \* samples taken, and the latest that was stored
    period       \* the month

usageVars == <<meter, identities, ledger, refresh, samples, period>>

NoRefresh == [at |-> "idle", users |-> {}, stats |-> [u \in Clients |-> 0], taken |-> 0]

\* A database of the first schema may hold usage up to some counter value, and the month it
\* was counted in, or none (0).
UsageInit ==
    /\ \E u0 \in SUBSET Clients, before \in 0..1 : \E since \in 0..before :
         /\ meter = [users |-> u0, counter |-> [u \in Clients |-> before], carried |-> [u \in Clients |-> before]]
         /\ ledger = [u \in Clients |-> [legacy |-> before, since |-> since, row |-> FALSE, month |-> 0, used |-> 0,
                                         counted |-> 0, metered |-> FALSE, last |-> 0]]
    /\ identities = {}
    /\ refresh = [r \in Refreshers |-> NoRefresh]
    /\ samples = [taken |-> 0, stored |-> 0, overtaken |-> FALSE]
    /\ period = 1

-----------------------------------------------------------------------------
(* Xray and the calendar *)

Carries(u) ==
    /\ u \in meter.users /\ meter.carried[u] < MaxTraffic
    /\ meter' = [meter EXCEPT !.counter[u] = @ + 1, !.carried[u] = @ + 1]
    /\ UNCHANGED <<identities, ledger, refresh, samples, period>>

\* The configuration gains or loses a user; Xray restarts with its counters at zero.
Reconfigured ==
    /\ \E us \in SUBSET Clients : meter' = [meter EXCEPT !.users = us, !.counter = [u \in Clients |-> 0]]
    /\ meter' # meter
    /\ UNCHANGED <<identities, ledger, refresh, samples, period>>

MonthPasses ==
    /\ period < MaxPeriod
    /\ period' = period + 1
    /\ UNCHANGED <<meter, identities, ledger, refresh, samples>>

-----------------------------------------------------------------------------
(* sync_identities, sync_traffic and set_quota *)

\* The legacy row keeps its last_reset_month; an empty one becomes the current month.
LegacyMonth(row) == IF row.since = 0 THEN period ELSE row.since

\* Mutant: the usage of the first schema is taken over without its counter values.
MigrateLegacyUsageOnly(row) ==
    IF row.legacy = 0 \/ row.row THEN row
    ELSE [row EXCEPT !.row = TRUE, !.month = LegacyMonth(row), !.used = row.legacy, !.counted = @ + row.legacy]

\* Both inserts ignore a row that is there already.
MigrateLegacyUsage(row) ==
    LET usage == IF row.legacy = 0 \/ row.row THEN row
                 ELSE [row EXCEPT !.row = TRUE, !.month = LegacyMonth(row), !.used = row.legacy,
                                  !.counted = @ + row.legacy]
    IN  IF row.legacy = 0 \/ row.metered THEN usage
        ELSE [usage EXCEPT !.metered = TRUE, !.last = row.legacy]

\* The set of active identities becomes exactly the configured users.
SyncIdentities(us) ==
    /\ identities' = us
    /\ ledger' = [u \in Clients |-> IF u \in us THEN MigrateLegacyUsage(ledger[u]) ELSE ledger[u]]

SetQuota(u) ==
    /\ ~ledger[u].row
    /\ ledger' = [ledger EXCEPT ![u].row = TRUE]
    /\ UNCHANGED <<meter, identities, refresh, samples, period>>

\* A counter below the stored one is that of a restarted Xray.
CounterDelta(now, last) == IF now >= last THEN now - last ELSE now

Accounted(row, now) ==
    LET migrated == MigrateLegacyUsage(row)
        delta == CounterDelta(now, IF migrated.metered THEN migrated.last ELSE 0)
    IN  [migrated EXCEPT !.row = TRUE, !.month = period, !.metered = TRUE, !.last = now,
                         !.used = IF migrated.row /\ migrated.month = period THEN @ + delta ELSE delta,
                         !.counted = @ + delta]

-----------------------------------------------------------------------------
(* refresh_traffic *)

Begin(r) ==
    /\ refresh[r].at = "idle"
    /\ refresh' = [refresh EXCEPT ![r] = [NoRefresh EXCEPT !.at = "loaded", !.users = meter.users]]
    /\ UNCHANGED <<meter, identities, ledger, samples, period>>

Identify(r) ==
    /\ refresh[r].at = "loaded"
    /\ SyncIdentities(refresh[r].users)
    /\ refresh' = [refresh EXCEPT ![r].at = "identified"]
    /\ UNCHANGED <<meter, samples, period>>

\* get_user_traffic asks Xray; without an answer the stored quotas are shown.
Sample(r) ==
    /\ refresh[r].at = "identified" /\ samples.taken < MaxSample
    /\ samples' = [samples EXCEPT !.taken = @ + 1]
    /\ refresh' = [refresh EXCEPT ![r].at = "sampled", ![r].stats = meter.counter,
                                  ![r].taken = samples.taken + 1,
                                  ![r].users = @ \cap meter.users]
    /\ UNCHANGED <<meter, identities, ledger, period>>

Abandon(r) ==
    /\ refresh[r].at # "idle"
    /\ refresh' = [refresh EXCEPT ![r] = NoRefresh]
    /\ UNCHANGED <<meter, identities, ledger, samples, period>>

\* One transaction; a user that is not active by now refuses the whole batch.
SyncTraffic(r) ==
    /\ refresh[r].at = "sampled"
    /\ refresh' = [refresh EXCEPT ![r] = NoRefresh]
    /\ \/ /\ refresh[r].users \subseteq identities
          /\ ledger' = [u \in Clients |-> IF u \in refresh[r].users
                                            THEN Accounted(ledger[u], refresh[r].stats[u]) ELSE ledger[u]]
          /\ samples' = [samples EXCEPT !.stored = IF refresh[r].taken > @ THEN refresh[r].taken ELSE @,
                                        !.overtaken = @ \/ refresh[r].taken < samples.stored]
       \/ ~(refresh[r].users \subseteq identities) /\ UNCHANGED <<ledger, samples>>
    /\ UNCHANGED <<meter, identities, period>>

-----------------------------------------------------------------------------
(* pull_access_logs *)

\* A pull of the access log, modelled in AccessLog, brings the identities up to date first.
PullIdentities ==
    /\ identities # meter.users
    /\ SyncIdentities(meter.users)
    /\ UNCHANGED <<meter, refresh, samples, period>>

-----------------------------------------------------------------------------

UsageNext ==
    \/ \E u \in Clients : Carries(u) \/ SetQuota(u)
    \/ Reconfigured \/ MonthPasses
    \/ \E r \in Refreshers : Begin(r) \/ Identify(r) \/ Sample(r) \/ Abandon(r) \/ SyncTraffic(r)
    \/ PullIdentities

UsageSpec == UsageInit /\ [][UsageNext]_usageVars

(***************************************************************************)
(* As long as samples are stored in the order they were taken, a user is   *)
(* never charged more than was carried, whatever restarts, months, users   *)
(* that come and go and usage of the first schema do to the counters       *)
(* (sync_traffic, migrate_legacy_usage).                                   *)
(***************************************************************************)
ChargedWasCarried ==
    ~samples.overtaken => \A u \in Clients : ledger[u].counted <= meter.carried[u]
===============================================================================
