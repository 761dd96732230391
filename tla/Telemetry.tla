------------------------------ MODULE Telemetry ------------------------------
(***************************************************************************)
(* Traffic accounting, from Xray's cumulative counters to the Control      *)
(* Service's totals: the collection, the pending deltas and the spool of   *)
(* node-host/src/telemetry.rs, the provider's usage (policy.rs), the       *)
(* upload of sync.rs and ingest_telemetry of control-server/src/db.rs.     *)
(* The child may be restarted before its new generation is recorded, or    *)
(* without one, and the service may die between any two transactions;      *)
(* uploads may be lost, late or delivered twice.                           *)
(***************************************************************************)
EXTENDS Naturals, Sequences, FiniteSets, FiniteSetsExt

CONSTANTS
    Users,         \* members whose counters Xray keeps
    MaxCarried,    \* bound: units of traffic of a member
    MaxChild,      \* bound: runtime generations
    SpoolLimit,    \* MAX_UNACKNOWLEDGED_EVENTS
    BatchLimit,    \* MAX_UPLOAD_EVENTS
    MaxEvent       \* bound: events ever spooled

ASSUME TelemetryAssumption ==
    /\ IsFiniteSet(Users)
    /\ {MaxCarried, MaxChild, SpoolLimit, BatchLimit, MaxEvent} \subseteq Nat \ {0}

VARIABLES
    child,      \* Xray: the counters since it started, the runtime generation that is
                \* recorded, and whether it was started after the record
    carried,    \* what each member really sent and received
    collecting, \* the counters that a query returned, not yet applied
    baseline,   \* xray_traffic_collection_state and xray_user_traffic_counters
    pending,    \* provider_pending_traffic_delta
    usage,      \* provider_month_usage: what the provider's cap is compared with, and
                \* (history) the sum of the months before
    events,     \* telemetry_spool: all events, by sequence number
    retained,   \* first sequence number that was not purged
    confirmed,  \* acknowledged_sequence of the spool
    upload,     \* what sync_telemetry waits for
    flights,    \* batches on their way to Control
    totals      \* Control: cursor and traffic aggregates

telemetryVars ==
    <<child, carried, collecting, baseline, pending, usage, events, retained, confirmed, upload, flights, totals>>

Zero == [u \in Users |-> 0]
NoQuery == [generation |-> 0, counter |-> Zero]
NoUpload == [at |-> "idle", sequence |-> 0]
TrafficDelta(u, bytes) == [kind |-> "traffic", user |-> u, bytes |-> bytes]
CollectionStatus == [kind |-> "status", user |-> "none", bytes |-> 0]

SumOver(f) == MapThenSumSet(LAMBDA u : f[u], Users)

\* The bytes that events a .. b hold for a member.
Bytes(u, a, b) ==
    MapThenSumSet(LAMBDA n : IF events[n].kind = "traffic" /\ events[n].user = u THEN events[n].bytes ELSE 0, a .. b)

-----------------------------------------------------------------------------
(* Xray *)

CarryTraffic(u) ==
    /\ carried[u] < MaxCarried
    /\ carried' = [carried EXCEPT ![u] = @ + 1]
    /\ child' = [child EXCEPT !.counter[u] = @ + 1]
    /\ UNCHANGED <<collecting, baseline, pending, usage, events, retained, confirmed, upload, flights, totals>>

\* stop_runtime and start_proven_candidate: a new child counts from zero. Its generation is
\* recorded afterwards, and never when the predecessor returns after a commit that failed
\* (restore_after_commit_failure).
RestartChild ==
    /\ child' = [child EXCEPT !.counter = Zero, !.fresh = TRUE]
    /\ UNCHANGED <<carried, collecting, baseline, pending, usage, events, retained, confirmed, upload, flights, totals>>

\* record_active_restart, and the commit of a new revision.
RecordGeneration ==
    /\ child.fresh /\ child.generation < MaxChild
    /\ child' = [child EXCEPT !.generation = @ + 1, !.fresh = FALSE]
    /\ UNCHANGED <<carried, collecting, baseline, pending, usage, events, retained, confirmed, upload, flights, totals>>

-----------------------------------------------------------------------------
(* Collection *)

\* The answer of the child's statistics service.
QueryUserTraffic == [generation |-> child.generation, counter |-> child.counter]

\* load_stats_query_target and the query: the answer is awaited outside a transaction.
QueryCounters ==
    /\ collecting = NoQuery
    /\ collecting' = QueryUserTraffic
    /\ UNCHANGED <<child, carried, baseline, pending, usage, events, retained, confirmed, upload, flights, totals>>

\* enqueue_in_transaction refuses when the spool is full; nothing unacknowledged is dropped.
HasRoom(n) == Len(events) - confirmed + n <= SpoolLimit /\ Len(events) + n <= MaxEvent

\* enqueue_in_transaction: every event takes the next sequence number.
Enqueued(new) == events \o new

\* record_status_transition: what a change of the collection status adds to the spool.
StatusEvents(before, after) ==
    IF before = after THEN <<>>
    ELSE (IF before = "none" THEN <<>> ELSE <<CollectionStatus>>)
         \o (IF after = "none" THEN <<>> ELSE <<CollectionStatus>>)

\* The runtime is compared again inside the transaction that applies the counters.
StillRunning(q) == q.generation = child.generation

\* A counter that went back within one generation: the child was restarted unrecorded.
CounterReset(q) == \E u \in Users : q.counter[u] < baseline.counter[u]

\* The collection status that a snapshot leaves.
StatusOf(q) ==
    CASE baseline.generation \notin {0, q.generation} -> "restarted"
      [] baseline.generation = q.generation /\ CounterReset(q) -> "reset"
      [] OTHER -> "none"

\* Only the growth of a counter of the same runtime is traffic.
Delta(q, u) ==
    IF baseline.generation = q.generation /\ q.counter[u] >= baseline.counter[u]
    THEN q.counter[u] - baseline.counter[u] ELSE 0

\* record_usage_delta_in_transaction: a month that is over starts the row again.
AddUsage(bytes, turned) ==
    IF turned THEN [bytes |-> bytes, past |-> usage.past + usage.bytes]
    ELSE [bytes |-> usage.bytes + bytes, past |-> usage.past]

\* apply_counter_snapshot, up to its commit: deltas, the provider's usage, the new
\* baseline and the status are one transaction, which a full spool aborts. The month may
\* have turned since the row was written.
ApplyCounters(turned) ==
    /\ collecting # NoQuery
    /\ collecting' = NoQuery
    /\ LET q == collecting
           new == StatusEvents(baseline.status, StatusOf(q))
       IN IF StillRunning(q) /\ (new = <<>> \/ HasRoom(Len(new)))
          THEN /\ events' = Enqueued(new)
               /\ pending' = [u \in Users |-> pending[u] + Delta(q, u)]
               /\ usage' = AddUsage(SumOver([u \in Users |-> Delta(q, u)]), turned)
               /\ baseline' = [generation |-> q.generation, counter |-> q.counter, status |-> StatusOf(q)]
          ELSE UNCHANGED <<events, pending, usage, baseline>>
    /\ UNCHANGED <<child, carried, retained, confirmed, upload, flights, totals>>

\* evaluate_and_checkpoint finds the month over.
CheckpointUsage ==
    /\ usage' = AddUsage(0, TRUE)
    /\ UNCHANGED <<child, carried, collecting, baseline, pending, events, retained, confirmed, upload, flights, totals>>

\* persist_collection_failure: the query failed, or named users that are not the
\* revision's; the status is told once.
QueryFails(code) ==
    /\ collecting = NoQuery /\ baseline.status # code
    /\ LET new == StatusEvents(baseline.status, code)
       IN HasRoom(Len(new)) /\ events' = Enqueued(new)
    /\ baseline' = [baseline EXCEPT !.status = code]
    /\ UNCHANGED <<child, carried, collecting, pending, usage, retained, confirmed, upload, flights, totals>>

\* The delta leaves the pending table in the transaction that spools its event.
Taken(u) == [pending EXCEPT ![u] = 0]

\* flush_pending_traffic, one member at a time; without room the delta stays pending.
FlushPending(u) ==
    /\ pending[u] > 0 /\ HasRoom(1)
    /\ events' = Enqueued(<<TrafficDelta(u, pending[u])>>)
    /\ pending' = Taken(u)
    /\ UNCHANGED <<child, carried, collecting, baseline, usage, retained, confirmed, upload, flights, totals>>

\* purge_acknowledged: rows acknowledged seven days ago.
Purge ==
    /\ retained <= confirmed
    /\ retained' = retained + 1
    /\ UNCHANGED <<child, carried, collecting, baseline, pending, usage, events, confirmed, upload, flights, totals>>

-----------------------------------------------------------------------------
(* Upload: sync_telemetry *)

FetchCursor ==
    /\ upload.at = "idle"
    /\ upload' = [at |-> "cursor", sequence |-> totals.cursor]
    /\ UNCHANGED <<child, carried, collecting, baseline, pending, usage, events, retained, confirmed, flights, totals>>

\* batch_from: what follows the cursor, up to the limit of a batch.
Batch(cursor) ==
    [first |-> cursor + 1,
     last |-> IF Len(events) - cursor < BatchLimit THEN Len(events) ELSE cursor + BatchLimit]

SendBatch ==
    /\ upload.at = "cursor" /\ upload.sequence < Len(events) /\ upload.sequence + 1 >= retained
    /\ flights' = flights \cup {Batch(upload.sequence)}
    /\ upload' = [at |-> "sent", sequence |-> Batch(upload.sequence).last]
    /\ UNCHANGED <<child, carried, collecting, baseline, pending, usage, events, retained, confirmed, totals>>

\* Nothing to send, or the pass ends in an error.
EndUpload ==
    /\ upload.at # "idle"
    /\ upload' = NoUpload
    /\ UNCHANGED <<child, carried, collecting, baseline, pending, usage, events, retained, confirmed, flights, totals>>

\* Mutant: a batch that overlaps what is stored is taken whole.
IsNextOverlapping(b) == b.last > totals.cursor

\* ingest_telemetry: an old batch is only acknowledged again, a gap or an overlap is refused.
IsNext(b) == b.first = totals.cursor + 1

\* The traffic of a batch is added to the row of its member.
UpsertTrafficAggregate(b) == [u \in Users |-> totals.bytes[u] + Bytes(u, b.first, b.last)]

Ingest(b) ==
    /\ IsNext(b)
    /\ totals' = [cursor |-> b.last, bytes |-> UpsertTrafficAggregate(b)]
    /\ UNCHANGED <<child, carried, collecting, baseline, pending, usage, events, retained, confirmed, upload, flights>>

\* acknowledge: the answer names the batch that was sent; the next one follows it.
Acknowledged ==
    /\ upload.at = "sent" /\ totals.cursor = upload.sequence
    /\ confirmed' = IF upload.sequence > confirmed THEN upload.sequence ELSE confirmed
    /\ upload' = [at |-> "cursor", sequence |-> upload.sequence]
    /\ UNCHANGED <<child, carried, collecting, baseline, pending, usage, events, retained, flights, totals>>

LoseBatch(b) ==
    /\ flights' = flights \ {b}
    /\ UNCHANGED <<child, carried, collecting, baseline, pending, usage, events, retained, confirmed, upload, totals>>

\* The service dies: what it waited for is forgotten.
CrashCollector ==
    /\ collecting # NoQuery \/ upload # NoUpload
    /\ collecting' = NoQuery /\ upload' = NoUpload
    /\ UNCHANGED <<child, carried, baseline, pending, usage, events, retained, confirmed, flights, totals>>

-----------------------------------------------------------------------------
\* telemetry_spool and its bounds.
EmptySpool == events = <<>> /\ retained = 1 /\ confirmed = 0

\* xray_traffic_collection_state and provider_pending_traffic_delta.
NothingCollected ==
    /\ baseline = [generation |-> 0, counter |-> Zero, status |-> "none"]
    /\ pending = Zero

\* node_telemetry_cursors and the traffic aggregates.
NothingIngested == [cursor |-> 0, bytes |-> Zero]

TelemetryInit ==
    /\ child = [generation |-> 1, counter |-> Zero, fresh |-> FALSE] /\ carried = Zero
    /\ collecting = NoQuery /\ NothingCollected /\ usage = [bytes |-> 0, past |-> 0]
    /\ EmptySpool
    /\ upload = NoUpload /\ flights = {} /\ totals = NothingIngested

TelemetryNext ==
    \/ \E u \in Users : CarryTraffic(u) \/ FlushPending(u)
    \/ RestartChild \/ RecordGeneration \/ QueryCounters \/ CheckpointUsage \/ Purge
    \/ \E turned \in BOOLEAN : ApplyCounters(turned)
    \/ \E code \in {"unavailable", "invalid"} : QueryFails(code)
    \/ FetchCursor \/ SendBatch \/ EndUpload \/ Acknowledged \/ CrashCollector
    \/ \E b \in flights : Ingest(b) \/ LoseBatch(b)

TelemetrySpec == TelemetryInit /\ [][TelemetryNext]_telemetryVars

-----------------------------------------------------------------------------
\* What was counted is somewhere exactly once: in Control's totals, in the spool
\* behind Control's cursor, or pending; the provider's usage, over its months, is the
\* same sum; and no more is ever charged than was carried.  No lost acknowledgement,
\* late or repeated batch, crash, month's end or child that was restarted, under its old
\* generation or a new one, makes a byte count twice or takes a counted one away, and
\* what Control has yet to ask for is never purged. (A restart may leave traffic
\* uncounted: the code calls its usage a lower bound.)
CountedOnce ==
    LET Accounted == [u \in Users |-> totals.bytes[u] + Bytes(u, totals.cursor + 1, Len(events)) + pending[u]]
    IN /\ usage.bytes + usage.past = SumOver(Accounted)
       /\ \A u \in Users : Accounted[u] <= carried[u]
       /\ retained <= totals.cursor + 1 /\ confirmed <= totals.cursor
=============================================================================
