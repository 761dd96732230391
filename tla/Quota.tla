-------------------------------- MODULE Quota --------------------------------
(***************************************************************************)
(* The monthly byte quota of one route of the Relay (relay-server/src/     *)
(* quota.rs and the pumps of relay.rs): bytes are counted in a file before *)
(* they are forwarded.  The store's mutex is held while the file is        *)
(* replaced, the machine may stop between any two of its steps, and the    *)
(* clock may be set back.  Time is counted in months.                      *)
(***************************************************************************)
EXTENDS Naturals, FiniteSets

CONSTANTS
    Limit,     \* monthly_byte_limit of the route
    Flows,     \* directions of member streams that forward bytes
    MaxChunk,  \* bound: bytes read at a time
    MaxMonth,  \* bound: months
    MaxStop    \* bound: power losses and failing writes

ASSUME QuotaAssumption ==
    /\ Limit \in Nat /\ IsFiniteSet(Flows)
    /\ {MaxChunk, MaxMonth} \subseteq Nat \ {0} /\ MaxStop \in Nat

VARIABLES
    clock,      \* the month now_utc() shows
    memory,     \* StoreStatus.state: the watermark, the route's record
    store,      \* whether the store is open, closed or poisoned
    visible,    \* the state file as a reader finds it
    durable,    \* the state file that survives a power loss
    temporary,  \* whether the temporary file exists
    writer,     \* the commit in progress, under the mutex
    granted,    \* each flow's reservation that is not yet forwarded
    forwarded,  \* bytes forwarded, by the month they were counted in
    stops       \* stops so far

quotaVars == <<clock, memory, store, visible, durable, temporary, writer, granted, forwarded, stops>>

Months == 1 .. MaxMonth
RetentionMonths == 2  \* 62 days end in the second month that follows, or in the third
NoRecord == [month |-> 0, bytes |-> 0, retired |-> 0]
Closed == [water |-> 0, record |-> NoRecord]
NoCommit == [at |-> "idle", next |-> Closed, flow |-> "none", bytes |-> 0]
Nothing == [bytes |-> 0, month |-> 0]

\* effective_now: the clock never goes back past the watermark.
EffectiveNow == IF clock > memory.water THEN clock ELSE memory.water

\* roll_record.
Rolled(record) ==
    IF record.month < EffectiveNow THEN [record EXCEPT !.month = EffectiveNow, !.bytes = 0] ELSE record

Usable == store = "open" /\ writer.at = "idle"
HasRecord == memory.record.month # 0 /\ memory.record.retired = 0

\* persist_state begins for a flow's reservation, or for nobody's.
Commit(record, f, n) ==
    writer' = [at |-> "create", next |-> [water |-> EffectiveNow, record |-> record], flow |-> f, bytes |-> n]

-----------------------------------------------------------------------------
(* Operations under the mutex *)

\* Mutant: the reservation is handed out while it is being written.
ReserveEagerly(f, n) ==
    LET record == Rolled(memory.record)
        room == IF record.bytes >= Limit THEN 0 ELSE Limit - record.bytes
        share == IF n < room THEN n ELSE room
    IN /\ Usable /\ HasRecord /\ granted[f] = Nothing /\ share > 0
       /\ Commit([record EXCEPT !.bytes = @ + share], "none", 0)
       /\ granted' = [granted EXCEPT ![f] = [bytes |-> share, month |-> EffectiveNow]]
       /\ UNCHANGED <<clock, memory, store, visible, durable, temporary, forwarded, stops>>

\* reserve: as many of n bytes as the month has left; none, and the stream ends.
Reserve(f, n) ==
    LET record == Rolled(memory.record)
        room == IF record.bytes >= Limit THEN 0 ELSE Limit - record.bytes
        share == IF n < room THEN n ELSE room
    IN /\ Usable /\ HasRecord /\ granted[f] = Nothing /\ share > 0
       /\ Commit([record EXCEPT !.bytes = @ + share], f, share)
       /\ UNCHANGED <<clock, memory, store, visible, durable, temporary, granted, forwarded, stops>>

\* permits_new_stream writes only when a month began.
PermitStream ==
    /\ Usable /\ HasRecord /\ Rolled(memory.record) # memory.record
    /\ Commit(Rolled(memory.record), "none", 0)
    /\ UNCHANGED <<clock, memory, store, visible, durable, temporary, granted, forwarded, stops>>

\* Retired records are kept for 62 days: in the second month that follows they may be
\* gone, and in the third (from the end of January) they may still be there.
Retained(record) ==
    IF record.retired = 0 \/ EffectiveNow < record.retired + RetentionMonths THEN {record}
    ELSE IF EffectiveNow <= record.retired + RetentionMonths + 1 THEN {record, NoRecord}
    ELSE {NoRecord}

\* What reconcile makes of the route's record.
Reconciled(record, isActive) ==
    CASE isActive /\ record.month = 0 -> [month |-> EffectiveNow, bytes |-> 0, retired |-> 0]
      [] isActive /\ record.month # 0 -> [Rolled(record) EXCEPT !.retired = 0]
      [] ~ isActive /\ record.month # 0 /\ record.retired = 0 -> [record EXCEPT !.retired = EffectiveNow]
      [] OTHER -> record

\* reconcile, called by apply_routes with the routes that have a limit.
ReconcileQuota(isActive) ==
    \E kept \in Retained(memory.record) :
        /\ Usable /\ Reconciled(kept, isActive) # memory.record
        /\ Commit(Reconciled(kept, isActive), "none", 0)
        /\ UNCHANGED <<clock, memory, store, visible, durable, temporary, granted, forwarded, stops>>

-----------------------------------------------------------------------------
(* persist_state *)

CreateTemporary ==
    /\ writer.at = "create"
    /\ temporary' = TRUE
    /\ writer' = [writer EXCEPT !.at = "rename"]
    /\ UNCHANGED <<clock, memory, store, visible, durable, granted, forwarded, stops>>

RenameState ==
    /\ writer.at = "rename"
    /\ visible' = writer.next /\ temporary' = FALSE
    /\ writer' = [writer EXCEPT !.at = "sync"]
    /\ UNCHANGED <<clock, memory, store, durable, granted, forwarded, stops>>

\* The directory is synced; commit updates the memory, reserve returns the bytes.
SyncState ==
    /\ writer.at = "sync"
    /\ durable' = visible /\ memory' = writer.next
    /\ granted' = IF writer.flow = "none" THEN granted
                  ELSE [granted EXCEPT ![writer.flow] = [bytes |-> writer.bytes, month |-> writer.next.record.month]]
    /\ writer' = NoCommit
    /\ UNCHANGED <<clock, store, visible, temporary, forwarded, stops>>

\* A step of persist_state fails: the temporary file is removed, the store is
\* poisoned and refuses every later call.
PersistFails ==
    /\ writer.at # "idle" /\ stops < MaxStop
    /\ store' = "poisoned" /\ temporary' = FALSE /\ writer' = NoCommit
    /\ stops' = stops + 1
    /\ UNCHANGED <<clock, memory, visible, durable, granted, forwarded>>

-----------------------------------------------------------------------------
(* The pumps, the machine and its clock *)

\* pump_member_to_node and pump_node_to_member forward what was granted.
ForwardBytes(f) ==
    /\ granted[f] # Nothing
    /\ forwarded' = [forwarded EXCEPT ![granted[f].month] = @ + granted[f].bytes]
    /\ granted' = [granted EXCEPT ![f] = Nothing]
    /\ UNCHANGED <<clock, memory, store, visible, durable, temporary, writer, stops>>

\* The stream is cancelled after its reservation.
DropBytes(f) ==
    /\ granted[f] # Nothing
    /\ granted' = [granted EXCEPT ![f] = Nothing]
    /\ UNCHANGED <<clock, memory, store, visible, durable, temporary, writer, forwarded, stops>>

\* The machine stops.  A rename that was not synced may be lost.
LosePower ==
    /\ store # "closed" /\ stops < MaxStop
    /\ \E file \in {visible, durable} : visible' = file /\ durable' = file
    /\ store' = "closed" /\ memory' = Closed /\ writer' = NoCommit
    /\ granted' = [f \in Flows |-> Nothing]
    /\ stops' = stops + 1
    /\ UNCHANGED <<clock, temporary, forwarded>>

\* validate_state.
Readable(file) == file.record.month <= file.water /\ file.record.retired <= file.water

\* open_blocking: a left-over temporary file is refused; a missing file is
\* created with the current month as watermark.
OpenStore ==
    /\ store = "closed" /\ ~ temporary
    /\ visible = Closed \/ Readable(visible)
    /\ memory' = IF visible = Closed THEN [Closed EXCEPT !.water = clock] ELSE visible
    /\ visible' = memory' /\ durable' = memory'
    /\ store' = "open"
    /\ UNCHANGED <<clock, temporary, writer, granted, forwarded, stops>>

\* The operator removes the left-over file (external).
RemoveTemporary ==
    /\ store = "closed" /\ temporary
    /\ temporary' = FALSE
    /\ UNCHANGED <<clock, memory, store, visible, durable, writer, granted, forwarded, stops>>

\* The clock advances a month, or is set back.
SetClock(m) ==
    /\ m \in {clock + 1, clock - 1} \cap Months
    /\ clock' = m
    /\ UNCHANGED <<memory, store, visible, durable, temporary, writer, granted, forwarded, stops>>

-----------------------------------------------------------------------------
QuotaInit ==
    /\ clock = 1 /\ memory = Closed /\ store = "closed"
    /\ visible = Closed /\ durable = Closed /\ temporary = FALSE
    /\ writer = NoCommit /\ granted = [f \in Flows |-> Nothing]
    /\ forwarded = [m \in Months |-> 0] /\ stops = 0

QuotaNext ==
    \/ \E f \in Flows : (\E n \in 1 .. MaxChunk : Reserve(f, n)) \/ ForwardBytes(f) \/ DropBytes(f)
    \/ PermitStream
    \/ \E isActive \in BOOLEAN : ReconcileQuota(isActive)
    \/ CreateTemporary \/ RenameState \/ SyncState \/ PersistFails
    \/ LosePower \/ OpenStore \/ RemoveTemporary
    \/ \E m \in Months : SetClock(m)

QuotaSpec == QuotaInit /\ [][QuotaNext]_quotaVars

-----------------------------------------------------------------------------
\* No month's traffic exceeds the limit, and the file that survives a power loss
\* counts all of this month's traffic, whatever crashes, failing writes, route
\* changes and clock changes happen: reserve is durable before bytes move.
QuotaCoversTraffic ==
    /\ \A m \in Months : forwarded[m] <= Limit
    /\ durable.record.month # 0 => forwarded[durable.record.month] <= durable.record.bytes

\* The Relay can always read back what it wrote: validate_state would otherwise
\* refuse the file and the Relay could not start.
QuotaStateLoads == visible # Closed => Readable(visible) /\ memory.water <= visible.water

\* The monthly budget is kept across crashes, and its state can always be read again
\* (quota.rs).
QuotaIsKept == QuotaCoversTraffic /\ QuotaStateLoads
=============================================================================
