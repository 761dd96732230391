-------------------------- MODULE ActivationProofs --------------------------
(***************************************************************************)
(* Proofs about module Activation, for every number of revisions and every *)
(* number of faults.                                                       *)
(*                                                                         *)
(* The argument separates the tables from the supervisor.  Each durable    *)
(* transaction of the code is a lemma: it preserves the consistency of the *)
(* tables when the revision it is applied to is the open one.  What the    *)
(* supervisor's position guarantees about that revision is the other half  *)
(* of the inductive invariant, and is proved action by action.             *)
(***************************************************************************)
EXTENDS Activation, TLAPS

DurableTypeOK ==
    /\ cursor \in Revs0 /\ active \in Revs0
    /\ rows \in [Revs -> SUBSET ResultStates]
    /\ reported \in [Revs -> SUBSET ResultStates]
    /\ rollbackTo \in [Revs -> Revs0]
    /\ journal \in [Revs -> [phase : {"none"} \cup Working \cup TerminalPhases,
                             prev : Revs0, attempts : Nat]]

PositionTypeOK ==
    /\ pc \in Locations /\ ret \in {"policy", "resume", "idle"} /\ cand \in Revs0
    /\ paused \in BOOLEAN /\ faults \in Nat

RuntimeTypeOK ==
    child \in Revs0 /\ alive \in BOOLEAN /\ gate \in Revs0 /\ marked \in Revs0

VolatileTypeOK == PositionTypeOK /\ RuntimeTypeOK

Tables ==
    /\ DurableTypeOK
    /\ OpenJournalMatchesActive /\ JournalMatchesResults /\ RollbackNamesApplied
    /\ TablesConsistent

Supervisor ==
    /\ VolatileTypeOK
    /\ ServedIsCommitted /\ MarkedIsActive
    /\ SwitchConsistent /\ RuntimeConsistent

\* Zero is the absent revision; the others are comparable positive numbers.
LEMMA RevFacts ==
    /\ Revs \subseteq Revs0 /\ Revs0 \subseteq Nat /\ 0 \in Revs0 /\ 0 \notin Revs
    /\ \A r \in Revs0 : r # 0 => r \in Revs
    /\ Gated \subseteq Revs
  BY MaxRevAssumption, ConstantsAssumption DEF Revs, Revs0

-----------------------------------------------------------------------------
(* Durable transactions *)

\* A step that writes nothing keeps the tables consistent.
LEMMA TablesUnchanged == Tables /\ UNCHANGED durable => Tables'
  BY DEF Tables, DurableTypeOK, OpenJournalMatchesActive, JournalMatchesResults,
         RollbackNamesApplied, TablesConsistent, Incomplete, Terminal, durable

\* Writing a phase changes one field of one journal row.
LEMMA SetPhaseEffect ==
    ASSUME NEW r \in Revs, NEW p \in Working \cup TerminalPhases, DurableTypeOK,
           SetPhase(r, p)
    PROVE  /\ journal' \in [Revs -> [phase : {"none"} \cup Working \cup TerminalPhases,
                                     prev : Revs0, attempts : Nat]]
           /\ journal'[r].phase = p /\ journal'[r].prev = journal[r].prev
           /\ \A q \in Revs : q # r => journal'[q] = journal[q]
  BY DEF DurableTypeOK, SetPhase

\* finalize_applied on the open journal of the cursor's revision.
LEMMA TablesApplied ==
    ASSUME NEW r \in Revs, Tables, r \in Incomplete, r = cursor, FinalizeApplied(r)
    PROVE  Tables'
  <1> USE RevFacts DEF Incomplete, Terminal
  <1>1. /\ active' = r /\ rows' = [rows EXCEPT ![r] = @ \cup {"applied"}]
        /\ UNCHANGED <<cursor, reported, rollbackTo>>
    BY DEF FinalizeApplied
  <1>2. /\ journal' \in [Revs -> [phase : {"none"} \cup Working \cup TerminalPhases,
                                  prev : Revs0, attempts : Nat]]
        /\ journal'[r].phase = "applied" /\ journal'[r].prev = journal[r].prev
        /\ \A q \in Revs : q # r => journal'[q] = journal[q]
    BY SetPhaseEffect DEF FinalizeApplied, Tables, TerminalPhases
  <1>3. DurableTypeOK'
    BY <1>1, <1>2 DEF Tables, DurableTypeOK, ResultStates
  <1>4. /\ rows'[r] = rows[r] \cup {"applied"}
        /\ \A q \in Revs : q # r => rows'[q] = rows[q]
    BY <1>1 DEF Tables, DurableTypeOK
  <1>5. Incomplete' = {}
    BY <1>2 DEF Tables, OpenJournalMatchesActive, Working
  <1>6. OpenJournalMatchesActive'
    BY <1>5 DEF OpenJournalMatchesActive
  <1>7. JournalMatchesResults'
    BY <1>2, <1>4, <1>5 DEF Tables, JournalMatchesResults, TerminalResults, Working
  <1>8. RollbackNamesApplied'
    BY <1>1, <1>4 DEF Tables, RollbackNamesApplied, DurableTypeOK
  <1>9. TablesConsistent'
    BY <1>1, <1>2, <1>4 DEF Tables, TablesConsistent, DurableTypeOK, Working
  <1> QED BY <1>3, <1>6, <1>7, <1>8, <1>9 DEF Tables

\* finalize_rolled_back on an open journal that has a predecessor.
LEMMA TablesRolledBack ==
    ASSUME NEW r \in Revs, Tables, r \in Incomplete, journal[r].prev # 0,
           FinalizeRolledBack(r)
    PROVE  Tables'
  <1> USE RevFacts DEF Incomplete, Terminal
  <1>1. /\ rows' = [rows EXCEPT ![r] = @ \cup {"rolledBack"}]
        /\ rollbackTo' = [rollbackTo EXCEPT ![r] = journal[r].prev]
        /\ UNCHANGED <<cursor, reported, active>>
    BY DEF FinalizeRolledBack
  <1>2. /\ journal' \in [Revs -> [phase : {"none"} \cup Working \cup TerminalPhases,
                                  prev : Revs0, attempts : Nat]]
        /\ journal'[r].phase = "rolledBack" /\ journal'[r].prev = journal[r].prev
        /\ \A q \in Revs : q # r => journal'[q] = journal[q]
    BY SetPhaseEffect DEF FinalizeRolledBack, Tables, TerminalPhases
  <1>3. DurableTypeOK'
    BY <1>1, <1>2 DEF Tables, DurableTypeOK, ResultStates
  <1>4. /\ rows'[r] = rows[r] \cup {"rolledBack"} /\ rollbackTo'[r] = journal[r].prev
        /\ \A q \in Revs : q # r => rows'[q] = rows[q] /\ rollbackTo'[q] = rollbackTo[q]
    BY <1>1 DEF Tables, DurableTypeOK
  <1>5. Incomplete' = {}
    BY <1>2 DEF Tables, OpenJournalMatchesActive, Working
  <1>6. OpenJournalMatchesActive'
    BY <1>5 DEF OpenJournalMatchesActive
  <1>7. JournalMatchesResults'
    BY <1>2, <1>4, <1>5 DEF Tables, JournalMatchesResults, TerminalResults, Working
  <1>8. /\ journal[r].prev = active /\ journal[r].prev \in Revs /\ journal[r].prev < r
        /\ "applied" \in rows[active]
    BY DEF Tables, OpenJournalMatchesActive, TablesConsistent, DurableTypeOK, Working
  <1>9. RollbackNamesApplied'
    BY <1>4, <1>8 DEF Tables, RollbackNamesApplied, DurableTypeOK
  <1>10. TablesConsistent'
    BY <1>1, <1>2, <1>4 DEF Tables, TablesConsistent, DurableTypeOK, Working,
                            JournalMatchesResults
  <1> QED BY <1>3, <1>6, <1>7, <1>9, <1>10 DEF Tables

\* finalize_rejected on an open journal.
LEMMA TablesRejected ==
    ASSUME NEW r \in Revs, Tables, r \in Incomplete, FinalizeRejected(r)
    PROVE  Tables'
  <1> USE RevFacts DEF Incomplete, Terminal
  <1>1. /\ rows' = [rows EXCEPT ![r] = @ \cup {"rejected"}]
        /\ UNCHANGED <<cursor, reported, rollbackTo, active>>
    BY DEF FinalizeRejected
  <1>2. /\ journal' \in [Revs -> [phase : {"none"} \cup Working \cup TerminalPhases,
                                  prev : Revs0, attempts : Nat]]
        /\ journal'[r].phase = "rejected" /\ journal'[r].prev = journal[r].prev
        /\ \A q \in Revs : q # r => journal'[q] = journal[q]
    BY SetPhaseEffect DEF FinalizeRejected, Tables, TerminalPhases
  <1>3. DurableTypeOK'
    BY <1>1, <1>2 DEF Tables, DurableTypeOK, ResultStates
  <1>4. /\ rows'[r] = rows[r] \cup {"rejected"}
        /\ \A q \in Revs : q # r => rows'[q] = rows[q]
    BY <1>1 DEF Tables, DurableTypeOK
  <1>5. Incomplete' = {}
    BY <1>2 DEF Tables, OpenJournalMatchesActive, Working
  <1>6. OpenJournalMatchesActive'
    BY <1>5 DEF OpenJournalMatchesActive
  <1>7. JournalMatchesResults'
    BY <1>2, <1>4, <1>5 DEF Tables, JournalMatchesResults, TerminalResults, Working
  <1>8. RollbackNamesApplied'
    BY <1>1, <1>4 DEF Tables, RollbackNamesApplied, DurableTypeOK
  <1>9. TablesConsistent'
    BY <1>1, <1>2, <1>4 DEF Tables, TablesConsistent, DurableTypeOK, Working,
                            JournalMatchesResults
  <1> QED BY <1>3, <1>6, <1>7, <1>8, <1>9 DEF Tables

\* A phase update that keeps an open journal open, or requires recovery.
LEMMA TablesPhase ==
    ASSUME NEW r \in Revs, NEW p \in Working \cup {"recoveryRequired"},
           Tables, r \in Incomplete, UpdateJournalPhase(r, p)
    PROVE  /\ Tables'
           /\ p \in Working => Incomplete' = Incomplete
           /\ journal'[r].phase = p /\ journal'[r].prev = journal[r].prev
  <1> USE DEF Incomplete, Terminal
  <1>1. UNCHANGED <<cursor, rows, reported, rollbackTo, active>>
    BY DEF UpdateJournalPhase
  <1>2. /\ journal' \in [Revs -> [phase : {"none"} \cup Working \cup TerminalPhases,
                                  prev : Revs0, attempts : Nat]]
        /\ journal'[r].phase = p /\ journal'[r].prev = journal[r].prev
        /\ \A q \in Revs : q # r => journal'[q] = journal[q]
    BY SetPhaseEffect DEF UpdateJournalPhase, Tables, TerminalPhases
  <1>3. DurableTypeOK'
    BY <1>1, <1>2 DEF Tables, DurableTypeOK
  <1>4. p \in Working => Incomplete' = Incomplete
    BY <1>2
  <1>5. Incomplete' \subseteq Incomplete
    BY <1>2
  <1>6. OpenJournalMatchesActive'
    BY <1>1, <1>2, <1>5 DEF Tables, OpenJournalMatchesActive
  <1>7. JournalMatchesResults'
    BY <1>1, <1>2, <1>5 DEF Tables, JournalMatchesResults, TerminalResults, Working
  <1>8. RollbackNamesApplied'
    BY <1>1 DEF Tables, RollbackNamesApplied
  <1>9. TablesConsistent'
    BY <1>1, <1>2 DEF Tables, TablesConsistent, Working
  <1> QED BY <1>2, <1>3, <1>4, <1>6, <1>7, <1>8, <1>9 DEF Tables

\* mark_recovery_required, whether or not its write succeeds.
LEMMA TablesRecoveryRequired ==
    ASSUME NEW r \in Revs, Tables, r \in Incomplete, MarkRecoveryRequired(r)
    PROVE  Tables'
  <1>1. CASE UpdateJournalPhase(r, "recoveryRequired")
    BY <1>1, TablesPhase
  <1>2. CASE UNCHANGED durable
    BY <1>2, TablesUnchanged
  <1> QED BY <1>1, <1>2 DEF MarkRecoveryRequired

\* begin_activation for the cursor's revision when no other journal is open.
LEMMA TablesAttempt ==
    ASSUME NEW r \in Revs, Tables, r = cursor, Incomplete \subseteq {r},
           "validated" \in rows[r], ~Terminal(r),
           journal[r].phase \in {"none"} \cup Working, WriteAttempt(r)
    PROVE  /\ Tables'
           /\ r \in Incomplete'
  <1> USE RevFacts DEF Incomplete, Terminal
  <1>1. /\ UNCHANGED <<cursor, rows, reported, rollbackTo, active>>
        /\ journal' = [journal EXCEPT ![r] =
             [phase |-> "activating", prev |-> active, attempts |-> @.attempts + 1]]
    BY DEF WriteAttempt
  <1>2. /\ journal'[r].phase = "activating" /\ journal'[r].prev = active
        /\ \A q \in Revs : q # r => journal'[q] = journal[q]
    BY <1>1 DEF Tables, DurableTypeOK
  <1>3. DurableTypeOK'
    BY <1>1 DEF Tables, DurableTypeOK, Working
  <1>4. Incomplete' = {r}
    BY <1>2 DEF Working
  <1>5. OpenJournalMatchesActive'
    BY <1>1, <1>2, <1>4 DEF OpenJournalMatchesActive
  <1>6. JournalMatchesResults'
    BY <1>1, <1>2, <1>4 DEF Tables, JournalMatchesResults, TerminalResults, Working
  <1>7. RollbackNamesApplied'
    BY <1>1 DEF Tables, RollbackNamesApplied
  <1>8. active < r
    BY DEF Tables, TablesConsistent, DurableTypeOK, TerminalResults
  <1>9. TablesConsistent'
    BY <1>1, <1>2, <1>8 DEF Tables, TablesConsistent
  <1> QED BY <1>3, <1>4, <1>5, <1>6, <1>7, <1>9 DEF Tables

-----------------------------------------------------------------------------
(* Synchronization's writes *)

\* persist_verified_desired_state adds the first result of a revision beyond the cursor.
LEMMA TablesReceived ==
    ASSUME NEW r \in Revs, Tables, ReceiveDesired(r)
    PROVE  Tables'
  <1> USE RevFacts DEF Incomplete, Terminal
  <1>1. /\ cursor' = r /\ r > cursor /\ rows' = [rows EXCEPT ![r] = @ \cup {"received"}]
        /\ UNCHANGED <<reported, rollbackTo, active, journal>>
    BY DEF ReceiveDesired, SyncFrame
  <1>2. /\ rows'[r] = {"received"} /\ rows[r] = {}
        /\ \A q \in Revs : q # r => rows'[q] = rows[q]
    BY <1>1 DEF Tables, DurableTypeOK, TablesConsistent
  <1>3. DurableTypeOK'
    BY <1>1 DEF Tables, DurableTypeOK, ResultStates
  <1>4. OpenJournalMatchesActive'
    BY <1>1 DEF Tables, OpenJournalMatchesActive
  <1>5. JournalMatchesResults'
    BY <1>1, <1>2 DEF Tables, JournalMatchesResults, TerminalResults
  <1>6. RollbackNamesApplied'
    BY <1>1, <1>2 DEF Tables, RollbackNamesApplied, DurableTypeOK
  <1>7. TablesConsistent'
    BY <1>1, <1>2 DEF Tables, TablesConsistent, DurableTypeOK
  <1> QED BY <1>3, <1>4, <1>5, <1>6, <1>7 DEF Tables

\* validate_desired_state adds the second result of the cursor's revision.
LEMMA TablesValidated ==
    ASSUME NEW s \in {"validated", "rejected"}, Tables, ValidateDesired(s)
    PROVE  Tables'
  <1> USE RevFacts DEF Incomplete, Terminal
  <1> DEFINE r == cursor
  <1>1. /\ r \in Revs /\ rows[r] = {"received"} /\ rows' = [rows EXCEPT ![r] = @ \cup {s}]
        /\ UNCHANGED <<cursor, reported, rollbackTo, active, journal>>
    BY DEF ValidateDesired, SyncFrame, Tables, DurableTypeOK
  <1>2. /\ rows'[r] = {"received", s}
        /\ \A q \in Revs : q # r => rows'[q] = rows[q]
    BY <1>1 DEF Tables, DurableTypeOK
  <1>3. DurableTypeOK'
    BY <1>1 DEF Tables, DurableTypeOK, ResultStates
  <1>4. OpenJournalMatchesActive'
    BY <1>1 DEF Tables, OpenJournalMatchesActive
  <1>5. JournalMatchesResults'
    BY <1>1, <1>2 DEF Tables, JournalMatchesResults, TerminalResults
  <1>6. RollbackNamesApplied'
    BY <1>1, <1>2 DEF Tables, RollbackNamesApplied, DurableTypeOK
  <1>7. TablesConsistent'
    BY <1>1, <1>2 DEF Tables, TablesConsistent, DurableTypeOK
  <1> QED BY <1>3, <1>4, <1>5, <1>6, <1>7 DEF Tables

\* Setting reported_at touches nothing the tables' consistency speaks of.
LEMMA TablesReported ==
    ASSUME NEW r \in Revs, NEW s \in ResultStates, Tables, ReportResult(r, s)
    PROVE  Tables'
  <1>1. /\ reported' = [reported EXCEPT ![r] = @ \cup {s}]
        /\ UNCHANGED <<cursor, rows, rollbackTo, active, journal>>
    BY DEF ReportResult, SyncFrame
  <1>2. DurableTypeOK'
    BY <1>1 DEF Tables, DurableTypeOK
  <1> QED BY <1>1, <1>2 DEF Tables, OpenJournalMatchesActive, JournalMatchesResults,
            RollbackNamesApplied, TablesConsistent, Incomplete, Terminal

-----------------------------------------------------------------------------
(* The runtime *)

\* The runtime a call leaves behind serves nothing, or exactly revision p.
Serves(p) ==
    /\ child' \in Revs0 /\ alive' \in BOOLEAN
    /\ gate' \in {0, p} /\ marked' \in {0, p}

\* stop_runtime leaves no gate and no marker, whether it succeeds or fails.
LEMMA StopServesNothing ==
    ASSUME VolatileTypeOK, StopOk \/ StopFails
    PROVE  Serves(0)
  BY RevFacts DEF VolatileTypeOK, RuntimeTypeOK, StopOk, StopFails, Serves

\* start_proven_candidate leaves nothing or exactly its own revision serving.
LEMMA StartServes ==
    ASSUME NEW r \in Revs, Started(r) \/ StartFails(r)
    PROVE  Serves(r)
  BY RevFacts DEF Started, StartFails, GateOf, Serves

\* ensure_active_running leaves nothing or exactly the active revision serving.
LEMMA EnsureServesActive ==
    ASSUME VolatileTypeOK, active \in Revs0, gate \in {0, active}, marked \in {0, active},
           EnsureActiveRunning \/ EnsureActiveRunningFails
    PROVE  Serves(active)
  <1>1. CASE StopOk \/ StopFails
    BY <1>1, StopServesNothing DEF Serves
  <1>2. CASE active # 0 /\ (Started(active) \/ StartFails(active))
    BY <1>2, StartServes, RevFacts
  <1>3. CASE UNCHANGED runtime
    BY <1>3 DEF VolatileTypeOK, RuntimeTypeOK, runtime, Serves
  <1> QED BY <1>1, <1>2, <1>3 DEF EnsureActiveRunning, EnsureActiveRunningFails

\* Restoring a predecessor leaves nothing or exactly that predecessor serving.
LEMMA RestoreServes ==
    ASSUME NEW p \in Revs0, VolatileTypeOK, Restored(p) \/ RestoreFails(p)
    PROVE  Serves(p)
  <1>1. CASE StopOk \/ StopFails
    BY <1>1, StopServesNothing DEF Serves
  <1>2. CASE p # 0 /\ (Started(p) \/ StartFails(p))
    BY <1>2, StartServes, RevFacts
  <1> QED BY <1>1, <1>2 DEF Restored, RestoreFails

-----------------------------------------------------------------------------
(* The supervisor *)

\* Where reconcile is not switching, the runtime serves nothing or the active revision.
LEMMA CalmRuntime ==
    ASSUME Supervisor, pc \notin {"commit", "failing"}
    PROVE  gate \in {0, active} /\ marked \in {0, active}
  BY DEF Supervisor, ServedIsCommitted, MarkedIsActive

\* A step that ends outside a switch with such a runtime needs nothing else.
LEMMA SettledSupervisor ==
    ASSUME active' \in Revs0, Serves(active'),
           PositionTypeOK', pc' \notin Switching \cup {"begin"}
    PROVE  Supervisor'
  <1>1. VolatileTypeOK'
    BY RevFacts DEF VolatileTypeOK, RuntimeTypeOK, Serves
  <1> QED BY <1>1 DEF Serves, Supervisor, ServedIsCommitted, MarkedIsActive, SwitchConsistent,
         RuntimeConsistent, Switching

\* The revision under switch is a revision, its journal is the open one, and its
\* predecessor is the active revision.
LEMMA UnderSwitch ==
    ASSUME Tables, Supervisor, pc \in Switching
    PROVE  /\ cand \in Revs /\ cand \in Incomplete /\ cand = cursor
           /\ journal[cand].prev = active /\ active \in Revs0
           /\ \A r \in Incomplete : r = cand
  BY DEF Tables, DurableTypeOK, OpenJournalMatchesActive, Supervisor, SwitchConsistent,
         Incomplete

\* ActivationInv is the conjunction of the two halves.
LEMMA InvHalves == ActivationInv <=> Tables /\ Supervisor
  BY DEF ActivationInv, Tables, Supervisor, TypeOK, DurableTypeOK, VolatileTypeOK,
         PositionTypeOK, RuntimeTypeOK

-----------------------------------------------------------------------------
(* Every action preserves both halves *)

\* Steps at service start, in the cycle and between reconcile's calls.
LEMMA CycleStep ==
    ASSUME Tables, Supervisor,
           \/ StartPaused \/ RecoverClean
           \/ \E j \in Revs : RecoverRollback(j) \/ RecoverUnstarted(j) \/ RecoverGivesUp(j)
           \/ RecoverAborts \/ PollRuntime \/ BeginPausedCycle \/ BeginCycle \/ CycleFails
           \/ CheckPolicy \/ ResumeAfterSync \/ PolicyStepFails
           \/ ReconcileNothing \/ ReconcileFails
           \/ Crash \/ SyncDone \/ SyncFails
    PROVE  Tables' /\ Supervisor'
  <1> USE RevFacts DEF Goto, Return, EndCycle, Fault, durable, runtime
  <1>0. active \in Revs0 /\ VolatileTypeOK
    BY DEF Tables, DurableTypeOK, Supervisor
  <1>1. CASE StartPaused
    <2>1. Tables'
      BY <1>1, TablesUnchanged DEF StartPaused
    <2>2. active' = active /\ Serves(active)
      BY <1>1, <1>0, CalmRuntime DEF StartPaused, VolatileTypeOK, RuntimeTypeOK, Serves
    <2>3. PositionTypeOK' /\ pc' \notin Switching \cup {"begin"}
      BY <1>1, <1>0 DEF VolatileTypeOK, PositionTypeOK, Locations, Switching, StartPaused
    <2> QED BY <1>0, <2>1, <2>2, <2>3, SettledSupervisor
  <1>2. CASE RecoverClean
    <2>1. Tables'
      BY <1>2, TablesUnchanged DEF RecoverClean
    <2>2. active' = active /\ Serves(active)
      BY <1>2, <1>0, CalmRuntime, EnsureServesActive DEF RecoverClean, Serves
    <2>3. PositionTypeOK' /\ pc' \notin Switching \cup {"begin"}
      BY <1>2, <1>0 DEF VolatileTypeOK, PositionTypeOK, Locations, Switching, RecoverClean
    <2> QED BY <1>0, <2>1, <2>2, <2>3, SettledSupervisor
  <1>3. CASE RecoverAborts
    <2>1. Tables'
      BY <1>3, TablesUnchanged DEF RecoverAborts
    <2>2. active' = active /\ Serves(active)
      BY <1>3, <1>0, CalmRuntime DEF RecoverAborts, VolatileTypeOK, RuntimeTypeOK, Serves
    <2>3. PositionTypeOK' /\ pc' \notin Switching \cup {"begin"}
      BY <1>3, <1>0 DEF VolatileTypeOK, PositionTypeOK, Locations, Switching, RecoverAborts
    <2> QED BY <1>0, <2>1, <2>2, <2>3, SettledSupervisor
  <1>4. CASE PollRuntime
    <2>1. Tables'
      BY <1>4, TablesUnchanged DEF PollRuntime
    <2>2. active' = active /\ Serves(active)
      BY <1>4, <1>0, StartServes DEF PollRuntime, Serves
    <2>3. PositionTypeOK' /\ pc' \notin Switching \cup {"begin"}
      BY <1>4, <1>0 DEF VolatileTypeOK, PositionTypeOK, Locations, Switching, PollRuntime
    <2> QED BY <1>0, <2>1, <2>2, <2>3, SettledSupervisor
  <1>5. CASE BeginPausedCycle
    <2>1. Tables'
      BY <1>5, TablesUnchanged DEF BeginPausedCycle
    <2>2. active' = active /\ Serves(active)
      BY <1>5, <1>0, StopServesNothing DEF BeginPausedCycle, Serves
    <2>3. PositionTypeOK' /\ pc' \notin Switching \cup {"begin"}
      BY <1>5, <1>0 DEF VolatileTypeOK, PositionTypeOK, Locations, Switching, BeginPausedCycle
    <2> QED BY <1>0, <2>1, <2>2, <2>3, SettledSupervisor
  <1>6. CASE BeginCycle
    <2>1. Tables'
      BY <1>6, TablesUnchanged DEF BeginCycle
    <2>2. active' = active /\ Serves(active)
      BY <1>6, <1>0, CalmRuntime, EnsureServesActive DEF BeginCycle, Serves
    <2>3. PositionTypeOK' /\ pc' \notin Switching \cup {"begin"}
      BY <1>6, <1>0 DEF VolatileTypeOK, PositionTypeOK, Locations, Switching, BeginCycle
    <2> QED BY <1>0, <2>1, <2>2, <2>3, SettledSupervisor
  <1>7. CASE CycleFails
    <2>1. Tables'
      BY <1>7, TablesUnchanged DEF CycleFails
    <2>2. active' = active /\ Serves(active)
      BY <1>7, <1>0, CalmRuntime, EnsureServesActive, StopServesNothing DEF CycleFails, Serves
    <2>3. PositionTypeOK' /\ pc' \notin Switching \cup {"begin"}
      BY <1>7, <1>0 DEF VolatileTypeOK, PositionTypeOK, Locations, Switching, CycleFails
    <2> QED BY <1>0, <2>1, <2>2, <2>3, SettledSupervisor
  <1>8. CASE CheckPolicy
    <2>1. Tables'
      BY <1>8, TablesUnchanged DEF CheckPolicy
    <2>2. active' = active /\ Serves(active)
      BY <1>8, <1>0, CalmRuntime, StopServesNothing DEF CheckPolicy, Serves, VolatileTypeOK,
             RuntimeTypeOK
    <2>3. PositionTypeOK' /\ pc' \notin Switching \cup {"begin"}
      BY <1>8, <1>0 DEF VolatileTypeOK, PositionTypeOK, Locations, Switching, CheckPolicy
    <2> QED BY <1>0, <2>1, <2>2, <2>3, SettledSupervisor
  <1>9. CASE ResumeAfterSync
    <2>1. Tables'
      BY <1>9, TablesUnchanged DEF ResumeAfterSync
    <2>2. active' = active /\ Serves(active)
      BY <1>9, <1>0, CalmRuntime, StopServesNothing DEF ResumeAfterSync, Serves, VolatileTypeOK,
             RuntimeTypeOK
    <2>3. PositionTypeOK' /\ pc' \notin Switching \cup {"begin"}
      BY <1>9, <1>0 DEF VolatileTypeOK, PositionTypeOK, Locations, Switching, ResumeAfterSync
    <2> QED BY <1>0, <2>1, <2>2, <2>3, SettledSupervisor
  <1>10. CASE PolicyStepFails
    <2>1. Tables'
      BY <1>10, TablesUnchanged DEF PolicyStepFails
    <2>2. active' = active /\ Serves(active)
      BY <1>10, <1>0, CalmRuntime, StopServesNothing DEF PolicyStepFails, Serves, VolatileTypeOK,
             RuntimeTypeOK
    <2>3. PositionTypeOK' /\ pc' \notin Switching \cup {"begin"}
      BY <1>10, <1>0 DEF VolatileTypeOK, PositionTypeOK, Locations, Switching, PolicyStepFails
    <2> QED BY <1>0, <2>1, <2>2, <2>3, SettledSupervisor
  <1>11. CASE ReconcileNothing
    <2>1. Tables'
      BY <1>11, TablesUnchanged DEF ReconcileNothing
    <2>2. active' = active /\ Serves(active)
      BY <1>11, <1>0, CalmRuntime, EnsureServesActive DEF ReconcileNothing, Serves
    <2>3. PositionTypeOK' /\ pc' \notin Switching \cup {"begin"}
      BY <1>11, <1>0 DEF VolatileTypeOK, PositionTypeOK, Locations, Switching, ReconcileNothing
    <2> QED BY <1>0, <2>1, <2>2, <2>3, SettledSupervisor
  <1>12. CASE ReconcileFails
    <2>1. Tables'
      BY <1>12, TablesUnchanged DEF ReconcileFails
    <2>2. active' = active /\ Serves(active)
      BY <1>12, <1>0, CalmRuntime, EnsureServesActive DEF ReconcileFails, Serves
    <2>3. PositionTypeOK' /\ pc' \notin Switching \cup {"begin"}
      BY <1>12, <1>0 DEF VolatileTypeOK, PositionTypeOK, Locations, Switching, ReconcileFails
    <2> QED BY <1>0, <2>1, <2>2, <2>3, SettledSupervisor
  <1>13. CASE Crash
    <2>1. Tables'
      BY <1>13, TablesUnchanged DEF Crash
    <2>2. active' = active /\ Serves(active)
      BY <1>13, <1>0, StopServesNothing DEF Crash, Serves
    <2>3. PositionTypeOK' /\ pc' \notin Switching \cup {"begin"}
      BY <1>13, <1>0 DEF VolatileTypeOK, PositionTypeOK, Locations, Switching, Crash
    <2> QED BY <1>0, <2>1, <2>2, <2>3, SettledSupervisor
  <1>14. CASE SyncDone
    <2>1. Tables'
      BY <1>14, TablesUnchanged DEF SyncDone
    <2>2. active' = active /\ Serves(active)
      BY <1>14, <1>0, CalmRuntime DEF SyncDone, VolatileTypeOK, RuntimeTypeOK, Serves
    <2>3. PositionTypeOK' /\ pc' \notin Switching \cup {"begin"}
      BY <1>14, <1>0 DEF VolatileTypeOK, PositionTypeOK, Locations, Switching, SyncDone
    <2> QED BY <1>0, <2>1, <2>2, <2>3, SettledSupervisor
  <1>15. CASE SyncFails
    <2>1. Tables'
      BY <1>15, TablesUnchanged DEF SyncFails
    <2>2. active' = active /\ Serves(active)
      BY <1>15, <1>0, CalmRuntime DEF SyncFails, VolatileTypeOK, RuntimeTypeOK, Serves
    <2>3. PositionTypeOK' /\ pc' \notin Switching \cup {"begin"}
      BY <1>15, <1>0 DEF VolatileTypeOK, PositionTypeOK, Locations, Switching, SyncFails
    <2> QED BY <1>0, <2>1, <2>2, <2>3, SettledSupervisor
  <1>16. CASE \E j \in Revs : RecoverRollback(j) \/ RecoverUnstarted(j) \/ RecoverGivesUp(j)
    <2> PICK j \in Revs : RecoverRollback(j) \/ RecoverUnstarted(j) \/ RecoverGivesUp(j)
      BY <1>16
    <2>1. CASE RecoverRollback(j)
      <3>1. Tables' /\ active' = active
        BY <2>1, TablesRolledBack DEF RecoverRollback, FinalizeRolledBack
      <3>2. Serves(active)
        BY <2>1, <1>0, CalmRuntime, EnsureServesActive DEF RecoverRollback
      <3>3. PositionTypeOK' /\ pc' \notin Switching \cup {"begin"}
        BY <2>1, <1>0 DEF VolatileTypeOK, PositionTypeOK, Locations, Switching, RecoverRollback
      <3> QED BY <1>0, <3>1, <3>2, <3>3, SettledSupervisor
    <2>2. CASE RecoverUnstarted(j)
      <3>1. Tables' /\ active' = active
        BY <2>2, TablesRejected, TablesPhase
           DEF RecoverUnstarted, FinalizeRejected, UpdateJournalPhase, Working
      <3>2. Serves(active)
        BY <2>2, <1>0, CalmRuntime, EnsureServesActive DEF RecoverUnstarted
      <3>3. PositionTypeOK' /\ pc' \notin Switching \cup {"begin"}
        BY <2>2, <1>0 DEF VolatileTypeOK, PositionTypeOK, Locations, Switching, RecoverUnstarted
      <3> QED BY <1>0, <3>1, <3>2, <3>3, SettledSupervisor
    <2>3. CASE RecoverGivesUp(j)
      <3>1. Tables' /\ active' = active
        BY <2>3, TablesPhase DEF RecoverGivesUp, UpdateJournalPhase
      <3>2. Serves(active)
        BY <2>3, <1>0, CalmRuntime DEF RecoverGivesUp, Serves, VolatileTypeOK, RuntimeTypeOK
      <3>3. PositionTypeOK' /\ pc' \notin Switching \cup {"begin"}
        BY <2>3, <1>0 DEF VolatileTypeOK, PositionTypeOK, Switching, RecoverGivesUp
      <3> QED BY <1>0, <3>1, <3>2, <3>3, SettledSupervisor
    <2> QED BY <2>1, <2>2, <2>3
  <1> QED BY <1>1, <1>2, <1>3, <1>4, <1>5, <1>6, <1>7, <1>8, <1>9, <1>10, <1>11, <1>12, <1>13, <1>14, <1>15, <1>16

\* Steps that end a switch: refused, failed, committed, rolled back or rejected.
LEMMA EndSwitchStep ==
    ASSUME Tables, Supervisor,
           \/ BeginRefused \/ BeginFails \/ SwitchStopFails \/ JournalStabilizingFails
           \/ Commit \/ CommitUnconfirmed \/ CommitFails \/ RestorePredecessorFails
           \/ RejectCandidate \/ ScheduleRetry \/ FailureUnrecorded
           \/ FinishRollback \/ FinishRollbackFails
    PROVE  Tables' /\ Supervisor'
  <1> USE RevFacts DEF Goto, Return, EndCycle, Fault, durable, runtime
  <1>0. active \in Revs0 /\ VolatileTypeOK
    BY DEF Tables, DurableTypeOK, Supervisor
  <1>a. pc \in Switching =>
          /\ cand \in Revs /\ cand \in Incomplete /\ cand = cursor
          /\ journal[cand].prev = active
    BY UnderSwitch
  <1>1. CASE BeginRefused
    <2>1. Tables' /\ active' = active
      BY <1>1, TablesUnchanged DEF BeginRefused
    <2>2. Serves(active)
      BY <1>1, <1>0, CalmRuntime DEF BeginRefused, VolatileTypeOK, RuntimeTypeOK, Serves
    <2>3. PositionTypeOK' /\ pc' \notin Switching \cup {"begin"}
      BY <1>1, <1>0 DEF VolatileTypeOK, PositionTypeOK, Locations, Switching, BeginRefused
    <2> QED BY <1>0, <2>1, <2>2, <2>3, SettledSupervisor
  <1>2. CASE BeginFails
    <2>1. Tables' /\ active' = active
      BY <1>2, TablesUnchanged DEF BeginFails
    <2>2. Serves(active)
      BY <1>2, <1>0, CalmRuntime DEF BeginFails, VolatileTypeOK, RuntimeTypeOK, Serves
    <2>3. PositionTypeOK' /\ pc' \notin Switching \cup {"begin"}
      BY <1>2, <1>0 DEF VolatileTypeOK, PositionTypeOK, Locations, Switching, BeginFails
    <2> QED BY <1>0, <2>1, <2>2, <2>3, SettledSupervisor
  <1>3. CASE SwitchStopFails
    <2>1. Tables' /\ active' = active
      BY <1>3, <1>a, TablesUnchanged, TablesRecoveryRequired
         DEF SwitchStopFails, Switching, MarkRecoveryRequired, UpdateJournalPhase
    <2>2. Serves(active)
      BY <1>3, <1>0, StopServesNothing DEF SwitchStopFails, Serves
    <2>3. PositionTypeOK' /\ pc' \notin Switching \cup {"begin"}
      BY <1>3, <1>0 DEF VolatileTypeOK, PositionTypeOK, Locations, Switching, SwitchStopFails
    <2> QED BY <1>0, <2>1, <2>2, <2>3, SettledSupervisor
  <1>4. CASE JournalStabilizingFails
    <2>1. Tables' /\ active' = active
      BY <1>4, <1>a, TablesUnchanged, TablesRecoveryRequired
         DEF JournalStabilizingFails, Switching, MarkRecoveryRequired, UpdateJournalPhase
    <2>2. Serves(active)
      BY <1>4, <1>0, <1>a, RestoreServes, StopServesNothing DEF JournalStabilizingFails, Switching, Serves
    <2>3. PositionTypeOK' /\ pc' \notin Switching \cup {"begin"}
      BY <1>4, <1>0 DEF VolatileTypeOK, PositionTypeOK, Locations, Switching, JournalStabilizingFails
    <2> QED BY <1>0, <2>1, <2>2, <2>3, SettledSupervisor
  <1>5. CASE CommitFails
    <2>1. Tables' /\ active' = active
      BY <1>5, <1>a, TablesUnchanged, TablesRecoveryRequired
         DEF CommitFails, Switching, MarkRecoveryRequired, UpdateJournalPhase
    <2>2. Serves(active)
      BY <1>5, <1>0, <1>a, RestoreServes, StopServesNothing DEF CommitFails, Switching, Serves
    <2>3. PositionTypeOK' /\ pc' \notin Switching \cup {"begin"}
      BY <1>5, <1>0 DEF VolatileTypeOK, PositionTypeOK, Locations, Switching, CommitFails
    <2> QED BY <1>0, <2>1, <2>2, <2>3, SettledSupervisor
  <1>6. CASE RestorePredecessorFails
    <2>1. Tables' /\ active' = active
      BY <1>6, <1>a, TablesUnchanged, TablesRecoveryRequired
         DEF RestorePredecessorFails, Switching, MarkRecoveryRequired, UpdateJournalPhase
    <2>2. Serves(active)
      BY <1>6, <1>0, <1>a, RestoreServes, StopServesNothing DEF RestorePredecessorFails, Switching, Serves
    <2>3. PositionTypeOK' /\ pc' \notin Switching \cup {"begin"}
      BY <1>6, <1>0 DEF VolatileTypeOK, PositionTypeOK, Locations, Switching, RestorePredecessorFails
    <2> QED BY <1>0, <2>1, <2>2, <2>3, SettledSupervisor
  <1>7. CASE RejectCandidate
    <2>1. Tables' /\ active' = active
      BY <1>7, <1>a, TablesRejected DEF RejectCandidate, Switching, FinalizeRejected
    <2>2. Serves(active)
      BY <1>7, <1>0, StopServesNothing DEF RejectCandidate, Serves
    <2>3. PositionTypeOK' /\ pc' \notin Switching \cup {"begin"}
      BY <1>7, <1>0 DEF VolatileTypeOK, PositionTypeOK, Locations, Switching, RejectCandidate
    <2> QED BY <1>0, <2>1, <2>2, <2>3, SettledSupervisor
  <1>8. CASE ScheduleRetry
    <2>1. Tables' /\ active' = active
      BY <1>8, <1>a, TablesPhase DEF ScheduleRetry, Switching, Working, UpdateJournalPhase
    <2>2. Serves(active)
      BY <1>8, <1>0, StopServesNothing DEF ScheduleRetry, Serves
    <2>3. PositionTypeOK' /\ pc' \notin Switching \cup {"begin"}
      BY <1>8, <1>0 DEF VolatileTypeOK, PositionTypeOK, Locations, Switching, ScheduleRetry
    <2> QED BY <1>0, <2>1, <2>2, <2>3, SettledSupervisor
  <1>9. CASE FailureUnrecorded
    <2>1. Tables' /\ active' = active
      BY <1>9, TablesUnchanged DEF FailureUnrecorded
    <2>2. Serves(active)
      BY <1>9, <1>0, <1>a, RestoreServes, StopServesNothing DEF FailureUnrecorded, Switching, Serves
    <2>3. PositionTypeOK' /\ pc' \notin Switching \cup {"begin"}
      BY <1>9, <1>0 DEF VolatileTypeOK, PositionTypeOK, Locations, Switching, FailureUnrecorded
    <2> QED BY <1>0, <2>1, <2>2, <2>3, SettledSupervisor
  <1>10. CASE FinishRollback
    <2>1. Tables' /\ active' = active
      BY <1>10, <1>a, TablesUnchanged, TablesRolledBack
         DEF FinishRollback, Switching, FinalizeRolledBack, Supervisor, SwitchConsistent
    <2>2. Serves(active)
      BY <1>10, <1>0, CalmRuntime DEF FinishRollback, VolatileTypeOK, RuntimeTypeOK, Serves
    <2>3. PositionTypeOK' /\ pc' \notin Switching \cup {"begin"}
      BY <1>10, <1>0 DEF VolatileTypeOK, PositionTypeOK, Locations, Switching, FinishRollback
    <2> QED BY <1>0, <2>1, <2>2, <2>3, SettledSupervisor
  <1>11. CASE FinishRollbackFails
    <2>1. Tables' /\ active' = active
      BY <1>11, <1>a, TablesUnchanged, TablesRolledBack
         DEF FinishRollbackFails, Switching, FinalizeRolledBack, Supervisor, SwitchConsistent
    <2>2. Serves(active)
      BY <1>11, <1>0, CalmRuntime DEF FinishRollbackFails, VolatileTypeOK, RuntimeTypeOK, Serves
    <2>3. PositionTypeOK' /\ pc' \notin Switching \cup {"begin"}
      BY <1>11, <1>0 DEF VolatileTypeOK, PositionTypeOK, Locations, Switching, FinishRollbackFails
    <2> QED BY <1>0, <2>1, <2>2, <2>3, SettledSupervisor
  <1>12. CASE Commit \/ CommitUnconfirmed
    <2>1. Tables' /\ active' = cand /\ cand \in Revs
      BY <1>12, <1>a, TablesApplied DEF Commit, CommitUnconfirmed, Switching, FinalizeApplied
    <2>2. Serves(cand)
      BY <1>12, <1>0 DEF Commit, CommitUnconfirmed, VolatileTypeOK, RuntimeTypeOK, Serves,
                        Supervisor, RuntimeConsistent
    <2>3. PositionTypeOK' /\ pc' \notin Switching \cup {"begin"}
      BY <1>12, <1>0 DEF VolatileTypeOK, PositionTypeOK, Locations, Switching, Commit,
                        CommitUnconfirmed
    <2> QED BY <1>0, <2>1, <2>2, <2>3, SettledSupervisor
  <1> QED BY <1>1, <1>2, <1>3, <1>4, <1>5, <1>6, <1>7, <1>8, <1>9, <1>10, <1>11, <1>12

\* Steps that open a switch or carry it on.
LEMMA SwitchStep ==
    ASSUME Tables, Supervisor,
           \/ ReconcilePending \/ BeginActivation \/ SwitchRuntime \/ SpawnFails
           \/ JournalStabilizing \/ ProveHealthy \/ ProveFindsExit \/ ProveFails
           \/ RestorePredecessor
    PROVE  Tables' /\ Supervisor'
  <1> USE RevFacts DEF Goto, Fault, durable, runtime
  <1>0. active \in Revs0 /\ VolatileTypeOK
    BY DEF Tables, DurableTypeOK, Supervisor
  <1>a. pc \in Switching =>
          /\ cand \in Revs /\ cand \in Incomplete /\ cand = cursor
          /\ journal[cand].prev = active
    BY UnderSwitch
  <1>1. CASE ReconcilePending
    <2>1. /\ Pending \in Revs /\ Pending = cursor /\ "validated" \in rows[Pending]
          /\ ~Terminal(Pending) /\ "validated" \in reported[Pending]
      BY <1>1 DEF ReconcilePending, Pending, Tables, DurableTypeOK
    <2>2. /\ Tables' /\ UNCHANGED <<active, cursor, reported>>
          /\ Incomplete' \subseteq {Pending} /\ rows'[Pending] = rows[Pending]
      <3>1. CASE Incomplete \subseteq {Pending} /\ UNCHANGED durable
        BY <3>1, TablesUnchanged DEF Incomplete
      <3>2. ASSUME NEW j \in Revs \ {Pending}, Incomplete = {j},
                   IF journal[j].prev = 0 THEN FinalizeRejected(j)
                   ELSE active = journal[j].prev /\ FinalizeRolledBack(j)
            PROVE  /\ Tables' /\ UNCHANGED <<active, cursor, reported>>
                   /\ Incomplete' \subseteq {Pending} /\ rows'[Pending] = rows[Pending]
        <4>1. Tables' /\ UNCHANGED <<active, cursor, reported>>
          BY <3>2, TablesRejected, TablesRolledBack DEF FinalizeRejected, FinalizeRolledBack
        <4>2. \E p \in {"rejected", "rolledBack"} : SetPhase(j, p)
          BY <3>2 DEF FinalizeRejected, FinalizeRolledBack
        <4>3. /\ journal'[j].phase \notin Working
              /\ \A q \in Revs : q # j => journal'[q] = journal[q]
          BY <4>2, SetPhaseEffect DEF Tables, TerminalPhases, Working
        <4>4. Incomplete' = {}
          BY <3>2, <4>3 DEF Incomplete
        <4>5. rows'[Pending] = rows[Pending]
          <5>1. \E x \in {"rejected", "rolledBack"} : rows' = [rows EXCEPT ![j] = @ \cup {x}]
            BY <3>2 DEF FinalizeRejected, FinalizeRolledBack
          <5> QED BY <5>1, <2>1 DEF Tables, DurableTypeOK
        <4> QED BY <4>1, <4>4, <4>5
      <3> QED BY <1>1, <3>1, <3>2 DEF ReconcilePending
    <2>3. Serves(active)
      BY <1>1, <1>0, CalmRuntime, EnsureServesActive DEF ReconcilePending
    <2>4. pc' = "begin" /\ cand' = Pending /\ UNCHANGED <<ret, paused, faults>>
      BY <1>1 DEF ReconcilePending
    <2>5. VolatileTypeOK'
      BY <1>0, <2>1, <2>3, <2>4
         DEF VolatileTypeOK, PositionTypeOK, RuntimeTypeOK, Serves, Locations
    <2>6. SwitchConsistent'
      BY <2>2, <2>1, <2>4 DEF SwitchConsistent, Switching, Eligible, Terminal, TerminalResults
    <2>7. ServedIsCommitted' /\ MarkedIsActive' /\ RuntimeConsistent'
      BY <2>2, <2>3, <2>4 DEF ServedIsCommitted, MarkedIsActive, RuntimeConsistent, Serves
    <2> QED BY <2>2, <2>5, <2>6, <2>7 DEF Supervisor
  <1>2. CASE BeginActivation
    <2>1. /\ Tables' /\ UNCHANGED <<active, cursor, reported, cand, ret, paused>>
          /\ pc' = "switch" /\ cand \in Incomplete' /\ cand \in Revs
          /\ "validated" \in reported[cand] /\ cand = cursor
      <3>1. /\ cand \in Revs /\ cand = cursor /\ "validated" \in reported[cand]
            /\ Incomplete \subseteq {cand} /\ ~Terminal(cand) /\ "validated" \in rows[cand]
        BY <1>2, <1>0 DEF BeginActivation, Supervisor, SwitchConsistent, Eligible, VolatileTypeOK, PositionTypeOK
      <3>2. Tables' /\ cand \in Incomplete'
        BY <1>2, <3>1, TablesAttempt DEF BeginActivation
      <3> QED BY <1>2, <3>1, <3>2 DEF BeginActivation, WriteAttempt
    <2>2. /\ gate' \in {0, active} /\ marked' \in {0, active}
          /\ child' \in Revs0 /\ alive' \in BOOLEAN
      BY <1>2, <1>0, CalmRuntime DEF BeginActivation, VolatileTypeOK, RuntimeTypeOK
    <2>3. VolatileTypeOK'
      BY <1>2, <1>0, <2>1, <2>2
         DEF BeginActivation, VolatileTypeOK, PositionTypeOK, RuntimeTypeOK, Locations
    <2>4. ServedIsCommitted' /\ MarkedIsActive' /\ RuntimeConsistent'
      BY <2>1, <2>2 DEF ServedIsCommitted, MarkedIsActive, RuntimeConsistent
    <2>5. SwitchConsistent'
      BY <1>2, <1>0, <1>a, <2>1 DEF BeginActivation, SwitchConsistent, Switching
    <2> QED BY <2>1, <2>3, <2>4, <2>5 DEF Supervisor
  <1>3. CASE SwitchRuntime
    <2>1. /\ Tables' /\ UNCHANGED <<active, cursor, reported, cand, ret, paused>>
          /\ pc' = "journal" /\ cand \in Incomplete' /\ cand \in Revs
          /\ "validated" \in reported[cand] /\ cand = cursor
      BY <1>3, <1>a, TablesUnchanged
         DEF SwitchRuntime, Switching, Supervisor, SwitchConsistent, Incomplete
    <2>2. /\ gate' = 0 /\ marked' = 0 /\ child' = cand
          /\ child' \in Revs0 /\ alive' \in BOOLEAN
      BY <1>3, <2>1 DEF SwitchRuntime
    <2>3. VolatileTypeOK'
      BY <1>3, <1>0, <2>1, <2>2
         DEF SwitchRuntime, VolatileTypeOK, PositionTypeOK, RuntimeTypeOK, Locations
    <2>4. ServedIsCommitted' /\ MarkedIsActive' /\ RuntimeConsistent'
      BY <2>1, <2>2 DEF ServedIsCommitted, MarkedIsActive, RuntimeConsistent
    <2>5. SwitchConsistent'
      BY <1>3, <1>0, <1>a, <2>1 DEF SwitchRuntime, SwitchConsistent, Switching
    <2> QED BY <2>1, <2>3, <2>4, <2>5 DEF Supervisor
  <1>4. CASE SpawnFails
    <2>1. /\ Tables' /\ UNCHANGED <<active, cursor, reported, cand, ret, paused>>
          /\ pc' = "failing" /\ cand \in Incomplete' /\ cand \in Revs
          /\ "validated" \in reported[cand] /\ cand = cursor
      BY <1>4, <1>a, TablesUnchanged
         DEF SpawnFails, Switching, Supervisor, SwitchConsistent, Incomplete
    <2>2. /\ gate' = 0 /\ marked' = 0
          /\ child' \in Revs0 /\ alive' \in BOOLEAN
      BY <1>4 DEF SpawnFails, StopOk
    <2>3. VolatileTypeOK'
      BY <1>4, <1>0, <2>1, <2>2
         DEF SpawnFails, VolatileTypeOK, PositionTypeOK, RuntimeTypeOK, Locations
    <2>4. ServedIsCommitted' /\ MarkedIsActive' /\ RuntimeConsistent'
      BY <2>1, <2>2 DEF ServedIsCommitted, MarkedIsActive, RuntimeConsistent
    <2>5. SwitchConsistent'
      BY <1>4, <1>0, <1>a, <2>1 DEF SpawnFails, SwitchConsistent, Switching
    <2> QED BY <2>1, <2>3, <2>4, <2>5 DEF Supervisor
  <1>5. CASE JournalStabilizing
    <2>1. /\ Tables' /\ UNCHANGED <<active, cursor, reported, cand, ret, paused>>
          /\ pc' = "prove" /\ journal'[cand].phase = "stabilizing" /\ cand \in Incomplete' /\ cand \in Revs
          /\ "validated" \in reported[cand] /\ cand = cursor
      BY <1>5, <1>a, TablesPhase
         DEF JournalStabilizing, Switching, UpdateJournalPhase, Working, Supervisor, SwitchConsistent
    <2>2. /\ gate' = 0 /\ marked' = 0 /\ child' = cand
          /\ child' \in Revs0 /\ alive' \in BOOLEAN
      BY <1>5, <1>0 DEF JournalStabilizing, VolatileTypeOK, RuntimeTypeOK, Supervisor,
                        RuntimeConsistent
    <2>3. VolatileTypeOK'
      BY <1>5, <1>0, <2>1, <2>2
         DEF JournalStabilizing, VolatileTypeOK, PositionTypeOK, RuntimeTypeOK, Locations
    <2>4. ServedIsCommitted' /\ MarkedIsActive' /\ RuntimeConsistent'
      BY <2>1, <2>2 DEF ServedIsCommitted, MarkedIsActive, RuntimeConsistent
    <2>5. SwitchConsistent'
      BY <1>5, <1>0, <1>a, <2>1 DEF JournalStabilizing, SwitchConsistent, Switching
    <2> QED BY <2>1, <2>3, <2>4, <2>5 DEF Supervisor
  <1>6. CASE ProveHealthy
    <2>1. /\ Tables' /\ UNCHANGED <<active, cursor, reported, cand, ret, paused>>
          /\ pc' = "commit" /\ UNCHANGED journal /\ cand \in Incomplete' /\ cand \in Revs
          /\ "validated" \in reported[cand] /\ cand = cursor
      BY <1>6, <1>a, TablesUnchanged
         DEF ProveHealthy, Switching, Supervisor, SwitchConsistent, Incomplete
    <2>2. /\ gate' \in {0, cand} /\ marked' = 0 /\ child' = cand
          /\ child' \in Revs0 /\ alive' \in BOOLEAN
      BY <1>6, <1>0 DEF ProveHealthy, GateOf, VolatileTypeOK, RuntimeTypeOK, Supervisor,
                        RuntimeConsistent
    <2>3. VolatileTypeOK'
      BY <1>6, <1>0, <2>1, <2>2
         DEF ProveHealthy, VolatileTypeOK, PositionTypeOK, RuntimeTypeOK, Locations
    <2>4. ServedIsCommitted' /\ MarkedIsActive' /\ RuntimeConsistent'
      BY <2>1, <2>2 DEF ServedIsCommitted, MarkedIsActive, RuntimeConsistent
    <2>5. SwitchConsistent'
      BY <1>6, <1>0, <1>a, <2>1 DEF ProveHealthy, Supervisor, SwitchConsistent, Switching
    <2> QED BY <2>1, <2>3, <2>4, <2>5 DEF Supervisor
  <1>7. CASE ProveFindsExit
    <2>1. /\ Tables' /\ UNCHANGED <<active, cursor, reported, cand, ret, paused>>
          /\ pc' = "failing" /\ cand \in Incomplete' /\ cand \in Revs
          /\ "validated" \in reported[cand] /\ cand = cursor
      BY <1>7, <1>a, TablesUnchanged
         DEF ProveFindsExit, Switching, Supervisor, SwitchConsistent, Incomplete
    <2>2. /\ gate' \in {0, cand} /\ marked' = 0
          /\ child' \in Revs0 /\ alive' \in BOOLEAN
      BY <1>7, <1>0 DEF ProveFindsExit, GateOf, VolatileTypeOK, RuntimeTypeOK, Supervisor,
                        RuntimeConsistent
    <2>3. VolatileTypeOK'
      BY <1>7, <1>0, <2>1, <2>2
         DEF ProveFindsExit, VolatileTypeOK, PositionTypeOK, RuntimeTypeOK, Locations
    <2>4. ServedIsCommitted' /\ MarkedIsActive' /\ RuntimeConsistent'
      BY <2>1, <2>2 DEF ServedIsCommitted, MarkedIsActive, RuntimeConsistent
    <2>5. SwitchConsistent'
      BY <1>7, <1>0, <1>a, <2>1 DEF ProveFindsExit, SwitchConsistent, Switching
    <2> QED BY <2>1, <2>3, <2>4, <2>5 DEF Supervisor
  <1>8. CASE ProveFails
    <2>1. /\ Tables' /\ UNCHANGED <<active, cursor, reported, cand, ret, paused>>
          /\ pc' = "failing" /\ cand \in Incomplete' /\ cand \in Revs
          /\ "validated" \in reported[cand] /\ cand = cursor
      BY <1>8, <1>a, TablesUnchanged
         DEF ProveFails, Switching, Supervisor, SwitchConsistent, Incomplete
    <2>2. /\ gate' \in {0, cand} /\ marked' = 0
          /\ child' \in Revs0 /\ alive' \in BOOLEAN
      BY <1>8, <1>0 DEF ProveFails, GateOf, VolatileTypeOK, RuntimeTypeOK, Supervisor,
                        RuntimeConsistent
    <2>3. VolatileTypeOK'
      BY <1>8, <1>0, <2>1, <2>2
         DEF ProveFails, VolatileTypeOK, PositionTypeOK, RuntimeTypeOK, Locations
    <2>4. ServedIsCommitted' /\ MarkedIsActive' /\ RuntimeConsistent'
      BY <2>1, <2>2 DEF ServedIsCommitted, MarkedIsActive, RuntimeConsistent
    <2>5. SwitchConsistent'
      BY <1>8, <1>0, <1>a, <2>1 DEF ProveFails, SwitchConsistent, Switching
    <2> QED BY <2>1, <2>3, <2>4, <2>5 DEF Supervisor
  <1>9. CASE RestorePredecessor
    <2>1. /\ Tables' /\ UNCHANGED <<active, cursor, reported, cand, ret, paused>>
          /\ pc' = "rollback" /\ journal'[cand].prev # 0 /\ cand \in Incomplete' /\ cand \in Revs
          /\ "validated" \in reported[cand] /\ cand = cursor
      BY <1>9, <1>a, TablesPhase
         DEF RestorePredecessor, Switching, UpdateJournalPhase, Working, Supervisor, SwitchConsistent
    <2>2. /\ gate' \in {0, active} /\ marked' \in {0, active}
          /\ child' \in Revs0 /\ alive' \in BOOLEAN
      BY <1>9, <1>0, <1>a, StartServes DEF RestorePredecessor, Switching, Serves
    <2>3. VolatileTypeOK'
      BY <1>9, <1>0, <2>1, <2>2
         DEF RestorePredecessor, VolatileTypeOK, PositionTypeOK, RuntimeTypeOK, Locations
    <2>4. ServedIsCommitted' /\ MarkedIsActive' /\ RuntimeConsistent'
      BY <2>1, <2>2 DEF ServedIsCommitted, MarkedIsActive, RuntimeConsistent
    <2>5. SwitchConsistent'
      BY <1>9, <1>0, <1>a, <2>1 DEF RestorePredecessor, SwitchConsistent, Switching
    <2> QED BY <2>1, <2>3, <2>4, <2>5 DEF Supervisor
  <1> QED BY <1>1, <1>2, <1>3, <1>4, <1>5, <1>6, <1>7, <1>8, <1>9

\* The child exits, the gate fails or the policy changes under a running supervisor.
LEMMA EnvironmentStep ==
    ASSUME Tables, Supervisor, ChildExits \/ GateFails \/ PolicyChanges
    PROVE  Tables' /\ Supervisor'
  <1> USE RevFacts DEF Fault, durable, runtime
  <1>1. Tables' /\ UNCHANGED <<durable, child, marked, pc, ret, cand>> /\ gate' \in {0, gate}
    BY TablesUnchanged DEF ChildExits, GateFails, PolicyChanges
  <1>2. VolatileTypeOK'
    <2>1. alive' \in BOOLEAN
      BY DEF ChildExits, GateFails, PolicyChanges, Supervisor, VolatileTypeOK, RuntimeTypeOK
    <2>2. paused' \in BOOLEAN
      BY DEF ChildExits, GateFails, PolicyChanges, Supervisor, VolatileTypeOK, PositionTypeOK
    <2>3. faults' \in Nat
      BY DEF ChildExits, GateFails, PolicyChanges, Supervisor, VolatileTypeOK, PositionTypeOK
    <2> QED BY <1>1, <2>1, <2>2, <2>3
            DEF Supervisor, VolatileTypeOK, PositionTypeOK, RuntimeTypeOK
  <1>3. ServedIsCommitted' /\ MarkedIsActive' /\ RuntimeConsistent'
    BY <1>1 DEF Supervisor, ServedIsCommitted, MarkedIsActive, RuntimeConsistent
  <1>4. SwitchConsistent'
    BY <1>1 DEF Supervisor, SwitchConsistent, Incomplete, Eligible, Terminal
  <1> QED BY <1>1, <1>2, <1>3, <1>4 DEF Supervisor

\* Synchronization writes only while no switch is under way.
LEMMA SynchronizationStep ==
    ASSUME Tables, Supervisor,
           \/ \E r \in Revs : ReceiveDesired(r)
           \/ \E s \in {"validated", "rejected"} : ValidateDesired(s)
           \/ \E r \in Revs, s \in ResultStates : ReportResult(r, s)
    PROVE  Tables' /\ Supervisor'
  <1> USE RevFacts DEF runtime
  <1>1. Tables'
    BY TablesReceived, TablesValidated, TablesReported
  <1>2. /\ UNCHANGED <<child, alive, gate, marked, active, pc, ret, cand, paused, faults>>
        /\ pc \in {"sync", "down"}
    BY DEF ReceiveDesired, ValidateDesired, ReportResult, SyncFrame, SyncAllowed
  <1>3. Serves(active') /\ PositionTypeOK' /\ active' \in Revs0
    BY <1>2, CalmRuntime DEF Serves, Supervisor, VolatileTypeOK, RuntimeTypeOK,
                             PositionTypeOK, Tables, DurableTypeOK
  <1> QED BY <1>1, <1>2, <1>3, SettledSupervisor DEF Switching

\* A node without artifacts, results or runtime satisfies the invariant.
LEMMA ActivationInvInit == Init => ActivationInv
  <1> SUFFICES ASSUME Init PROVE Tables /\ Supervisor
    BY InvHalves
  <1> USE RevFacts DEF Init
  <1>1. DurableTypeOK
    BY DEF DurableTypeOK
  <1>2. Incomplete = {}
    BY DEF Incomplete, Working
  <1>3. Tables
    BY <1>1, <1>2 DEF Tables, OpenJournalMatchesActive, JournalMatchesResults,
                      RollbackNamesApplied, TablesConsistent
  <1>4. VolatileTypeOK
    BY DEF VolatileTypeOK, PositionTypeOK, RuntimeTypeOK, Locations
  <1>5. Supervisor
    BY <1>4 DEF Supervisor, ServedIsCommitted, MarkedIsActive, SwitchConsistent,
                RuntimeConsistent, Switching
  <1> QED BY <1>3, <1>5

\* Every step of the service, of a fault and of synchronization preserves it.
LEMMA ActivationInvNext == ActivationInv /\ [Next]_vars => ActivationInv'
  <1>0. Tables' /\ Supervisor' => ActivationInv'
    BY DEF ActivationInv, TypeOK, Tables, Supervisor, DurableTypeOK, VolatileTypeOK,
           PositionTypeOK, RuntimeTypeOK
  <1> SUFFICES ASSUME Tables, Supervisor, [Next]_vars PROVE Tables' /\ Supervisor'
    BY <1>0, InvHalves
  <1>1. CASE UNCHANGED vars
    BY <1>1, TablesUnchanged
       DEF vars, durable, runtime, Supervisor, VolatileTypeOK, PositionTypeOK, RuntimeTypeOK,
           ServedIsCommitted, MarkedIsActive, SwitchConsistent, RuntimeConsistent,
           Incomplete, Eligible, Terminal
  <1>2. CASE ServiceStep
    BY <1>2, CycleStep, EndSwitchStep, SwitchStep DEF ServiceStep
  <1>3. CASE FaultStep
    BY <1>3, CycleStep, EndSwitchStep, SwitchStep, EnvironmentStep DEF FaultStep
  <1>4. CASE SyncStep
    BY <1>4, CycleStep, SynchronizationStep DEF SyncStep
  <1> QED BY <1>1, <1>2, <1>3, <1>4 DEF Next

-----------------------------------------------------------------------------
(* What a step may write *)

\* A write of the service that touches the open journal of revision r.
JournalWrite(r) ==
    \/ FinalizeRolledBack(r) \/ FinalizeRejected(r)
    \/ \E p \in Working \cup {"recoveryRequired"} : UpdateJournalPhase(r, p)

\* The tables change in no other ways than these.
Writes ==
    \/ UNCHANGED durable
    \/ \E r \in Incomplete : JournalWrite(r)
    \/ pc = "commit" /\ FinalizeApplied(cand)
    \/ BeginActivation
    \/ \E r \in Revs : ReceiveDesired(r)
    \/ \E s \in {"validated", "rejected"} : ValidateDesired(s)
    \/ \E r \in Revs, s \in ResultStates : ReportResult(r, s)

\* mark_recovery_required is a write to the open journal, or none.
LEMMA RecoveryWrites ==
    ASSUME NEW r \in Incomplete, MarkRecoveryRequired(r)
    PROVE  Writes
  BY DEF MarkRecoveryRequired, Writes, JournalWrite

\* The journal of the revision that is being switched to is open.
LEMMA CandidateIsOpen ==
    ASSUME ActivationInv, pc \in Switching
    PROVE  cand \in Incomplete
  BY DEF ActivationInv, SwitchConsistent

\* Each action of Next writes what its code does and nothing else.
LEMMA EveryStepWrites == ActivationInv /\ [Next]_vars => Writes
  <1> SUFFICES ASSUME ActivationInv, [Next]_vars PROVE Writes
    OBVIOUS
  <1>1. CASE UNCHANGED vars
    BY <1>1 DEF vars, Writes
  <1>2. CASE ServiceStep
    <2>1. CASE \/ StartPaused \/ RecoverClean \/ PollRuntime \/ BeginPausedCycle
               \/ BeginCycle \/ CheckPolicy \/ ResumeAfterSync \/ ReconcileNothing
               \/ BeginRefused \/ SwitchRuntime \/ ProveHealthy \/ ProveFindsExit
      BY <2>1 DEF Writes, StartPaused, RecoverClean, PollRuntime, BeginPausedCycle,
                  BeginCycle, CheckPolicy, ResumeAfterSync, ReconcileNothing,
                  BeginRefused, SwitchRuntime, ProveHealthy, ProveFindsExit
    <2>2. CASE \E j \in Revs : RecoverRollback(j) \/ RecoverUnstarted(j)
      BY <2>2 DEF Writes, JournalWrite, RecoverRollback, RecoverUnstarted, Working
    <2>3. CASE ReconcilePending
      BY <2>3 DEF Writes, JournalWrite, ReconcilePending
    <2>4. CASE BeginActivation
      BY <2>4 DEF Writes
    <2>5. CASE JournalStabilizing \/ RestorePredecessor \/ ScheduleRetry
      BY <2>5, CandidateIsOpen DEF Writes, JournalWrite, JournalStabilizing,
                  RestorePredecessor, ScheduleRetry, Switching, Working
    <2>6. CASE RejectCandidate \/ FinishRollback
      BY <2>6, CandidateIsOpen DEF Writes, JournalWrite, RejectCandidate, FinishRollback,
                  Switching
    <2>7. CASE Commit
      BY <2>7 DEF Writes, Commit
    <2> QED BY <1>2, <2>1, <2>2, <2>3, <2>4, <2>5, <2>6, <2>7 DEF ServiceStep
  <1>3. CASE FaultStep
    <2>1. CASE \/ Crash \/ ChildExits \/ GateFails \/ PolicyChanges \/ RecoverAborts
               \/ CycleFails \/ PolicyStepFails \/ ReconcileFails \/ BeginFails
               \/ SpawnFails \/ ProveFails \/ FailureUnrecorded
      BY <2>1 DEF Writes, Crash, ChildExits, GateFails, PolicyChanges, RecoverAborts,
                  CycleFails, PolicyStepFails, ReconcileFails, BeginFails, SpawnFails,
                  ProveFails, FailureUnrecorded
    <2>2. CASE \E j \in Revs : RecoverGivesUp(j)
      BY <2>2 DEF Writes, JournalWrite, RecoverGivesUp
    <2>3. CASE \/ SwitchStopFails \/ JournalStabilizingFails \/ CommitFails
               \/ RestorePredecessorFails
      <3>1. cand \in Incomplete
        BY <2>3, CandidateIsOpen DEF SwitchStopFails, JournalStabilizingFails, CommitFails,
                  RestorePredecessorFails, Switching
      <3>2. UNCHANGED durable \/ MarkRecoveryRequired(cand)
        BY <2>3 DEF SwitchStopFails, JournalStabilizingFails, CommitFails,
                  RestorePredecessorFails
      <3> QED BY <3>1, <3>2, RecoveryWrites DEF Writes
    <2>4. CASE CommitUnconfirmed
      BY <2>4 DEF Writes, CommitUnconfirmed
    <2>5. CASE FinishRollbackFails
      BY <2>5, CandidateIsOpen DEF Writes, JournalWrite, FinishRollbackFails, Switching
    <2> QED BY <1>3, <2>1, <2>2, <2>3, <2>4, <2>5 DEF FaultStep
  <1>4. CASE SyncStep
    BY <1>4 DEF Writes, SyncStep, SyncDone, SyncFails
  <1> QED BY <1>1, <1>2, <1>3, <1>4 DEF Next

-----------------------------------------------------------------------------
(* Theorems *)

\* The tables, the journal and the runtime stay consistent through every interleaving
\* of activation, rollback, recovery, superseding, pause, failed write and crash, for
\* every number of revisions and of faults.
THEOREM ActivationCorrect == Spec => []ActivationInv
  BY ActivationInvInit, ActivationInvNext, PTL DEF Spec

\* activation.rs never meets two open journals, nor one whose predecessor is not the
\* active revision, so none of its consistency bail-outs can strand a node.
THEOREM OpenJournalSafe == Spec => []OpenJournalMatchesActive
  <1>1. ActivationInv => OpenJournalMatchesActive
    BY DEF ActivationInv
  <1> QED BY <1>1, ActivationCorrect, PTL

\* Every rolledBack report names an earlier revision the node really applied.
THEOREM RollbackSafe == Spec => []RollbackNamesApplied
  <1>1. ActivationInv => RollbackNamesApplied
    BY DEF ActivationInv
  <1> QED BY <1>1, ActivationCorrect, PTL

\* Members are only ever admitted to the committed revision, or to a proven candidate
\* that is being committed or torn down.
THEOREM ServingSafe == Spec => []ServedIsCommitted
  <1>1. ActivationInv => ServedIsCommitted
    BY DEF ActivationInv
  <1> QED BY <1>1, ActivationCorrect, PTL

\* The journal and the revision results agree, so the report Control receives is what
\* the node's own recovery will act on.
THEOREM JournalSafe == Spec => []JournalMatchesResults
  <1>1. ActivationInv => JournalMatchesResults
    BY DEF ActivationInv
  <1> QED BY <1>1, ActivationCorrect, PTL

\* running_revision, on which heartbeat and router mapping rely, is the active revision.
THEOREM MarkerSafe == Spec => []MarkedIsActive
  <1>1. ActivationInv => MarkedIsActive
    BY DEF ActivationInv
  <1> QED BY <1>1, ActivationCorrect, PTL

\* The active pointer moves only in finalize_applied, forward, to the revision whose
\* validation is acknowledged, whose journal is stabilizing and whose child is owned.
THEOREM ForwardSafe == Spec => ActiveMovesForward
  <1> DEFINE Forward ==
        active' # active =>
          /\ active' > active
          /\ "validated" \in reported[active']
          /\ journal[active'].phase = "stabilizing" /\ child = active'
  <1>1. ASSUME ActivationInv, [Next]_vars PROVE Forward
    <2> SUFFICES ASSUME active' # active PROVE Forward
      OBVIOUS
    <2>1. pc = "commit" /\ FinalizeApplied(cand)
      BY <1>1, EveryStepWrites
         DEF Writes, JournalWrite, durable, FinalizeRolledBack, FinalizeRejected,
             UpdateJournalPhase, BeginActivation, WriteAttempt, ReceiveDesired,
             ValidateDesired, ReportResult, SyncFrame
    <2>2. /\ active' = cand /\ cand \in Incomplete /\ journal[cand].phase = "stabilizing"
          /\ "validated" \in reported[cand] /\ child = cand
      BY <1>1, <2>1 DEF FinalizeApplied, ActivationInv, SwitchConsistent,
                        RuntimeConsistent, Switching
    <2>3. cand \in Revs /\ journal[cand].prev = active
      BY <1>1, <2>2 DEF ActivationInv, OpenJournalMatchesActive, Incomplete
    <2>4. active < cand
      BY <1>1, <2>2, <2>3 DEF ActivationInv, TablesConsistent
    <2>5. active \in Int /\ cand \in Int
      BY <1>1, <2>3, MaxRevAssumption DEF ActivationInv, TypeOK, Revs0, Revs
    <2> QED BY <2>2, <2>4, <2>5
  <1>2. ActivationInv /\ [Next]_vars => [Forward]_vars
    BY <1>1
  <1>3. Spec => [][Forward]_vars
    BY <1>2, ActivationCorrect, PTL DEF Spec
  <1> QED BY <1>3 DEF ActiveMovesForward

\* Recovery, superseding and synchronization never rewrite what was recorded: results
\* are only added, none after a terminal one, and a finished journal row stays.
THEOREM HistorySafe == Spec => HistoryIsFinal
  <1> DEFINE Final ==
        \A r \in Revs :
          /\ rows[r] \subseteq rows'[r] /\ (Terminal(r) => rows'[r] = rows[r])
          /\ journal[r].phase \in TerminalPhases => journal'[r] = journal[r]
  <1>1. ASSUME ActivationInv, [Next]_vars PROVE Final
    <2>0. Writes /\ Tables
      BY <1>1, EveryStepWrites, InvHalves
    <2>0a. Working \cap TerminalPhases = {}
      BY DEF Working, TerminalPhases
    <2> USE DEF Tables, DurableTypeOK
    <2>1. CASE UNCHANGED durable
      BY <2>1 DEF durable
    <2>2. CASE \E r \in Incomplete : JournalWrite(r)
      <3>1. PICK r \in Incomplete : JournalWrite(r)
        BY <2>2
      <3>2. r \in Revs /\ journal[r].phase \in Working
        BY <3>1 DEF Incomplete
      <3>3. \A q \in Revs : q # r => journal'[q] = journal[q]
        BY <2>0, <3>1, <3>2 DEF JournalWrite, FinalizeRolledBack, FinalizeRejected,
                                UpdateJournalPhase, SetPhase
      <3>4. \/ rows' = rows
            \/ ~Terminal(r) /\ \E s \in ResultStates : rows' = [rows EXCEPT ![r] = @ \cup {s}]
        BY <3>1 DEF JournalWrite, FinalizeRolledBack, FinalizeRejected,
                    UpdateJournalPhase, ResultStates
      <3> QED BY <2>0, <2>0a, <3>2, <3>3, <3>4
    <2>3. CASE pc = "commit" /\ FinalizeApplied(cand)
      <3>1. cand \in Revs /\ journal[cand].phase \in Working
        BY <1>1, <2>3, CandidateIsOpen DEF Incomplete, Switching
      <3>2. \A q \in Revs : q # cand => journal'[q] = journal[q]
        BY <2>0, <2>3, <3>1 DEF FinalizeApplied, SetPhase
      <3> QED BY <2>0, <2>0a, <2>3, <3>1, <3>2 DEF FinalizeApplied
    <2>4. CASE BeginActivation
      <3>1. cand \in Revs /\ journal[cand].phase \notin TerminalPhases
        <4>1. cand \in Revs
          BY <1>1, <2>4, RevFacts DEF BeginActivation, ActivationInv, SwitchConsistent, TypeOK
        <4> QED BY <2>0a, <2>4, <4>1 DEF BeginActivation, TerminalPhases
      <3> QED BY <2>0, <2>4, <3>1 DEF BeginActivation, WriteAttempt
    <2>5. CASE \E r \in Revs : ReceiveDesired(r)
      <3>1. PICK r \in Revs : ReceiveDesired(r)
        BY <2>5
      <3>2. rows[r] = {}
        BY <2>0, <3>1 DEF ReceiveDesired, TablesConsistent
      <3> QED BY <2>0, <3>1, <3>2 DEF ReceiveDesired, SyncFrame, Terminal
    <2>6. CASE \E s \in {"validated", "rejected"} : ValidateDesired(s)
      BY <2>0, <2>6 DEF ValidateDesired, SyncFrame, Terminal, TerminalResults
    <2>7. CASE \E r \in Revs, s \in ResultStates : ReportResult(r, s)
      BY <2>7 DEF ReportResult, SyncFrame
    <2> QED BY <2>0, <2>1, <2>2, <2>3, <2>4, <2>5, <2>6, <2>7 DEF Writes
  <1>2. ActivationInv /\ [Next]_vars => [Final]_vars
    BY <1>1
  <1>3. Spec => [][Final]_vars
    BY <1>2, ActivationCorrect, PTL DEF Spec
  <1> QED BY <1>3 DEF HistoryIsFinal

=============================================================================
