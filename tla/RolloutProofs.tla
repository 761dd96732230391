--------------------------- MODULE RolloutProofs ---------------------------
(***************************************************************************)
(* Proofs about module Rollout: the composed system implements modules     *)
(* Activation and Control, the two ledgers agree, no report that is owed   *)
(* is refused, and what members are told is active the node serves, for    *)
(* every number of revisions, members, faults and late requests.           *)
(***************************************************************************)
EXTENDS Rollout, ActivationProofs, FiniteSetTheorems

\* The proofs about module Control, for the one node of this module.
CP == INSTANCE ControlProofs WITH Nodes <- {Node}

-----------------------------------------------------------------------------
(* What Control does to the variables the invariant speaks of *)

\* A publication for the node, or for nobody, takes the next number of the network;
\* every earlier revision keeps its target.
LEMMA PublishEffect ==
    ASSUME NEW N \in SUBSET {Node}, PublicationConsistent, C!Publish(N)
    PROVE  /\ lastRevision' \in Revs0 /\ desired' \in [{Node} -> Revs0]
           /\ target' \in [Revs -> {Node, 0}]
           /\ desired[Node] <= desired'[Node] /\ desired'[Node] <= lastRevision'
           /\ \A r \in Revs : r <= lastRevision' => target'[r] = Node
  <1>0. PICK last \in lastRevision .. MaxRev :
          \E order \in [lastRevision + 1 .. last -> N] : C!PublishCompiled(N, last, order)
    BY DEF C!Publish
  <1>1. PICK order \in [lastRevision + 1 .. last -> N] : C!PublishCompiled(N, last, order)
    BY <1>0
  <1> USE DEF C!PublishCompiled
  <1> USE MaxRevAssumption DEF PublicationConsistent, Revs, Revs0, C!Revs
  <1>2. CASE N = {}
    <2>1. ~ \E r \in lastRevision + 1 .. last : TRUE
      BY <1>1, <1>2
    <2>2. last = lastRevision
      BY <2>1
    <2> QED BY <1>1, <1>2, <2>2
  <1>3. CASE N = {Node}
    <2>1. \A r \in lastRevision + 1 .. last : order[r] = Node
      BY <1>1, <1>3
    <2>2. last = lastRevision + 1
      BY <1>1, <1>3, <2>1
    <2>3. (CHOOSE r \in lastRevision + 1 .. last : order[r] = Node) = lastRevision + 1
      BY <2>1, <2>2
    <2>4. desired' = [n \in {Node} |-> lastRevision + 1]
      BY <1>1, <1>3, <2>3
    <2> QED BY <1>1, <2>1, <2>2, <2>4
  <1> QED BY <1>2, <1>3

\* Every handler of the administration publishes for the node or not at all, and none
\* of them touches the results of a node.
LEMMA AdminEffect ==
    ASSUME PublicationConsistent, C!AdminStep
    PROVE  /\ results' = results
           /\ lastRevision' \in Revs0 /\ desired' \in [{Node} -> Revs0]
           /\ target' \in [Revs -> {Node, 0}]
           /\ desired[Node] <= desired'[Node] /\ desired'[Node] <= lastRevision'
           /\ \A r \in Revs : r <= lastRevision' => target'[r] = Node
  <1>0. ASSUME NEW P \in SUBSET C!Pairs PROVE C!NodesOf(P) \in SUBSET {Node}
    BY DEF C!Pairs, C!NodesOf
  <1>1. CASE \E N \in SUBSET {Node} : C!Publish(N)
    <2>1. results' = results
      BY <1>1 DEF C!AdminStep, C!ReplaceAccountNodes, C!SetAccountStatus, C!RotateAccountCredentials,
             C!PublishDesiredState, C!ApproveNode, C!DisableNode, C!RevokeNode, C!CloseNode,
             C!progressed
    <2> QED BY <1>1, <2>1, PublishEffect
  <1>2. CASE UNCHANGED <<lastRevision, target, desired, results>>
    BY <1>2, MaxRevAssumption DEF PublicationConsistent, Revs0, Revs
  <1>3. ASSUME NEW m \in Members, NEW S \in SUBSET {Node}, C!ReplaceAccountNodes(m, S)
        PROVE  \E N \in SUBSET {Node} : C!Publish(N)
    <2> DEFINE add == {pair \in C!Pairs : pair[1] = m /\ pair[2] \in S
                                          /\ assignment[pair] # "enabled"}
               drop == {pair \in C!Enabled(m) : pair[2] \notin S}
    <2>1. C!Publish(C!NodesOf(add \cup drop))
      BY <1>3 DEF C!ReplaceAccountNodes, C!PublishAccountRevisions
    <2>2. add \cup drop \in SUBSET C!Pairs
      BY DEF C!Enabled
    <2> QED BY <2>1, <2>2, <1>0
  <1>4. ASSUME NEW m \in Members, NEW status \in {"active", "disabled", "deleted"},
               C!SetAccountStatus(m, status)
        PROVE  \E N \in SUBSET {Node} : C!Publish(N)
    <2> DEFINE N == {n \in C!NodesOf(C!Enabled(m)) : nodeStatus[n] = "active"}
    <2>1. C!Publish(N)
      BY <1>4 DEF C!SetAccountStatus, C!PublishAccountRevisions
    <2>2. N \in SUBSET {Node}
      BY <1>0 DEF C!Enabled
    <2> QED BY <2>1, <2>2
  <1>5. ASSUME NEW m \in Members, C!RotateAccountCredentials(m)
        PROVE  \E N \in SUBSET {Node} : C!Publish(N)
    <2>1. C!Publish(C!NodesOf(C!Enabled(m)))
      BY <1>5 DEF C!RotateAccountCredentials, C!PublishAccountRevisions
    <2>2. C!NodesOf(C!Enabled(m)) \in SUBSET {Node}
      BY <1>0 DEF C!Enabled
    <2> QED BY <2>1, <2>2
  <1>6. ASSUME NEW n \in {Node}, C!PublishDesiredState(n)
        PROVE  \E N \in SUBSET {Node} : C!Publish(N)
    BY <1>6 DEF C!PublishDesiredState
  <1>7. ASSUME NEW n \in {Node}, C!ApproveNode(n) \/ C!DisableNode(n) \/ C!RevokeNode(n)
        PROVE  UNCHANGED <<lastRevision, target, desired, results>>
    BY <1>7 DEF C!ApproveNode, C!DisableNode, C!RevokeNode, C!CloseNode, C!publication,
                C!progressed
  <1> QED BY <1>1, <1>2, <1>3, <1>4, <1>5, <1>6, <1>7 DEF C!AdminStep

\* record_revision_result adds one result and publishes nothing.
LEMMA RecordEffect ==
    ASSUME NEW r \in Revs, NEW s \in ResultStates, NEW p, PublicationConsistent,
           C!RecordRevisionResult(Node, r, s, p)
    PROVE  /\ results' = [results EXCEPT ![r] = @ \cup {s}]
           /\ results' \in [Revs -> SUBSET ResultStates]
           /\ UNCHANGED <<lastRevision, target, desired>>
  <1>1. results' = [results EXCEPT ![r] = @ \cup {s}]
    BY DEF C!RecordRevisionResult
  <1>2. UNCHANGED <<lastRevision, target, desired>>
    BY DEF C!RecordRevisionResult, C!publication
  <1> QED BY <1>1, <1>2 DEF PublicationConsistent

-----------------------------------------------------------------------------
(* What the service does to the variables the invariant speaks of *)

\* The service neither receives nor reports, and it only ever adds results.
KeepsLedger ==
    /\ cursor' = cursor /\ reported' = reported
    /\ \A r \in Revs : rows[r] \subseteq rows'[r]

\* Each durable transaction of the supervisor keeps the ledger.
LEMMA TransactionKeepsLedger ==
    ASSUME DurableTypeOK,
           \/ UNCHANGED durable
           \/ \E r \in Revs : FinalizeApplied(r) \/ FinalizeRolledBack(r) \/ FinalizeRejected(r)
                             \/ WriteAttempt(r) \/ MarkRecoveryRequired(r)
           \/ \E r \in Revs : \E p \in Working \cup {"recoveryRequired"} : UpdateJournalPhase(r, p)
    PROVE  KeepsLedger
  BY DEF KeepsLedger, DurableTypeOK, durable, FinalizeApplied, FinalizeRolledBack,
         FinalizeRejected, WriteAttempt, MarkRecoveryRequired, UpdateJournalPhase

\* Every step of the service is such a transaction, and a fault that meets a running
\* synchronization leaves it running or takes the process down.
LEMMA ServiceKeepsLedger ==
    ASSUME ActivationInv, ServiceStep \/ FaultStep
    PROVE  /\ KeepsLedger
           /\ FaultStep /\ pc = "sync" => pc' \in {"sync", "down"}
  <1>1. DurableTypeOK /\ Tables /\ Supervisor
    BY InvHalves DEF Tables
  <1>2. pc \in Switching => cand \in Revs
    BY <1>1, UnderSwitch
  <1>3. pc = "begin" => cand \in Revs
    BY <1>1, RevFacts DEF Supervisor, SwitchConsistent, VolatileTypeOK, PositionTypeOK
  <1>4. ASSUME ServiceStep PROVE KeepsLedger
    <2>1. CASE \/ StartPaused \/ RecoverClean \/ PollRuntime \/ BeginPausedCycle \/ BeginCycle
               \/ CheckPolicy \/ ResumeAfterSync \/ ReconcileNothing \/ BeginRefused
               \/ SwitchRuntime \/ ProveHealthy \/ ProveFindsExit
      <3>1. UNCHANGED durable
        BY <2>1 DEF StartPaused, RecoverClean, PollRuntime, BeginPausedCycle, BeginCycle,
                    CheckPolicy, ResumeAfterSync, ReconcileNothing, BeginRefused,
                    SwitchRuntime, ProveHealthy, ProveFindsExit
      <3> QED BY <1>1, <3>1, TransactionKeepsLedger
    <2>2. CASE \E j \in Revs : RecoverRollback(j) \/ RecoverUnstarted(j)
      <3>1. \E j \in Revs : FinalizeRolledBack(j) \/ FinalizeRejected(j)
                            \/ UpdateJournalPhase(j, "retryPending")
        BY <2>2 DEF RecoverRollback, RecoverUnstarted
      <3> QED BY <1>1, <3>1, TransactionKeepsLedger DEF Working
    <2>3. CASE ReconcilePending
      <3>1. UNCHANGED durable \/ \E j \in Revs : FinalizeRolledBack(j) \/ FinalizeRejected(j)
        BY <2>3 DEF ReconcilePending
      <3> QED BY <1>1, <3>1, TransactionKeepsLedger
    <2>4. CASE BeginActivation
      <3>1. WriteAttempt(cand) /\ cand \in Revs
        BY <2>4, <1>3 DEF BeginActivation
      <3> QED BY <1>1, <3>1, TransactionKeepsLedger
    <2>5. CASE \/ JournalStabilizing \/ Commit \/ RestorePredecessor \/ RejectCandidate
               \/ ScheduleRetry \/ FinishRollback
      <3>1. cand \in Revs
        BY <2>5, <1>2 DEF JournalStabilizing, Commit, RestorePredecessor, RejectCandidate,
                          ScheduleRetry, FinishRollback, Switching
      <3>2. \/ \E p \in Working : UpdateJournalPhase(cand, p)
            \/ FinalizeApplied(cand) \/ FinalizeRejected(cand) \/ FinalizeRolledBack(cand)
        BY <2>5 DEF JournalStabilizing, Commit, RestorePredecessor, RejectCandidate,
                    ScheduleRetry, FinishRollback, Working
      <3> QED BY <1>1, <3>1, <3>2, TransactionKeepsLedger
    <2> QED BY <1>4, <2>1, <2>2, <2>3, <2>4, <2>5 DEF ServiceStep
  <1>5. ASSUME FaultStep PROVE KeepsLedger
    <2>1. CASE \/ Crash \/ ChildExits \/ GateFails \/ PolicyChanges \/ RecoverAborts \/ CycleFails
               \/ PolicyStepFails \/ ReconcileFails \/ BeginFails \/ SpawnFails \/ ProveFails
               \/ FailureUnrecorded
      <3>1. UNCHANGED durable
        BY <2>1 DEF Crash, ChildExits, GateFails, PolicyChanges, RecoverAborts, CycleFails,
                    PolicyStepFails, ReconcileFails, BeginFails, SpawnFails, ProveFails,
                    FailureUnrecorded
      <3> QED BY <1>1, <3>1, TransactionKeepsLedger
    <2>2. CASE \E j \in Revs : RecoverGivesUp(j)
      <3>1. \E j \in Revs : UpdateJournalPhase(j, "recoveryRequired")
        BY <2>2 DEF RecoverGivesUp
      <3> QED BY <1>1, <3>1, TransactionKeepsLedger
    <2>3. CASE \/ SwitchStopFails \/ JournalStabilizingFails \/ CommitUnconfirmed \/ CommitFails
               \/ RestorePredecessorFails \/ FinishRollbackFails
      <3>1. cand \in Revs
        BY <2>3, <1>2 DEF SwitchStopFails, JournalStabilizingFails, CommitUnconfirmed,
                          CommitFails, RestorePredecessorFails, FinishRollbackFails, Switching
      <3>2. \/ UNCHANGED durable \/ MarkRecoveryRequired(cand)
            \/ FinalizeApplied(cand) \/ FinalizeRolledBack(cand)
        BY <2>3 DEF SwitchStopFails, JournalStabilizingFails, CommitUnconfirmed, CommitFails,
                    RestorePredecessorFails, FinishRollbackFails
      <3> QED BY <1>1, <3>1, <3>2, TransactionKeepsLedger
    <2> QED BY <1>5, <2>1, <2>2, <2>3 DEF FaultStep
  <1>6. FaultStep /\ pc = "sync" => pc' \in {"sync", "down"}
    BY DEF FaultStep, Crash, ChildExits, GateFails, PolicyChanges, RecoverGivesUp,
           RecoverAborts, CycleFails, PolicyStepFails, ReconcileFails, BeginFails,
           SwitchStopFails, SpawnFails, JournalStabilizingFails, ProveFails,
           CommitUnconfirmed, CommitFails, RestorePredecessorFails, FailureUnrecorded,
           FinishRollbackFails
  <1> QED BY <1>4, <1>5, <1>6

-----------------------------------------------------------------------------
(* The exchange *)

\* An abandoned synchronization ends the cycle like any other failed one; a sync-once
\* leaves the service as it is.
LEMMA AbandonRefines ==
    ASSUME Abandon, UNCHANGED <<durable, runtime, paused, faults>>
    PROVE  [Next]_vars
  <1>1. CASE pc = "sync"
    BY <1>1 DEF Abandon, SyncFails, SyncStep, Next
  <1>2. CASE pc # "sync"
    BY <1>2 DEF Abandon, vars
  <1> QED BY <1>1, <1>2

\* Every step of the composed system is one that module Activation allows the node, or
\* leaves the node alone.
LEMMA RolloutRefines ==
    ASSUME RolloutInv, RolloutNext
    PROVE  [Next]_vars
  <1> USE DEF RolloutInv
  <1>0. SyncConsistent /\ DurableTypeOK
    BY InvHalves DEF Tables
  <1>1. CASE BeginSync \/ ReportsDone \/ SendHeartbeat \/ FetchNothing
    BY <1>1 DEF BeginSync, ReportsDone, SendHeartbeat, FetchNothing, NodeFrame, vars
  <1>2. CASE Validate
    <2>1. CASE rows' = rows
      BY <1>2, <2>1 DEF Validate, SyncFrame, vars, durable
    <2>2. CASE rows' # rows
      <3>1. PICK s \in {"validated", "rejected"} :
              rows[cursor] = {"received"} /\ rows' = [rows EXCEPT ![cursor] = @ \cup {s}]
        BY <1>2, <2>2 DEF Validate
      <3>2. /\ SyncAllowed /\ cursor # 0 /\ "received" \in reported[cursor]
            /\ UNCHANGED <<cursor, reported>> /\ SyncFrame
        BY <1>0, <1>2 DEF Validate, SyncConsistent
      <3>3. reported[cursor] \subseteq rows[cursor]
        BY <1>0, <3>2, RevFacts DEF LedgersAgree, DurableTypeOK
      <3>4. reported[cursor] = {"received"}
        BY <3>1, <3>2, <3>3
      <3> QED BY <3>1, <3>2, <3>4 DEF ValidateDesired, SyncStep, Next
    <2> QED BY <2>1, <2>2
  <1>3. ASSUME NEW r \in Revs, NEW s \in ResultStates, ReportAcknowledged(r, s)
        PROVE  [Next]_vars
    <2>1. s \in rows[r] \ reported[r]
      BY <1>3 DEF ReportAcknowledged, IsNext, Unreported
    <2>2. SyncAllowed
      BY <1>0, <1>3 DEF ReportAcknowledged, SyncConsistent, Reporting
    <2>3. ReportResult(r, s)
      BY <1>3, <2>1, <2>2 DEF ReportAcknowledged, ReportResult
    <2> QED BY <2>3 DEF SyncStep, Next
  <1>4. ASSUME NEW r \in Revs, NEW s \in ResultStates,
               ReportTimesOut(r, s) \/ ReportRefused(r, s)
        PROVE  [Next]_vars
    BY <1>4, AbandonRefines DEF ReportTimesOut, ReportRefused
  <1>5. CASE HeartbeatRefused \/ SyncStepFails
    BY <1>5, AbandonRefines DEF HeartbeatRefused, SyncStepFails
  <1>6. CASE FetchDesired
    <2>1. desired[Node] \in Revs
      BY <1>0, <1>6, RevFacts DEF FetchDesired, PublicationConsistent, DurableTypeOK
    <2>2. SyncAllowed
      BY <1>0, <1>6 DEF FetchDesired, SyncConsistent
    <2>3. ReceiveDesired(desired[Node])
      BY <1>6, <2>2 DEF FetchDesired, ReceiveDesired
    <2> QED BY <2>1, <2>3 DEF SyncStep, Next
  <1>7. CASE EndSync
    <2>1. CASE pc = "sync"
      BY <1>7, <2>1 DEF EndSync, SyncDone, SyncStep, Next
    <2>2. CASE pc # "sync"
      BY <1>7, <2>2 DEF EndSync, vars
    <2> QED BY <2>1, <2>2
  <1>8. CASE ServiceRuns \/ ServiceDisturbed
    BY <1>8 DEF ServiceRuns, ServiceDisturbed, Next
  <1>9. CASE (\E m \in late : LateReportArrives(m)) \/ Administration
    BY <1>9 DEF LateReportArrives, Administration
  <1> QED BY <1>1, <1>2, <1>3, <1>4, <1>5, <1>6, <1>7, <1>8, <1>9 DEF RolloutNext, SyncRuns

-----------------------------------------------------------------------------
(* Every step preserves the links between the two sides *)

Links == RolloutTypeOK /\ SyncConsistent /\ PublicationConsistent /\ LedgersAgree

\* A step that only moves the exchange along, in a position the service allows.
LEMMA QuietStep ==
    ASSUME RolloutInv, UNCHANGED <<cursor, rows, reported>>, UNCHANGED controlState,
           late' \in SUBSET late \/ \E r \in Revs, s \in ResultStates :
                                     s \in rows[r] /\ late' = late \cup {Report(r, s)},
           step' \in Steps, fetched' \in BOOLEAN,
           step' # "off" => SyncAllowed',
           step' \in Reporting \cup {"validate"} => cursor # 0,
           step' = "validate" => "received" \in reported[cursor]
    PROVE  Links'
  <1> USE DEF RolloutInv
  <1>1. DurableTypeOK
    BY InvHalves DEF Tables
  <1>2. late' \subseteq [rev : Revs, state : ResultStates, restored : Revs0]
    BY <1>1, RevFacts DEF RolloutTypeOK, Report, DurableTypeOK
  <1>3. RolloutTypeOK'
    BY <1>2 DEF RolloutTypeOK
  <1>4. \A m \in late' : m.state \in rows[m.rev]
    BY DEF SyncConsistent, Report
  <1>5. SyncConsistent'
    BY <1>4 DEF SyncConsistent
  <1>6. PublicationConsistent' /\ LedgersAgree'
    BY DEF PublicationConsistent, LedgersAgree, controlState
  <1> QED BY <1>3, <1>5, <1>6 DEF Links

\* A step that adds results on the node's side, as the service and the fetch do.
LEMMA LedgerStep ==
    ASSUME RolloutInv, ActivationInv', KeepsLedger, UNCHANGED controlState, UNCHANGED late,
           step' \in {"off", step}, fetched' \in BOOLEAN, step' # "off" => SyncAllowed'
    PROVE  Links'
  <1> USE DEF RolloutInv, KeepsLedger
  <1>1. DurableTypeOK
    BY InvHalves DEF Tables
  <1>2. RolloutTypeOK'
    BY DEF RolloutTypeOK, Steps
  <1>3. \A m \in late : m.state \in rows'[m.rev]
    BY DEF SyncConsistent, RolloutTypeOK
  <1>4. cursor # 0 => "received" \in rows'[cursor]
    BY <1>1, RevFacts DEF SyncConsistent, DurableTypeOK
  <1>5. SyncConsistent'
    BY <1>3, <1>4 DEF SyncConsistent, Reporting
  <1>6. PublicationConsistent'
    BY DEF PublicationConsistent, controlState
  <1>7. LedgersAgree'
    BY DEF LedgersAgree, controlState
  <1> QED BY <1>2, <1>5, <1>6, <1>7 DEF Links

\* A report Control records, at once or late, is one the node has recorded.
LEMMA RecordStep ==
    ASSUME RolloutInv, NEW r \in Revs, NEW s \in ResultStates, NEW p, s \in rows[r],
           C!RecordRevisionResult(Node, r, s, p) \/ UNCHANGED controlState
    PROVE  /\ UNCHANGED <<lastRevision, target, desired>>
           /\ results' \in [Revs -> SUBSET ResultStates]
           /\ \A q \in Revs : results[q] \subseteq results'[q] /\ results'[q] \subseteq rows[q]
           /\ C!RecordRevisionResult(Node, r, s, p) => s \in results'[r]
  <1> USE DEF RolloutInv
  <1>1. CASE C!RecordRevisionResult(Node, r, s, p)
    BY <1>1, RecordEffect DEF LedgersAgree, PublicationConsistent
  <1>2. CASE UNCHANGED controlState /\ ~C!RecordRevisionResult(Node, r, s, p)
    BY <1>2 DEF LedgersAgree, PublicationConsistent, controlState
  <1> QED BY <1>1, <1>2

\* Steps of the exchange.
LEMMA ExchangeStep ==
    ASSUME RolloutInv, SyncRuns
    PROVE  Links'
  <1> USE DEF RolloutInv
  <1>0. DurableTypeOK
    BY InvHalves DEF Tables
  <1>1. CASE BeginSync
    BY <1>1, QuietStep DEF BeginSync, NodeFrame, durable, Steps, Reporting, SyncAllowed
  <1>2. CASE ReportsDone
    <2>1. /\ step \in Reporting /\ cursor # 0 /\ SyncAllowed
          /\ step' \in Steps /\ step' # "received"
          /\ step' = "validate" => step = "received" /\ Unreported("received") = {}
      BY <1>2 DEF ReportsDone, At, SyncConsistent, Reporting, Steps
    <2>2. step' = "validate" => "received" \in reported[cursor]
      <3>1. SUFFICES ASSUME Unreported("received") = {}, cursor \in Revs, "received" \in rows[cursor]
                     PROVE  "received" \in reported[cursor]
        BY <1>0, <2>1, RevFacts DEF SyncConsistent, DurableTypeOK
      <3>2. <<cursor, "received">> \in Revs \X ResultStates
        BY <3>1 DEF ResultStates
      <3>3. <<cursor, "received">>[1] = cursor /\ <<cursor, "received">>[2] = "received"
        OBVIOUS
      <3> QED BY <3>1, <3>2, <3>3 DEF Unreported
    <2> QED BY <1>2, <2>1, <2>2, QuietStep
         DEF ReportsDone, At, NodeFrame, durable, SyncAllowed, RolloutTypeOK
  <1>3. CASE Validate
    <2>1. /\ step = "validate" /\ step' = "revision" /\ cursor # 0 /\ SyncAllowed
          /\ UNCHANGED <<fetched, late, cursor, reported, pc>> /\ UNCHANGED controlState
      BY <1>3 DEF Validate, At, SyncFrame, SyncConsistent
    <2>2. \A q \in Revs : rows[q] \subseteq rows'[q]
      BY <1>0, <1>3 DEF Validate, DurableTypeOK
    <2>3. cursor \in Revs
      BY <1>0, <2>1, RevFacts DEF DurableTypeOK
    <2>4. RolloutTypeOK'
      BY <2>1 DEF RolloutTypeOK, Steps, Reporting
    <2>5. SyncConsistent'
      BY <2>1, <2>2, <2>3 DEF SyncConsistent, RolloutTypeOK, SyncAllowed, Reporting
    <2>6. PublicationConsistent' /\ LedgersAgree'
      BY <2>1, <2>2 DEF PublicationConsistent, LedgersAgree, controlState
    <2> QED BY <2>4, <2>5, <2>6 DEF Links
  <1>4. ASSUME NEW r \in Revs, NEW s \in ResultStates, ReportAcknowledged(r, s) PROVE Links'
    <2>1. /\ s \in rows[r] /\ step \in Reporting /\ reported' = [reported EXCEPT ![r] = @ \cup {s}]
          /\ UNCHANGED <<cursor, rows, step, fetched, late, pc>>
      BY <1>4 DEF ReportAcknowledged, IsNext, Unreported, SyncFrame, syncVars
    <2>2. PICK p : \/ C!RecordRevisionResult(Node, r, s, p)
                   \/ UNCHANGED controlState /\ s \in results[r]
      BY <1>4 DEF ReportAcknowledged, C!ResultRepeated
    <2>3. /\ UNCHANGED <<lastRevision, target, desired>>
          /\ results' \in [Revs -> SUBSET ResultStates] /\ s \in results'[r]
          /\ \A q \in Revs : results[q] \subseteq results'[q] /\ results'[q] \subseteq rows[q]
      BY <2>1, <2>2, RecordStep
    <2>4. RolloutTypeOK' /\ PublicationConsistent'
      BY <2>1, <2>3 DEF RolloutTypeOK, PublicationConsistent
    <2>5. SyncConsistent'
      BY <2>1 DEF SyncConsistent, SyncAllowed, Reporting
    <2>6. LedgersAgree'
      BY <1>0, <2>1, <2>3 DEF LedgersAgree, DurableTypeOK
    <2> QED BY <2>4, <2>5, <2>6 DEF Links
  <1>5. ASSUME NEW r \in Revs, NEW s \in ResultStates,
               ReportTimesOut(r, s) \/ ReportRefused(r, s)
        PROVE  Links'
    <2>1. s \in rows[r]
      BY <1>5 DEF ReportTimesOut, ReportRefused, IsNext, Unreported
    <2> QED BY <1>5, <2>1, QuietStep
         DEF ReportTimesOut, ReportRefused, Abandon, durable, Steps, Reporting
  <1>6. CASE HeartbeatRefused \/ SyncStepFails
    BY <1>6, QuietStep DEF HeartbeatRefused, SyncStepFails, Abandon, durable, Steps, Reporting
  <1>7. CASE SendHeartbeat
    <2>1. /\ step' = "fetch" /\ SyncAllowed
          /\ UNCHANGED <<fetched, late, cursor, rows, reported, pc>>
          /\ UNCHANGED <<lastRevision, target, desired, results>>
      BY <1>7 DEF SendHeartbeat, At, NodeFrame, durable, C!RecordHeartbeat, C!publication,
                  SyncConsistent
    <2>2. RolloutTypeOK' /\ PublicationConsistent' /\ LedgersAgree'
      BY <2>1 DEF RolloutTypeOK, PublicationConsistent, LedgersAgree, Steps
    <2>3. SyncConsistent'
      BY <2>1 DEF SyncConsistent, SyncAllowed, Reporting
    <2> QED BY <2>2, <2>3 DEF Links
  <1>8. CASE FetchNothing
    BY <1>8, QuietStep DEF FetchNothing, At, NodeFrame, durable, Steps, Reporting,
                           SyncConsistent, SyncAllowed, RolloutTypeOK
  <1>9. CASE FetchDesired
    <2> DEFINE d == desired[Node]
    <2>1. /\ d \in Revs /\ cursor' = d /\ rows' = [rows EXCEPT ![d] = @ \cup {"received"}]
          /\ step' = "received" /\ fetched' = TRUE /\ SyncAllowed
          /\ UNCHANGED <<late, reported, pc>> /\ UNCHANGED controlState
      BY <1>0, <1>9, RevFacts DEF FetchDesired, PublicationConsistent, DurableTypeOK,
                                  SyncFrame, SyncConsistent
    <2>2. \A q \in Revs : rows[q] \subseteq rows'[q]
      BY <1>0, <2>1 DEF DurableTypeOK
    <2>3. RolloutTypeOK'
      BY <2>1 DEF RolloutTypeOK, Steps, Reporting
    <2>4. "received" \in rows'[d] /\ d # 0
      BY <1>0, <2>1, RevFacts DEF DurableTypeOK
    <2>5. SyncConsistent'
      BY <2>1, <2>2, <2>4 DEF SyncConsistent, RolloutTypeOK, SyncAllowed, Reporting
    <2>6. PublicationConsistent'
      BY <2>1, RevFacts DEF PublicationConsistent, controlState
    <2>7. LedgersAgree'
      BY <2>1, <2>2 DEF LedgersAgree, controlState
    <2> QED BY <2>3, <2>5, <2>6, <2>7 DEF Links
  <1>10. CASE EndSync
    BY <1>10, QuietStep DEF EndSync, durable, Steps, Reporting
  <1> QED BY <1>1, <1>2, <1>3, <1>4, <1>5, <1>6, <1>7, <1>8, <1>9, <1>10 DEF SyncRuns

\* A late report adds nothing the node has not recorded, and the administration never
\* takes a revision away from the node.
LEMMA RemoteStep ==
    ASSUME RolloutInv, (\E m \in late : LateReportArrives(m)) \/ Administration
    PROVE  Links'
  <1> USE DEF RolloutInv
  <1>0. UNCHANGED <<cursor, rows, reported, pc, step, fetched>> /\ late' \subseteq late
    BY DEF LateReportArrives, Administration, vars, durable, syncVars
  <1>1. RolloutTypeOK' /\ SyncConsistent'
    BY <1>0 DEF RolloutTypeOK, SyncConsistent, SyncAllowed
  <1>2. ASSUME NEW m \in late, LateReportArrives(m)
        PROVE  PublicationConsistent' /\ LedgersAgree'
    <2>1. m.rev \in Revs /\ m.state \in ResultStates /\ m.state \in rows[m.rev]
      BY DEF RolloutTypeOK, SyncConsistent
    <2>2. C!RecordRevisionResult(Node, m.rev, m.state, m.restored) \/ UNCHANGED controlState
      BY <1>2 DEF LateReportArrives
    <2>3. /\ UNCHANGED <<lastRevision, target, desired>>
          /\ results' \in [Revs -> SUBSET ResultStates]
          /\ \A q \in Revs : results[q] \subseteq results'[q] /\ results'[q] \subseteq rows[q]
      BY <2>1, <2>2, RecordStep
    <2> QED BY <1>0, <2>3 DEF PublicationConsistent, LedgersAgree
  <1>3. ASSUME Administration PROVE PublicationConsistent' /\ LedgersAgree'
    <2>1. /\ results' = results
          /\ lastRevision' \in Revs0 /\ desired' \in [{Node} -> Revs0]
          /\ target' \in [Revs -> {Node, 0}]
          /\ desired[Node] <= desired'[Node] /\ desired'[Node] <= lastRevision'
          /\ \A r \in Revs : r <= lastRevision' => target'[r] = Node
      BY <1>3, AdminEffect DEF Administration
    <2>2. cursor \in Revs0
      BY InvHalves DEF Tables, DurableTypeOK
    <2>3. cursor <= desired'[Node]
      <3>1. desired[Node] \in Revs0 /\ desired'[Node] \in Revs0 /\ cursor <= desired[Node]
        BY <2>1 DEF PublicationConsistent
      <3>2. cursor \in Int /\ desired[Node] \in Int /\ desired'[Node] \in Int
        BY <2>2, <3>1, MaxRevAssumption DEF Revs0, Revs
      <3> QED BY <2>1, <3>1, <3>2
    <2>4. PublicationConsistent'
      BY <1>0, <2>1, <2>3 DEF PublicationConsistent
    <2>5. LedgersAgree'
      BY <1>0, <2>1 DEF LedgersAgree
    <2> QED BY <2>4, <2>5
  <1> QED BY <1>1, <1>2, <1>3 DEF Links

\* An empty node and an empty network satisfy the invariant.
LEMMA RolloutInvInit == RolloutInit => RolloutInv
  <1> SUFFICES ASSUME RolloutInit PROVE RolloutInv
    OBVIOUS
  <1>1. ActivationInv
    BY ActivationInvInit DEF RolloutInit
  <1>2. RolloutTypeOK
    BY DEF RolloutInit, RolloutTypeOK, Steps
  <1>3. SyncConsistent
    BY DEF RolloutInit, Init, SyncConsistent, Reporting
  <1>4. PublicationConsistent
    BY RevFacts DEF RolloutInit, Init, C!Init, C!Revs, Revs, PublicationConsistent
  <1>5. LedgersAgree
    BY DEF RolloutInit, Init, C!Init, C!Revs, Revs, LedgersAgree
  <1> QED BY <1>1, <1>2, <1>3, <1>4, <1>5 DEF RolloutInv

\* Every step of the node, of the exchange, of a late request and of Control keeps it.
LEMMA RolloutInvNext == RolloutInv /\ [RolloutNext]_rolloutVars => RolloutInv'
  <1>1. ASSUME RolloutInv, RolloutNext PROVE RolloutInv'
    <2>1. ActivationInv'
      BY <1>1, RolloutRefines, ActivationInvNext DEF RolloutInv
    <2>2. CASE SyncRuns
      BY <1>1, <2>1, <2>2, ExchangeStep DEF RolloutInv, Links
    <2>3. CASE ServiceRuns
      <3>1. KeepsLedger
        BY <1>1, <2>3, ServiceKeepsLedger DEF ServiceRuns, RolloutInv
      <3>2. step = "off" /\ UNCHANGED <<step, fetched, late>> /\ UNCHANGED controlState
        BY <2>3 DEF ServiceRuns, syncVars
      <3>3. fetched' \in BOOLEAN
        BY <1>1, <3>2 DEF RolloutInv, RolloutTypeOK
      <3>4. Links'
        BY <1>1, <2>1, <3>1, <3>2, <3>3, LedgerStep
      <3> QED BY <2>1, <3>4 DEF RolloutInv, Links
    <2>4. CASE ServiceDisturbed
      <3>1. KeepsLedger /\ (pc = "sync" => pc' \in {"sync", "down"})
        BY <1>1, <2>4, ServiceKeepsLedger DEF ServiceDisturbed, RolloutInv
      <3>2. /\ step' \in {"off", step} /\ UNCHANGED late /\ UNCHANGED controlState
            /\ step' # "off" => pc' # "down" /\ pc # "down"
        BY <2>4 DEF ServiceDisturbed
      <3>3. fetched' \in BOOLEAN
        BY <1>1, <2>4 DEF ServiceDisturbed, RolloutInv, RolloutTypeOK
      <3>4. step' # "off" => SyncAllowed'
        BY <1>1, <3>1, <3>2 DEF RolloutInv, SyncConsistent, SyncAllowed
      <3>5. Links'
        BY <1>1, <2>1, <3>1, <3>2, <3>3, <3>4, LedgerStep
      <3> QED BY <2>1, <3>5 DEF RolloutInv, Links
    <2>5. CASE (\E m \in late : LateReportArrives(m)) \/ Administration
      BY <1>1, <2>1, <2>5, RemoteStep DEF RolloutInv, Links
    <2>6. Links'
      BY <1>1, <2>2, <2>3, <2>4, <2>5 DEF RolloutNext, RolloutInv, Links
    <2> QED BY <2>1, <2>6 DEF RolloutInv, Links
  <1>2. ASSUME RolloutInv, UNCHANGED rolloutVars PROVE RolloutInv'
    <2>1. ActivationInv'
      BY <1>2, ActivationInvNext DEF RolloutInv, rolloutVars
    <2>2. /\ UNCHANGED <<cursor, rows, reported, pc, step, fetched, late>>
          /\ UNCHANGED <<lastRevision, target, desired, results>>
      BY <1>2 DEF rolloutVars, vars, durable, controlState, syncVars
    <2>3. RolloutTypeOK' /\ SyncConsistent' /\ PublicationConsistent' /\ LedgersAgree'
      BY <1>2, <2>2 DEF RolloutInv, RolloutTypeOK, SyncConsistent, SyncAllowed,
                        PublicationConsistent, LedgersAgree
    <2> QED BY <2>1, <2>3 DEF RolloutInv
  <1> QED BY <1>1, <1>2

-----------------------------------------------------------------------------
(* The order of results and reports.  On top of RolloutInv the properties  *)
(* of the exchange need to know what was recorded and reported before what.*)

\* A revision ends once, after its validation; the active revision is the newest that was
\* applied, and a rollback goes back to the newest that was applied before it.
HistoryFits ==
    /\ \A r \in Revs : \A a, b \in rows[r] \cap TerminalResults : a = b
    /\ \A r \in Revs : "applied" \in rows[r] \/ "rolledBack" \in rows[r] => "validated" \in rows[r]
    /\ \A r \in Revs : "applied" \in rows[r] => r <= active
    /\ \A q, r \in Revs :
          "rolledBack" \in rows[q] /\ "applied" \in rows[r] => r <= rollbackTo[q] \/ q < r

\* What is recorded of revision r before state s is acknowledged.
EarlierReported(r, s) == \A a \in rows[r] : Rank(a) < Rank(s) => a \in reported[r]

\* The revision that result s of revision r restored.
RestoredBy(r, s) == IF s = "rolledBack" THEN rollbackTo[r] ELSE 0

\* Reports leave and arrive in the order of the lifecycle, also late ones; a revision that
\* is superseded has its application acknowledged, and a heartbeat follows all reports.
ReportsFit ==
    /\ \A r \in Revs : \A s \in results[r] : EarlierReported(r, s)
    /\ \A m \in late : EarlierReported(m.rev, m.state) /\ m.restored = RestoredBy(m.rev, m.state)
    /\ \A r \in Revs : restored[r] = IF "rolledBack" \in results[r] THEN rollbackTo[r] ELSE 0
    /\ \A r \in Revs : r < cursor /\ "applied" \in rows[r] => "applied" \in reported[r]
    /\ step \in {"heartbeat", "fetch"} => \A r \in Revs : rows[r] \subseteq reported[r]

\* The columns of the progress cache against the results they summarize.
ReceivedFits(a) ==
    /\ a # 0 => results[a] # {}
    /\ \A r \in Revs : results[r] # {} => r <= a

ValidatedFits(a) ==
    /\ a # 0 => "validated" \in results[a]
    /\ \A r \in Revs : "validated" \in results[r] => r <= a

\* An applied revision newer than the column was reported before an older one's rollback.
AppliedFits(a) ==
    /\ a # 0 => "applied" \in results[a]
    /\ \A r \in Revs : "applied" \in results[r] =>
          \/ r <= a
          \/ \E q \in Revs : "rolledBack" \in results[q] /\ rollbackTo[q] = a /\ q < r

ProgressFits ==
    /\ ReceivedFits(progress[Node].received)
    /\ ValidatedFits(progress[Node].validated)
    /\ AppliedFits(progress[Node].applied)

LEMMA RankFacts ==
    /\ \A a \in ResultStates : Rank(a) \in Int /\ Rank(a) <= 30 /\ (Rank(a) = 30 <=> a \in TerminalResults)
    /\ \A a, b \in ResultStates : Rank(a) = Rank(b) => a = b \/ (a \in TerminalResults /\ b \in TerminalResults)
    /\ Rank("received") = 10 /\ Rank("validated") = 20 /\ TerminalResults \subseteq ResultStates
    /\ \A a \in ResultStates : a \in TerminalResults \/ a = "received" \/ a = "validated"
  BY DEF Rank, ResultStates, TerminalResults

\* What any step may do to the node's history: results are added in lifecycle order, an
\* application only to the current revision, and a recorded rollback keeps its target.
Grows ==
    /\ \A r \in Revs : rows[r] \subseteq rows'[r] /\ reported[r] \subseteq reported'[r]
    /\ \A r \in Revs : \A a \in rows'[r] \ rows[r] : \A b \in rows[r] : Rank(b) <= Rank(a)
    /\ \A r \in Revs : "applied" \in rows'[r] \ rows[r] => r = cursor /\ cursor' = cursor
    /\ \A r \in Revs : "rolledBack" \in rows[r] => rollbackTo'[r] = rollbackTo[r]

\* One result s is added to revision r.
Adds(r, s) ==
    /\ s \notin rows[r] /\ rows' = [rows EXCEPT ![r] = @ \cup {s}]
    /\ \A b \in rows[r] : Rank(b) <= Rank(s)
    /\ reported' = reported

LEMMA AddsEffect ==
    ASSUME DurableTypeOK, NEW r \in Revs, NEW s \in ResultStates, Adds(r, s)
    PROVE  /\ \A q \in Revs : q # r => rows'[q] = rows[q]
           /\ rows'[r] = rows[r] \cup {s}
           /\ \A q \in Revs : rows[q] \subseteq rows'[q] /\ reported[q] \subseteq reported'[q]
           /\ \A q \in Revs : \A a \in rows'[q] \ rows[q] : \A b \in rows[q] : Rank(b) <= Rank(a)
           /\ \A q \in Revs : \A a \in rows'[q] \ rows[q] : q = r /\ a = s
  BY DEF Adds, DurableTypeOK

LEMMA HistoryUnchanged ==
    ASSUME DurableTypeOK, HistoryFits, UNCHANGED <<rows, rollbackTo, active>>,
           \A r \in Revs : reported[r] \subseteq reported'[r]
    PROVE  HistoryFits' /\ Grows
  BY DEF HistoryFits, Grows

LEMMA HistoryRolledBack ==
    ASSUME ActivationInv, HistoryFits, NEW j \in Incomplete, FinalizeRolledBack(j)
    PROVE  HistoryFits' /\ Grows
<1>0. DurableTypeOK /\ j \in Revs /\ journal[j].prev = active /\ "validated" \in rows[j]
  BY InvHalves DEF Tables, Incomplete, OpenJournalMatchesActive, JournalMatchesResults
<1>1. /\ rows' = [rows EXCEPT ![j] = @ \cup {"rolledBack"}] /\ rollbackTo' = [rollbackTo EXCEPT ![j] = active]
      /\ UNCHANGED <<cursor, reported, active>> /\ rows[j] \cap TerminalResults = {}
  BY <1>0 DEF FinalizeRolledBack, Terminal
<1>2. "rolledBack" \in TerminalResults /\ "rolledBack" \in ResultStates /\ "applied" \in TerminalResults
  BY DEF TerminalResults, ResultStates
<1>3. \A b \in rows[j] : Rank(b) <= Rank("rolledBack")
  <2>1. rows[j] \subseteq ResultStates
    BY <1>0 DEF DurableTypeOK
  <2> QED BY <1>2, <2>1, RankFacts
<1>4. Adds(j, "rolledBack")
  BY <1>1, <1>2, <1>3 DEF Adds
<1>5. /\ \A q \in Revs : q # j => rows'[q] = rows[q] /\ rollbackTo'[q] = rollbackTo[q]
      /\ rows'[j] = rows[j] \cup {"rolledBack"} /\ rollbackTo'[j] = active
  BY <1>0, <1>1, <1>2, <1>4, AddsEffect DEF DurableTypeOK
<1>6. HistoryFits'
  <2>1. \A r \in Revs : \A a, b \in rows'[r] \cap TerminalResults : a = b
    BY <1>1, <1>5 DEF HistoryFits
  <2>2. \A r \in Revs : "applied" \in rows'[r] \/ "rolledBack" \in rows'[r] => "validated" \in rows'[r]
    BY <1>0, <1>5 DEF HistoryFits
  <2>3. \A r \in Revs : "applied" \in rows'[r] => "applied" \in rows[r] /\ r <= active
    BY <1>5 DEF HistoryFits
  <2>4. ASSUME NEW q \in Revs, NEW r \in Revs, "rolledBack" \in rows'[q], "applied" \in rows'[r]
        PROVE  r <= rollbackTo'[q] \/ q < r
    BY <1>5, <2>3, <2>4 DEF HistoryFits
  <2> QED BY <1>1, <2>1, <2>2, <2>3, <2>4 DEF HistoryFits
<1>7. Grows
  BY <1>0, <1>1, <1>2, <1>4, <1>5, AddsEffect DEF Grows
<1> QED BY <1>6, <1>7

LEMMA HistoryPlain ==
    ASSUME ActivationInv, HistoryFits, NEW r \in Revs, NEW s \in {"received", "validated", "rejected"}, Adds(r, s),
           s = "rejected" => rows[r] \cap TerminalResults = {}, UNCHANGED <<rollbackTo, active>>
    PROVE  HistoryFits' /\ Grows
<1>0. DurableTypeOK /\ s \in ResultStates
  BY InvHalves DEF Tables, ResultStates
<1>1. /\ \A q \in Revs : q # r => rows'[q] = rows[q]
      /\ rows'[r] = rows[r] \cup {s}
  BY <1>0, AddsEffect
<1>2. \A q \in Revs : \A t \in {"applied", "rolledBack"} : t \in rows'[q] => t \in rows[q]
  BY <1>1
<1>3. \A q \in Revs : \A a, b \in rows'[q] \cap TerminalResults : a = b
  <2>1. CASE s = "rejected"
    BY <1>1, <2>1 DEF HistoryFits
  <2>2. CASE s # "rejected"
    <3>1. s \notin TerminalResults
      BY <2>2 DEF TerminalResults
    <3> QED BY <1>1, <3>1 DEF HistoryFits
  <2> QED BY <2>1, <2>2
<1>4. HistoryFits'
  BY <1>1, <1>2, <1>3 DEF HistoryFits
<1>5. Grows
  BY <1>0, <1>2, AddsEffect DEF Grows
<1> QED BY <1>4, <1>5

LEMMA HistoryApplied ==
    ASSUME ActivationInv, HistoryFits, pc = "commit", FinalizeApplied(cand)
    PROVE  HistoryFits' /\ Grows
<1>0. DurableTypeOK /\ cand \in Revs /\ cand = cursor /\ "validated" \in rows[cand]
  BY InvHalves, UnderSwitch DEF Tables, Supervisor, Switching, JournalMatchesResults
<1>1. /\ rows' = [rows EXCEPT ![cand] = @ \cup {"applied"}] /\ active' = cand
      /\ UNCHANGED <<cursor, reported, rollbackTo>> /\ rows[cand] \cap TerminalResults = {}
  BY DEF FinalizeApplied, Terminal
<1>2. "rolledBack" \in TerminalResults /\ "applied" \in ResultStates /\ "applied" \in TerminalResults
  BY DEF TerminalResults, ResultStates
<1>3. \A b \in rows[cand] : Rank(b) <= Rank("applied")
  <2>1. rows[cand] \subseteq ResultStates
    BY <1>0 DEF DurableTypeOK
  <2> QED BY <1>2, <2>1, RankFacts
<1>4. Adds(cand, "applied")
  BY <1>1, <1>2, <1>3 DEF Adds
<1>5. /\ \A q \in Revs : q # cand => rows'[q] = rows[q]
      /\ rows'[cand] = rows[cand] \cup {"applied"}
  BY <1>0, <1>2, <1>4, AddsEffect
<1>6. \A r \in Revs : rows[r] # {} => r <= cand
  <2>1. \A r \in Revs : r > cursor => rows[r] = {}
    BY InvHalves DEF Tables, TablesConsistent
  <2>2. \A r \in Revs : r \in Int /\ cand \in Int
    BY <1>0, RevFacts
  <2> QED BY <1>0, <2>1, <2>2
<1>7. HistoryFits'
  <2>1. \A r \in Revs : \A a, b \in rows'[r] \cap TerminalResults : a = b
    BY <1>1, <1>5 DEF HistoryFits
  <2>2. \A r \in Revs : "applied" \in rows'[r] \/ "rolledBack" \in rows'[r] => "validated" \in rows'[r]
    BY <1>0, <1>5 DEF HistoryFits
  <2>3. \A r \in Revs : rows'[r] # {} => r <= active'
    BY <1>0, <1>1, <1>5, <1>6, RevFacts
  <2>4. ASSUME NEW q \in Revs, NEW r \in Revs, "rolledBack" \in rows'[q], "applied" \in rows'[r]
        PROVE  r <= rollbackTo'[q] \/ q < r
    <3>1. "rolledBack" \in rows[q] /\ q # cand
      BY <1>1, <1>2, <1>5, <2>4
    <3>2. CASE r = cand
      <4>1. q <= cand
        BY <1>6, <3>1
      <4>2. q \in Int /\ cand \in Int
        BY <1>0, RevFacts
      <4> QED BY <3>1, <3>2, <4>1, <4>2
    <3>3. CASE r # cand
      BY <1>1, <1>5, <2>4, <3>1, <3>3 DEF HistoryFits
    <3> QED BY <3>2, <3>3
  <2> QED BY <2>1, <2>2, <2>3, <2>4 DEF HistoryFits
<1>8. Grows
  BY <1>0, <1>1, <1>2, <1>4, AddsEffect DEF Grows
<1> QED BY <1>7, <1>8

LEMMA HistoryStep ==
    ASSUME ActivationInv, HistoryFits, Writes
    PROVE  HistoryFits' /\ Grows
<1>0. DurableTypeOK /\ Tables
  BY InvHalves DEF Tables
<1>1. CASE UNCHANGED <<rows, reported, rollbackTo, active>>
  BY <1>0, <1>1, HistoryUnchanged
<1>2. CASE UNCHANGED durable
  BY <1>1, <1>2 DEF durable
<1>3. CASE \E r \in Incomplete : JournalWrite(r)
  <2>1. PICK j \in Incomplete : JournalWrite(j)
    BY <1>3
  <2>2. CASE FinalizeRolledBack(j)
    BY <2>2, HistoryRolledBack
  <2>3. CASE FinalizeRejected(j)
    <3>1. j \in Revs /\ rows[j] \cap TerminalResults = {} /\ rows[j] \subseteq ResultStates
      BY <1>0, <2>3 DEF Incomplete, FinalizeRejected, Terminal, DurableTypeOK
    <3>2. /\ rows' = [rows EXCEPT ![j] = @ \cup {"rejected"}]
          /\ UNCHANGED <<reported, rollbackTo, active>>
      BY <2>3 DEF FinalizeRejected
    <3>3. "rejected" \in TerminalResults /\ "rejected" \in ResultStates
      BY DEF TerminalResults, ResultStates
    <3>4. \A b \in rows[j] : Rank(b) <= Rank("rejected")
      BY <3>1, <3>3, RankFacts
    <3>5. Adds(j, "rejected")
      BY <3>1, <3>2, <3>3, <3>4 DEF Adds
    <3> QED BY <3>1, <3>2, <3>5, HistoryPlain
  <2>4. CASE \E p \in Working \cup {"recoveryRequired"} : UpdateJournalPhase(j, p)
    BY <1>1, <2>4 DEF UpdateJournalPhase
  <2> QED BY <2>1, <2>2, <2>3, <2>4 DEF JournalWrite
<1>4. CASE pc = "commit" /\ FinalizeApplied(cand)
  BY <1>4, HistoryApplied
<1>5. CASE BeginActivation
  BY <1>1, <1>5 DEF BeginActivation, WriteAttempt
<1>6. CASE \E r \in Revs : ReceiveDesired(r)
  <2>1. PICK r \in Revs : ReceiveDesired(r)
    BY <1>6
  <2>2. rows[r] = {}
    BY <1>0, <2>1 DEF ReceiveDesired, Tables, TablesConsistent
  <2>3. Adds(r, "received") /\ UNCHANGED <<rollbackTo, active>>
    BY <2>1, <2>2 DEF ReceiveDesired, SyncFrame, Adds
  <2> QED BY <2>3, HistoryPlain
<1>7. CASE \E s \in {"validated", "rejected"} : ValidateDesired(s)
  <2>1. PICK s \in {"validated", "rejected"} : ValidateDesired(s)
    BY <1>7
  <2>2. /\ cursor \in Revs /\ rows[cursor] = {"received"}
        /\ rows' = [rows EXCEPT ![cursor] = @ \cup {s}] /\ UNCHANGED <<reported, rollbackTo, active>>
    BY <1>0, <2>1, RevFacts DEF ValidateDesired, SyncFrame, DurableTypeOK
  <2>3. Rank("received") <= Rank(s) /\ s \notin rows[cursor] /\ rows[cursor] \cap TerminalResults = {}
    BY <2>2 DEF Rank, TerminalResults
  <2>4. Adds(cursor, s)
    BY <2>2, <2>3 DEF Adds
  <2> QED BY <2>2, <2>3, <2>4, HistoryPlain
<1>8. CASE \E r \in Revs, s \in ResultStates : ReportResult(r, s)
  <2>1. PICK r \in Revs, s \in ResultStates : ReportResult(r, s)
    BY <1>8
  <2>2. reported' = [reported EXCEPT ![r] = @ \cup {s}] /\ UNCHANGED <<rows, rollbackTo, active>>
    BY <2>1 DEF ReportResult, SyncFrame
  <2>3. \A q \in Revs : reported[q] \subseteq reported'[q]
    BY <1>0, <2>2 DEF DurableTypeOK
  <2> QED BY <1>0, <2>2, <2>3, HistoryUnchanged
<1> QED BY <1>2, <1>3, <1>4, <1>5, <1>6, <1>7, <1>8 DEF Writes

-----------------------------------------------------------------------------
(* Control, as module Control has it *)

\* The assumptions of module Control hold of one node.
LEMMA ControlAssumed == CP!ControlAssumption /\ CP!MaxRevAssumption
<1>1. \A S : IsFiniteSet(S) => CP!IsFiniteSet(S)
  BY DEF IsFiniteSet, CP!IsFiniteSet
<1>2. CP!ControlAssumption
  BY <1>1, RolloutAssumption, FS_Singleton DEF CP!ControlAssumption
<1>3. CP!MaxRevAssumption
  BY MaxRevAssumption DEF CP!MaxRevAssumption
<1> QED BY <1>2, <1>3

LEMMA SameAdministration == C!AdminStep <=> CP!AdminStep
<1> USE DEF C!Revs, CP!Revs, C!Versions, CP!Versions, C!Pairs, CP!Pairs, C!Creds, CP!Creds, C!access, CP!access,
        C!publication, CP!publication, C!progressed, CP!progressed, C!CompileDesiredUsers, CP!CompileDesiredUsers,
        C!PublishCompiled, CP!PublishCompiled, C!Publish, CP!Publish,
        C!PublishAccountRevisions, CP!PublishAccountRevisions, C!Reissued, CP!Reissued,
        C!CanReissue, CP!CanReissue, C!Retired, CP!Retired, C!Revoked, CP!Revoked, C!Both, CP!Both,
        C!Enabled, CP!Enabled, C!NodesOf, CP!NodesOf
<1>1. ASSUME NEW m, NEW S PROVE C!ReplaceAccountNodes(m, S) <=> CP!ReplaceAccountNodes(m, S)
  BY Zenon DEF C!ReplaceAccountNodes, CP!ReplaceAccountNodes
<1>2. ASSUME NEW m, NEW s PROVE C!SetAccountStatus(m, s) <=> CP!SetAccountStatus(m, s)
  BY Zenon DEF C!SetAccountStatus, CP!SetAccountStatus
<1>3. ASSUME NEW m PROVE C!RotateAccountCredentials(m) <=> CP!RotateAccountCredentials(m)
  BY Zenon DEF C!RotateAccountCredentials, CP!RotateAccountCredentials
<1>4. ASSUME NEW n PROVE C!PublishDesiredState(n) <=> CP!PublishDesiredState(n)
  BY Zenon DEF C!PublishDesiredState, CP!PublishDesiredState
<1>5. ASSUME NEW n PROVE C!ApproveNode(n) <=> CP!ApproveNode(n)
  BY Zenon DEF C!ApproveNode, CP!ApproveNode
<1>6. ASSUME NEW n PROVE C!DisableNode(n) <=> CP!DisableNode(n)
  BY Zenon DEF C!DisableNode, CP!DisableNode, C!CloseNode, CP!CloseNode
<1>7. ASSUME NEW n PROVE C!RevokeNode(n) <=> CP!RevokeNode(n)
  BY Zenon DEF C!RevokeNode, CP!RevokeNode, C!CloseNode, CP!CloseNode
<1> QED BY <1>1, <1>2, <1>3, <1>4, <1>5, <1>6, <1>7, Zenon DEF C!AdminStep, CP!AdminStep

LEMMA SameRecord ==
    ASSUME NEW n, NEW r, NEW s, NEW p
    PROVE  C!RecordRevisionResult(n, r, s, p) <=> CP!RecordRevisionResult(n, r, s, p)
  BY Zenon DEF C!RecordRevisionResult, CP!RecordRevisionResult, C!Authenticated, CP!Authenticated,
       C!ResultAccepted, CP!ResultAccepted, C!Revs, CP!Revs, C!Rank, CP!Rank, C!Larger, CP!Larger,
       C!AppliedAfter, CP!AppliedAfter, C!ReconcileApplied, CP!ReconcileApplied, C!Creds, CP!Creds,
       C!Pairs, CP!Pairs, C!Versions, CP!Versions, C!publication, CP!publication

LEMMA SameNames ==
    /\ CP!Revs = Revs /\ CP!Revs0 = Revs0 /\ CP!ResultStates = ResultStates /\ CP!Creds = C!Creds
    /\ C!Revs = Revs /\ \A s : CP!Rank(s) = Rank(s) /\ C!Rank(s) = Rank(s)
  BY DEF CP!Revs, Revs, CP!Revs0, Revs0, CP!ResultStates, ResultStates, CP!Creds, C!Creds, CP!Pairs, C!Pairs,
         CP!Versions, C!Versions, C!Revs, CP!Rank, C!Rank, Rank

\* A report the node sends restores nothing unless it is a rollback, so it is one that
\* module Control expects.
LEMMA RecordIsControl ==
    ASSUME NEW r \in Revs, NEW s \in ResultStates, NEW p, s # "rolledBack" => p = 0,
           C!RecordRevisionResult(Node, r, s, p)
    PROVE  CP!Next
<1>1. CP!RecordRevisionResult(Node, r, s, p)
  BY SameRecord
<1>2. s = "rolledBack" => p \in CP!Revs
  BY <1>1 DEF CP!RecordRevisionResult, CP!ResultAccepted
<1>3. p \in IF s = "rolledBack" THEN CP!Revs ELSE {0}
  BY <1>2
<1>4. r \in CP!Revs /\ s \in CP!ResultStates /\ Node \in {Node}
  BY SameNames
<1>5. \E n \in {Node}, q \in CP!Revs, t \in CP!ResultStates :
         \E u \in IF t = "rolledBack" THEN CP!Revs ELSE {0} : CP!RecordRevisionResult(n, q, t, u)
  BY <1>1, <1>3, <1>4, Zenon
<1> QED BY <1>5, Zenon DEF CP!Next, CP!NodeStep

LEMMA HeartbeatIsControl ==
    ASSUME cursor \in Revs0, C!RecordHeartbeat(Node, Heartbeat)
    PROVE  CP!Next
<1> DEFINE hb == [desired |-> cursor, received |-> progress[Node].received,
                  validated |-> progress[Node].validated, applied |-> progress[Node].applied]
<1>1. /\ C!Authenticated(Node) /\ C!HeartbeatFits(Node, Heartbeat) /\ Heartbeat.desired = cursor
      /\ progress' = [progress EXCEPT ![Node].reportedDesired = Heartbeat.desired]
      /\ UNCHANGED <<C!access, nodeStatus, C!publication, results, restored>>
  BY DEF C!RecordHeartbeat, Heartbeat
<1>2. CP!Authenticated(Node)
  BY <1>1 DEF C!Authenticated, CP!Authenticated
<1>3. CP!HeartbeatFits(Node, hb)
  BY <1>1 DEF C!HeartbeatFits, CP!HeartbeatFits
<1>4. UNCHANGED <<CP!access, nodeStatus, CP!publication, results, restored>>
  BY <1>1 DEF C!access, CP!access, C!publication, CP!publication
<1>5. progress' = [progress EXCEPT ![Node].reportedDesired = hb.desired]
  BY <1>1
<1>6. CP!RecordHeartbeat(Node, hb)
  BY <1>2, <1>3, <1>4, <1>5 DEF CP!RecordHeartbeat
<1>7. cursor \in CP!Revs0 /\ Node \in {Node}
  BY SameNames
<1>8. \E n \in {Node}, d \in CP!Revs0 :
         CP!RecordHeartbeat(n, [desired |-> d, received |-> progress[n].received,
                                validated |-> progress[n].validated, applied |-> progress[n].applied])
  BY <1>6, <1>7, Zenon
<1> QED BY <1>8, Zenon DEF CP!Next, CP!NodeStep

LEMMA ControlUnmoved ==
    ASSUME UNCHANGED controlState
    PROVE  UNCHANGED CP!controlVars
  BY DEF controlState, CP!controlVars, CP!access, CP!publication, CP!progressed

\* Whatever the exchange does to Control is a step of module Control.
LEMMA RolloutUsesControl ==
    ASSUME RolloutInv, ReportsFit, RolloutNext
    PROVE  [CP!Next]_(CP!controlVars)
<1>0. cursor \in Revs0
  BY InvHalves DEF RolloutInv, Tables, DurableTypeOK
<1>1. CASE UNCHANGED controlState
  BY <1>1, ControlUnmoved
<1>2. CASE \E r \in Revs, s \in ResultStates : ReportAcknowledged(r, s)
  <2>1. PICK r \in Revs, s \in ResultStates : ReportAcknowledged(r, s)
    BY <1>2
  <2>2. PICK p : p = Report(r, s).restored
    OBVIOUS
  <2>3. s # "rolledBack" => p = 0
    BY <2>2 DEF Report
  <2>4. C!RecordRevisionResult(Node, r, s, p) \/ UNCHANGED controlState
    BY <2>1, <2>2 DEF ReportAcknowledged
  <2> QED BY <1>1, <2>3, <2>4, RecordIsControl
<1>3. CASE SendHeartbeat
  BY <1>0, <1>3, HeartbeatIsControl DEF SendHeartbeat
<1>4. CASE \E m \in late : LateReportArrives(m)
  <2>1. PICK m \in late : LateReportArrives(m)
    BY <1>4
  <2>2. PICK r, s, p : r = m.rev /\ s = m.state /\ p = m.restored
    OBVIOUS
  <2>3. r \in Revs /\ s \in ResultStates /\ (s # "rolledBack" => p = 0)
    BY <2>2 DEF RolloutInv, RolloutTypeOK, ReportsFit, RestoredBy
  <2>4. C!RecordRevisionResult(Node, r, s, p) \/ UNCHANGED controlState
    BY <2>1, <2>2 DEF LateReportArrives
  <2> QED BY <1>1, <2>3, <2>4, RecordIsControl
<1>5. CASE Administration
  BY <1>5, SameAdministration DEF Administration, CP!Next
<1>6. CASE \/ BeginSync \/ ReportsDone \/ Validate \/ HeartbeatRefused \/ FetchNothing \/ FetchDesired
           \/ SyncStepFails \/ EndSync \/ ServiceRuns \/ ServiceDisturbed
           \/ \E r \in Revs, s \in ResultStates : ReportTimesOut(r, s) \/ ReportRefused(r, s)
  BY <1>1, <1>6 DEF BeginSync, ReportsDone, Validate, HeartbeatRefused, FetchNothing, FetchDesired, SyncStepFails,
                    EndSync, ServiceRuns, ServiceDisturbed, ReportTimesOut, ReportRefused
<1> QED BY <1>2, <1>3, <1>4, <1>5, <1>6 DEF RolloutNext, SyncRuns

\* What module Control's invariant says of the columns used here.
LEMMA ControlColumns ==
    ASSUME CP!ControlInv
    PROVE  /\ restored \in [Revs -> Revs0] /\ results \in [Revs -> SUBSET ResultStates]
           /\ progress \in [{Node} -> [reportedDesired : Revs0, received : Revs0,
                                       validated : Revs0, applied : Revs0]]
           /\ \A r \in Revs : snapshot[r] \subseteq C!Creds
           /\ \A c \in C!Creds : cred[c] = "active" =>
                 /\ progress[Node].applied # 0 /\ c \in snapshot[progress[Node].applied]
                 /\ target[progress[Node].applied] = Node
                 /\ "applied" \in results[progress[Node].applied]
<1>1. CP!TypeOK /\ CP!ActiveIsApplied /\ CP!ProgressHasEvidence
  BY DEF CP!ControlInv
<1>2. /\ restored \in [Revs -> Revs0] /\ results \in [Revs -> SUBSET ResultStates]
      /\ progress \in [{Node} -> [reportedDesired : Revs0, received : Revs0,
                                  validated : Revs0, applied : Revs0]]
      /\ \A r \in Revs : snapshot[r] \subseteq C!Creds
  BY <1>1, SameNames DEF CP!TypeOK
<1>3. \A c \in C!Creds : c[1][2] = Node
  BY DEF C!Creds, C!Pairs
<1>4. \A c \in C!Creds : cred[c] = "active" =>
          progress[Node].applied # 0 /\ c \in snapshot[progress[Node].applied]
  BY <1>1, <1>3, SameNames DEF CP!ActiveIsApplied
<1>5. progress[Node].applied # 0 =>
          /\ target[progress[Node].applied] = Node /\ "applied" \in results[progress[Node].applied]
  BY <1>1 DEF CP!ProgressHasEvidence
<1> QED BY <1>2, <1>4, <1>5

-----------------------------------------------------------------------------
(* Every step keeps the order *)

\* Numbers of revisions, and what the two ledgers say of the revisions beyond the cursor.
LEMMA LedgerFacts ==
    ASSUME RolloutInv
    PROVE  /\ DurableTypeOK /\ cursor \in Int /\ active \in Int /\ lastRevision \in Int /\ desired[Node] \in Int
           /\ \A r \in Revs0 : r \in Int
           /\ cursor <= desired[Node] /\ desired[Node] <= lastRevision
           /\ \A r \in Revs : rows[r] # {} => r <= cursor
           /\ \A r \in Revs : rows[r] \subseteq ResultStates
           /\ \A r \in Revs : reported[r] \subseteq results[r] /\ results[r] \subseteq rows[r]
           /\ \A r \in Revs : "rolledBack" \in rows[r] =>
                 rollbackTo[r] \in Revs /\ rollbackTo[r] < r /\ "applied" \in rows[rollbackTo[r]]
<1>1. Tables /\ DurableTypeOK /\ PublicationConsistent /\ LedgersAgree
  BY InvHalves DEF RolloutInv, Tables
<1>2. /\ cursor \in Int /\ active \in Int /\ lastRevision \in Int /\ desired[Node] \in Int
      /\ \A r \in Revs0 : r \in Int
  <2>1. \A r \in Revs0 : r \in Int
    BY RevFacts
  <2>2. /\ cursor \in Revs0 /\ active \in Revs0 /\ lastRevision \in Revs0 /\ desired[Node] \in Revs0
    BY <1>1 DEF DurableTypeOK, PublicationConsistent
  <2> QED BY <2>1, <2>2
<1>3. \A r \in Revs : r \in Int
  BY RevFacts
<1>4. \A r \in Revs : rows[r] # {} => r <= cursor
  BY <1>1, <1>2, <1>3 DEF Tables, TablesConsistent
<1>5. \A r \in Revs : rows[r] \subseteq ResultStates
  BY <1>1 DEF DurableTypeOK
<1> QED BY <1>1, <1>2, <1>4, <1>5 DEF PublicationConsistent, LedgersAgree, Tables, RollbackNamesApplied

\* Reports that were in order stay so while the history grows.
LEMMA EarlierKept ==
    ASSUME DurableTypeOK, DurableTypeOK', Grows, NEW r \in Revs, NEW s \in rows[r], EarlierReported(r, s)
    PROVE  EarlierReported(r, s)' /\ RestoredBy(r, s)' = RestoredBy(r, s)
<1>1. s \in ResultStates /\ rows'[r] \subseteq ResultStates
  BY DEF DurableTypeOK
<1>2. ASSUME NEW a \in rows'[r], Rank(a) < Rank(s) PROVE a \in reported'[r]
  <2>1. CASE a \in rows[r]
    BY <1>2, <2>1 DEF EarlierReported, Grows
  <2>2. CASE a \notin rows[r]
    <3>1. Rank(s) <= Rank(a)
      BY <2>2 DEF Grows
    <3>2. Rank(a) \in Int /\ Rank(s) \in Int
      BY <1>1, RankFacts
    <3> QED BY <1>2, <3>1, <3>2
  <2> QED BY <2>1, <2>2
<1> QED BY <1>2 DEF EarlierReported, RestoredBy, Grows

\* The result that is sent next has everything before it acknowledged.
LEMMA NextIsEarliest ==
    ASSUME RolloutInv, NEW r \in Revs, NEW s \in ResultStates, step \in Reporting, IsNext(r, s)
    PROVE  s \in rows[r] \ reported[r] /\ EarlierReported(r, s)
<1>1. s \in rows[r] \ reported[r] /\ (step # "all" => r = cursor) /\ (step = "received" => s = "received")
  BY DEF IsNext, Unreported
<1>2. ASSUME NEW a \in rows[r], Rank(a) < Rank(s), a \notin reported[r] PROVE FALSE
  <2>1. a \in ResultStates /\ Rank(a) \in Int /\ Rank(s) \in Int
    BY LedgerFacts, RankFacts
  <2>2. step # "received"
    <3>1. Rank("received") <= Rank(a)
      BY <2>1 DEF Rank
    <3> QED BY <1>1, <1>2, <2>1, <3>1
  <2>3. <<r, a>> \in Unreported(step)
    BY <1>1, <1>2, <2>1, <2>2 DEF Unreported
  <2>4. <<r, a>> # <<r, s>>
    BY <1>2, <2>1
  <2>5. Before(<<r, s>>, <<r, a>>)
    BY <2>3, <2>4 DEF IsNext
  <2>6. r \in Int
    <3>1. r \in Revs0
      BY RevFacts, Zenon
    <3> QED BY <3>1, LedgerFacts, Zenon
  <2>7. <<r, s>>[1] = r /\ <<r, s>>[2] = s /\ <<r, a>>[1] = r /\ <<r, a>>[2] = a
    OBVIOUS
  <2>8. r < r \/ Rank(s) < Rank(a)
    BY <2>5, <2>7 DEF Before
  <2> QED BY <1>2, <2>1, <2>6, <2>8
<1> QED BY <1>1, <1>2 DEF EarlierReported

\* A step that leaves Control's record of results alone: the node's history grows, the exchange moves on, and
\* the report that timed out, if any, was the next one.
LEMMA NodeKeepsOrder ==
    ASSUME RolloutInv, RolloutInv', HistoryFits, ReportsFit, ProgressFits, Grows,
           results' = results, restored' = restored,
           /\ progress'[Node].received = progress[Node].received
           /\ progress'[Node].validated = progress[Node].validated
           /\ progress'[Node].applied = progress[Node].applied,
           cursor' = cursor \/ \A r \in Revs : rows[r] \subseteq reported[r],
           \A m \in late' : \/ m \in late
                            \/ \E r \in Revs, s \in ResultStates :
                                 step \in Reporting /\ IsNext(r, s) /\ m = Report(r, s),
           step' \in {"heartbeat", "fetch"} => \A r \in Revs : rows'[r] \subseteq reported'[r]
    PROVE  ReportsFit' /\ ProgressFits'
<1>0. DurableTypeOK /\ DurableTypeOK'
  <2>1. DurableTypeOK
    BY LedgerFacts
  <2>2. TypeOK'
    BY DEF RolloutInv, ActivationInv
  <2> QED BY <2>1, <2>2 DEF TypeOK, DurableTypeOK
<1>2. \A r \in Revs : \A s \in results'[r] : EarlierReported(r, s)'
  <2> SUFFICES ASSUME NEW r \in Revs, NEW s \in results[r] PROVE EarlierReported(r, s)'
    OBVIOUS
  <2>1. s \in rows[r] /\ EarlierReported(r, s)
    BY LedgerFacts DEF ReportsFit
  <2> QED BY <1>0, <2>1, EarlierKept
<1>3. \A m \in late' : EarlierReported(m.rev, m.state)' /\ m.restored = RestoredBy(m.rev, m.state)'
  <2> SUFFICES ASSUME NEW m \in late'
               PROVE  EarlierReported(m.rev, m.state)' /\ m.restored = RestoredBy(m.rev, m.state)'
    OBVIOUS
  <2>1. PICK r, s : r = m.rev /\ s = m.state
    OBVIOUS
  <2>2. r \in Revs /\ s \in rows[r] /\ EarlierReported(r, s) /\ m.restored = RestoredBy(r, s)
    <3>1. CASE m \in late
      BY <2>1, <3>1 DEF ReportsFit, RolloutInv, RolloutTypeOK, SyncConsistent
    <3>2. CASE m \notin late
      <4>1. PICK q \in Revs, t \in ResultStates : step \in Reporting /\ IsNext(q, t) /\ m = Report(q, t)
        BY <3>2
      <4>2. q = r /\ t = s /\ m.restored = RestoredBy(r, s)
        BY <2>1, <4>1 DEF Report, RestoredBy
      <4> QED BY <4>1, <4>2, NextIsEarliest
    <3> QED BY <3>1, <3>2
  <2>3. EarlierReported(r, s)' /\ RestoredBy(r, s)' = RestoredBy(r, s)
    BY <1>0, <2>2, EarlierKept
  <2>4. RestoredBy(r, s)' = RestoredBy(m.rev, m.state)'
    BY <2>1 DEF RestoredBy
  <2>5. EarlierReported(m.rev, m.state)'
    BY <2>1, <2>3 DEF EarlierReported
  <2> QED BY <2>2, <2>3, <2>4, <2>5
<1>4. \A r \in Revs : "rolledBack" \in results[r] => rollbackTo'[r] = rollbackTo[r]
  BY LedgerFacts DEF Grows
<1>5. \A r \in Revs : restored'[r] = IF "rolledBack" \in results'[r] THEN rollbackTo'[r] ELSE 0
  BY <1>4 DEF ReportsFit
<1>6. \A r \in Revs : r < cursor' /\ "applied" \in rows'[r] => "applied" \in reported'[r]
  <2> SUFFICES ASSUME NEW r \in Revs, r < cursor', "applied" \in rows'[r] PROVE "applied" \in reported'[r]
    OBVIOUS
  <2>1. reported[r] \subseteq reported'[r]
    BY DEF Grows
  <2>2. r \in Int /\ cursor \in Int
    BY LedgerFacts, RevFacts
  <2>3. CASE "applied" \in rows[r]
    BY <2>1, <2>3 DEF ReportsFit
  <2>4. CASE "applied" \notin rows[r]
    <3>1. r = cursor /\ cursor' = cursor
      BY <2>4 DEF Grows
    <3> QED BY <2>2, <3>1
  <2> QED BY <2>3, <2>4
<1>7. ReportsFit'
  BY <1>2, <1>3, <1>5, <1>6 DEF ReportsFit
<1>8. ReceivedFits(progress[Node].received)' /\ ValidatedFits(progress[Node].validated)'
  BY DEF ProgressFits, ReceivedFits, ValidatedFits
<1>9. AppliedFits(progress[Node].applied)'
  <2>1. PICK a : a = progress[Node].applied
    OBVIOUS
  <2>2. AppliedFits(a)
    BY <2>1 DEF ProgressFits
  <2>3. \A r \in Revs : "applied" \in results[r] =>
          \/ r <= a
          \/ \E q \in Revs : "rolledBack" \in results[q] /\ rollbackTo'[q] = a /\ q < r
    BY <1>4, <2>2 DEF AppliedFits
  <2> QED BY <2>1, <2>2, <2>3 DEF AppliedFits
<1> QED BY <1>7, <1>8, <1>9 DEF ProgressFits

\* Control records a result of the node, at once or late.
LEMMA RecordKeepsOrder ==
    ASSUME RolloutInv, CP!ControlInv, HistoryFits, ReportsFit, ProgressFits,
           NEW r \in Revs, NEW s \in rows[r], NEW p, p = RestoredBy(r, s), EarlierReported(r, s),
           C!RecordRevisionResult(Node, r, s, p),
           UNCHANGED <<cursor, rows, rollbackTo, active>>, late' \subseteq late,
           \A q \in Revs : reported[q] \subseteq reported'[q],
           step' \in {"heartbeat", "fetch"} => step \in {"heartbeat", "fetch"}
    PROVE  ReportsFit' /\ ProgressFits'
<1>0. /\ s \in ResultStates /\ rows[r] \subseteq ResultStates /\ r \in Revs0
      /\ r \in Int /\ cursor \in Int /\ r <= cursor
  BY LedgerFacts, RevFacts
<1>1. /\ results' = [results EXCEPT ![r] = @ \cup {s}] /\ restored' = [restored EXCEPT ![r] = p]
      /\ \A t \in results[r] : Rank(t) < Rank(s)
      /\ s \in {"applied", "rolledBack"} => "validated" \in results[r]
      /\ s = "rolledBack" => p \in Revs /\ "applied" \in results[p]
  BY SameNames DEF C!RecordRevisionResult, C!ResultAccepted
<1>2. /\ progress'[Node].received = C!Larger(progress[Node].received, r)
      /\ progress'[Node].validated = IF s \in {"validated", "applied", "rolledBack"}
                                     THEN C!Larger(progress[Node].validated, r) ELSE progress[Node].validated
      /\ progress'[Node].applied = IF s = "applied" THEN C!Larger(progress[Node].applied, r)
                                   ELSE IF s = "rolledBack" THEN p ELSE progress[Node].applied
  BY ControlColumns DEF C!RecordRevisionResult, C!AppliedAfter
<1>3. /\ \A q \in Revs : q # r => results'[q] = results[q] /\ restored'[q] = restored[q]
      /\ results'[r] = results[r] \cup {s} /\ restored'[r] = p
  BY <1>1, ControlColumns
<1>4. s \notin results[r] /\ results[r] \cap TerminalResults = {}
  <2>1. results[r] \subseteq ResultStates /\ Rank(s) \in Int /\ Rank(s) <= 30
    BY <1>0, LedgerFacts, RankFacts
  <2>2. ~ (Rank(s) < Rank(s))
    BY <2>1
  <2>3. \A t \in results[r] : Rank(t) # 30
    BY <1>1, <2>1
  <2> QED BY <1>1, <2>1, <2>2, <2>3, RankFacts
<1>5. \A q \in Revs : \A t \in results'[q] : EarlierReported(q, t)'
  <2>1. \A q \in Revs : \A t \in results'[q] : EarlierReported(q, t)
    BY <1>3 DEF ReportsFit
  <2> QED BY <2>1 DEF EarlierReported
<1>6. \A m \in late' : EarlierReported(m.rev, m.state)' /\ m.restored = RestoredBy(m.rev, m.state)'
  <2> SUFFICES ASSUME NEW m \in late
               PROVE  EarlierReported(m.rev, m.state)' /\ m.restored = RestoredBy(m.rev, m.state)'
    OBVIOUS
  <2>1. m.rev \in Revs /\ EarlierReported(m.rev, m.state) /\ m.restored = RestoredBy(m.rev, m.state)
    BY DEF ReportsFit, RolloutInv, RolloutTypeOK
  <2> QED BY <2>1 DEF EarlierReported, RestoredBy
<1>7. \A q \in Revs : restored'[q] = IF "rolledBack" \in results'[q] THEN rollbackTo'[q] ELSE 0
  <2>1. "rolledBack" \notin results[r]
    BY <1>4 DEF TerminalResults
  <2> QED BY <1>3, <2>1 DEF ReportsFit, RestoredBy
<1>8. ReportsFit'
  BY <1>5, <1>6, <1>7 DEF ReportsFit
<1>9. \A q \in Revs : results[q] \subseteq results'[q]
  BY <1>3
<1>10. ReceivedFits(progress[Node].received)'
  <2>1. PICK a \in Revs0 : a = progress[Node].received
    BY ControlColumns
  <2>2. PICK b : b = C!Larger(a, r)
    OBVIOUS
  <2>3. a \in Int /\ b \in {a, r} /\ a <= b /\ r <= b /\ b \in Int
    <3>1. a \in Int
      BY LedgerFacts
    <3> QED BY <1>0, <2>2, <3>1 DEF C!Larger
  <2>4. b # 0 => results'[b] # {}
    BY <1>3, <1>9, <2>1, <2>3, RevFacts DEF ProgressFits, ReceivedFits
  <2>5. ASSUME NEW q \in Revs, results'[q] # {} PROVE q <= b
    <3>1. q = r \/ q <= a
      BY <1>3, <2>1, <2>5 DEF ProgressFits, ReceivedFits
    <3>2. q \in Int
      BY RevFacts
    <3> QED BY <2>3, <3>1, <3>2
  <2> QED BY <1>2, <2>1, <2>2, <2>4, <2>5 DEF ReceivedFits
<1>11. ValidatedFits(progress[Node].validated)'
  <2>1. PICK a \in Revs0 : a = progress[Node].validated
    BY ControlColumns
  <2>2. CASE s \in {"validated", "applied", "rolledBack"}
    <3>1. PICK b : b = C!Larger(a, r)
      OBVIOUS
    <3>2. a \in Int /\ b \in {a, r} /\ a <= b /\ r <= b /\ b \in Int
      <4>1. a \in Int
        BY LedgerFacts
      <4> QED BY <1>0, <3>1, <4>1 DEF C!Larger
    <3>3. "validated" \in results'[r]
      BY <1>1, <1>3, <2>2
    <3>4. b # 0 => "validated" \in results'[b]
      BY <1>3, <1>9, <2>1, <3>2, <3>3, RevFacts DEF ProgressFits, ValidatedFits
    <3>5. ASSUME NEW q \in Revs, "validated" \in results'[q] PROVE q <= b
      <4>1. q = r \/ q <= a
        BY <1>3, <2>1, <3>5 DEF ProgressFits, ValidatedFits
      <4>2. q \in Int
        BY RevFacts
      <4> QED BY <3>2, <4>1, <4>2
    <3> QED BY <1>2, <2>1, <2>2, <3>1, <3>4, <3>5 DEF ValidatedFits
  <2>3. CASE s \notin {"validated", "applied", "rolledBack"}
    <3>1. \A q \in Revs : "validated" \in results'[q] <=> "validated" \in results[q]
      BY <1>3, <2>3
    <3> QED BY <1>2, <2>1, <2>3, <3>1, RevFacts DEF ProgressFits, ValidatedFits
  <2> QED BY <2>2, <2>3
<1>12. AppliedFits(progress[Node].applied)'
  <2>1. PICK a \in Revs0 : a = progress[Node].applied
    BY ControlColumns
  <2>2. AppliedFits(a)
    BY <2>1 DEF ProgressFits
  <2>3. CASE s = "applied"
    <3>1. r = cursor
      <4>1. "applied" \notin reported[r]
        BY <1>4, <2>3, LedgerFacts
      <4>2. ~ (r < cursor)
        BY <2>3, <4>1 DEF ReportsFit
      <4> QED BY <1>0, <4>2
    <3>2. a <= cursor
      <4>1. a # 0 => a \in Revs /\ "applied" \in rows[a]
        BY <2>2, LedgerFacts, RevFacts DEF AppliedFits
      <4>2. 0 <= cursor
        BY LedgerFacts, RevFacts DEF DurableTypeOK
      <4> QED BY <4>1, <4>2, LedgerFacts
    <3>3. progress'[Node].applied = r
      <4>1. a \in Int
        BY LedgerFacts
      <4>2. C!Larger(a, r) = r
        BY <1>0, <3>1, <3>2, <4>1 DEF C!Larger
      <4> QED BY <1>2, <2>1, <2>3, <4>2
    <3>4. \A q \in Revs : "applied" \in results'[q] => q <= r
      <4>1. \A q \in Revs : "applied" \in results[q] => q <= cursor
        BY LedgerFacts
      <4> QED BY <1>0, <1>3, <3>1, <4>1
    <3>5. "applied" \in results'[r]
      BY <1>3, <2>3
    <3> QED BY <3>3, <3>4, <3>5 DEF AppliedFits
  <2>4. CASE s = "rolledBack"
    <3>1. p = rollbackTo[r] /\ progress'[Node].applied = p /\ p \in Revs /\ "applied" \in results'[p]
      BY <1>1, <1>2, <1>9, <2>4 DEF RestoredBy
    <3>2. "rolledBack" \in results'[r] /\ rollbackTo'[r] = p
      BY <1>3, <2>4, <3>1
    <3>3. ASSUME NEW q \in Revs, "applied" \in results'[q] PROVE q <= p \/ r < q
      <4>1. "applied" \in results[q]
        BY <1>3, <2>4, <3>3
      <4>2. "applied" \in rows[q]
        BY <4>1, LedgerFacts
      <4> QED BY <2>4, <3>1, <4>2 DEF HistoryFits
    <3> QED BY <3>1, <3>2, <3>3 DEF AppliedFits
  <2>5. CASE s \notin {"applied", "rolledBack"}
    <3>1. \A q \in Revs : /\ "applied" \in results'[q] <=> "applied" \in results[q]
                          /\ "rolledBack" \in results'[q] <=> "rolledBack" \in results[q]
      BY <1>3, <2>5
    <3>2. progress'[Node].applied = a
      BY <1>2, <2>1, <2>5
    <3>3. a # 0 => "applied" \in results'[a]
      BY <2>2, <3>1, RevFacts DEF AppliedFits
    <3>4. \A q \in Revs : "applied" \in results'[q] =>
            \/ q <= a
            \/ \E w \in Revs : "rolledBack" \in results'[w] /\ rollbackTo[w] = a /\ w < q
      BY <2>2, <3>1 DEF AppliedFits
    <3> QED BY <3>2, <3>3, <3>4 DEF AppliedFits
  <2> QED BY <2>3, <2>4, <2>5
<1> QED BY <1>8, <1>10, <1>11, <1>12 DEF ProgressFits

-----------------------------------------------------------------------------
(* The inductive invariant of the order, and what follows from it *)

\* The node's history, Control's tables and the reports between them fit together.
OrderInv ==
    /\ RolloutInv /\ CP!ControlInv /\ CP!SnapshotsFit
    /\ HistoryFits /\ ReportsFit /\ ProgressFits

\* A fault that meets a running synchronization writes nothing.
LEMMA DisturbedSync ==
    ASSUME FaultStep, pc = "sync"
    PROVE  UNCHANGED durable
  BY DEF FaultStep, Crash, ChildExits, GateFails, PolicyChanges, RecoverGivesUp,
         RecoverAborts, CycleFails, PolicyStepFails, ReconcileFails, BeginFails,
         SwitchStopFails, SpawnFails, JournalStabilizingFails, ProveFails,
         CommitUnconfirmed, CommitFails, RestorePredecessorFails, FailureUnrecorded,
         FinishRollbackFails

LEMMA NothingLeft ==
    ASSUME RolloutInv, Unreported("all") = {}
    PROVE  \A r \in Revs : rows[r] \subseteq reported[r]
<1> SUFFICES ASSUME NEW r \in Revs, NEW s \in rows[r], s \notin reported[r] PROVE FALSE
  OBVIOUS
<1>1. s \in ResultStates
  BY LedgerFacts
<1>2. <<r, s>> \in Unreported("all")
  BY <1>1 DEF Unreported
<1> QED BY <1>2

\* The administration writes neither results nor progress.
LEMMA AdminKeepsResults ==
    ASSUME C!AdminStep
    PROVE  UNCHANGED <<results, restored, progress>>
  BY DEF C!AdminStep, C!ReplaceAccountNodes, C!SetAccountStatus, C!RotateAccountCredentials,
         C!PublishDesiredState, C!ApproveNode, C!DisableNode, C!RevokeNode, C!CloseNode, C!progressed

LEMMA OrderStep ==
    ASSUME OrderInv, RolloutNext
    PROVE  ReportsFit' /\ ProgressFits'
<1>0. RolloutInv /\ CP!ControlInv /\ HistoryFits /\ ReportsFit /\ ProgressFits
  BY DEF OrderInv
<1>1. RolloutInv'
  BY <1>0, RolloutInvNext
<1>2. Grows
  <2>1. ActivationInv /\ [Next]_vars
    BY <1>0, RolloutRefines DEF RolloutInv
  <2> QED BY <1>0, <2>1, EveryStepWrites, HistoryStep
<1>3. ASSUME results' = results, restored' = restored,
             /\ progress'[Node].received = progress[Node].received
             /\ progress'[Node].validated = progress[Node].validated
             /\ progress'[Node].applied = progress[Node].applied,
             cursor' = cursor \/ \A r \in Revs : rows[r] \subseteq reported[r],
             late' \subseteq late,
             step' \in {"heartbeat", "fetch"} => \A r \in Revs : rows'[r] \subseteq reported'[r]
      PROVE  ReportsFit' /\ ProgressFits'
  <2>1. \A m \in late' : m \in late
    BY <1>3
  <2> QED BY <1>0, <1>1, <1>2, <1>3, <2>1, NodeKeepsOrder
<1>4. ASSUME UNCHANGED controlState, late' \subseteq late,
             cursor' = cursor \/ \A r \in Revs : rows[r] \subseteq reported[r],
             step' \in {"heartbeat", "fetch"} => \A r \in Revs : rows'[r] \subseteq reported'[r]
      PROVE  ReportsFit' /\ ProgressFits'
  <2>1. results' = results /\ restored' = restored /\ progress' = progress
    BY <1>4 DEF controlState
  <2> QED BY <1>3, <1>4, <2>1
<1>5. CASE BeginSync
  <2>1. /\ UNCHANGED controlState /\ late' = late /\ UNCHANGED <<cursor, rows, reported>>
        /\ step' = IF cursor = 0 THEN "heartbeat" ELSE "received"
    BY <1>5 DEF BeginSync, NodeFrame, durable
  <2>2. cursor = 0 => \A r \in Revs : rows[r] = {}
    <3>1. \A r \in Revs : r \in Int /\ r > 0
      BY RevFacts, MaxRevAssumption DEF Revs
    <3>2. \A r \in Revs : rows[r] # {} => r <= cursor
      BY <1>0, LedgerFacts
    <3> QED BY <3>1, <3>2
  <2>3. step' \in {"heartbeat", "fetch"} => \A r \in Revs : rows'[r] \subseteq reported'[r]
    BY <2>1, <2>2
  <2> QED BY <1>4, <2>1, <2>3
<1>6. CASE ReportsDone
  <2>1. /\ UNCHANGED controlState /\ late' = late /\ UNCHANGED <<cursor, rows, reported>>
        /\ Unreported(step) = {}
        /\ step' = CASE step = "received" -> "validate"
                     [] step = "revision" -> "all"
                     [] step = "all" -> IF fetched THEN "done" ELSE "heartbeat"
        /\ step \in {"received", "revision", "all"}
    BY <1>6 DEF ReportsDone, At, NodeFrame, durable, Reporting
  <2>2. step' \in {"heartbeat", "fetch"} => step = "all"
    BY <2>1
  <2>3. step' \in {"heartbeat", "fetch"} => \A r \in Revs : rows'[r] \subseteq reported'[r]
    BY <1>0, <2>1, <2>2, NothingLeft
  <2> QED BY <1>4, <2>1, <2>3
<1>7. CASE Validate \/ FetchNothing
  <2>1. UNCHANGED controlState /\ late' = late /\ cursor' = cursor /\ step' \in {"revision", "done"}
    BY <1>7 DEF Validate, FetchNothing, At, NodeFrame, durable
  <2> QED BY <1>4, <2>1
<1>8. CASE FetchDesired
  <2>1. UNCHANGED controlState /\ late' = late /\ step = "fetch" /\ step' = "received"
    BY <1>8 DEF FetchDesired
  <2>2. \A r \in Revs : rows[r] \subseteq reported[r]
    BY <1>0, <2>1 DEF ReportsFit
  <2> QED BY <1>4, <2>1, <2>2
<1>9. CASE HeartbeatRefused \/ SyncStepFails \/ EndSync \/ \E r \in Revs, s \in ResultStates : ReportRefused(r, s)
  <2>1. UNCHANGED controlState /\ late' = late /\ cursor' = cursor /\ step' = "off"
    BY <1>9 DEF HeartbeatRefused, SyncStepFails, EndSync, ReportRefused, Abandon, durable
  <2> QED BY <1>4, <2>1
<1>10. CASE \E r \in Revs, s \in ResultStates : ReportTimesOut(r, s)
  <2>1. PICK r \in Revs, s \in ResultStates : ReportTimesOut(r, s)
    BY <1>10
  <2>2. /\ UNCHANGED controlState /\ cursor' = cursor /\ step' = "off"
        /\ late' = late \cup {Report(r, s)} /\ step \in Reporting /\ IsNext(r, s)
    BY <2>1 DEF ReportTimesOut, Abandon, durable
  <2>3. results' = results /\ restored' = restored /\ progress' = progress
    BY <2>2 DEF controlState
  <2>4. \A m \in late' : \/ m \in late
                         \/ \E q \in Revs, t \in ResultStates :
                              step \in Reporting /\ IsNext(q, t) /\ m = Report(q, t)
    BY <2>2
  <2> QED BY <1>0, <1>1, <1>2, <2>2, <2>3, <2>4, NodeKeepsOrder
<1>11. CASE ServiceRuns \/ ServiceDisturbed
  <2>1. /\ UNCHANGED controlState /\ late' = late /\ step' \in {"off", step}
        /\ ServiceStep \/ FaultStep
        /\ step' # "off" => FaultStep /\ pc # "down"
    BY <1>11 DEF ServiceRuns, ServiceDisturbed, syncVars
  <2>2. cursor' = cursor
    BY <1>0, <2>1, ServiceKeepsLedger DEF RolloutInv, KeepsLedger
  <2>3. step' \in {"heartbeat", "fetch"} => \A r \in Revs : rows'[r] \subseteq reported'[r]
    <3> SUFFICES ASSUME step' \in {"heartbeat", "fetch"} PROVE \A r \in Revs : rows'[r] \subseteq reported'[r]
      OBVIOUS
    <3>1. step' = step /\ FaultStep /\ pc = "sync"
      BY <1>0, <2>1 DEF RolloutInv, SyncConsistent, SyncAllowed
    <3>2. rows' = rows /\ reported' = reported
      BY <3>1, DisturbedSync DEF durable
    <3> QED BY <1>0, <3>1, <3>2 DEF ReportsFit
  <2> QED BY <1>4, <2>1, <2>2, <2>3
<1>12. CASE SendHeartbeat
  <2>1. /\ UNCHANGED <<results, restored, cursor, rows, reported, late>> /\ step = "heartbeat" /\ step' = "fetch"
        /\ progress' = [progress EXCEPT ![Node].reportedDesired = Heartbeat.desired]
    BY <1>12 DEF SendHeartbeat, C!RecordHeartbeat, At, NodeFrame, durable
  <2>2. /\ progress'[Node].received = progress[Node].received
        /\ progress'[Node].validated = progress[Node].validated
        /\ progress'[Node].applied = progress[Node].applied
    BY <1>0, <2>1, ControlColumns
  <2>3. \A r \in Revs : rows[r] \subseteq reported[r]
    BY <1>0, <2>1 DEF ReportsFit
  <2> QED BY <1>3, <2>1, <2>2, <2>3
<1>13. CASE Administration
  <2>1. /\ UNCHANGED <<results, restored, progress>> /\ UNCHANGED <<cursor, rows, reported, late, step>>
    BY <1>13, AdminKeepsResults DEF Administration, vars, durable, syncVars
  <2>2. step' \in {"heartbeat", "fetch"} => \A r \in Revs : rows'[r] \subseteq reported'[r]
    BY <1>0, <2>1 DEF ReportsFit
  <2> QED BY <1>3, <2>1, <2>2
<1>14. CASE \E m \in late : LateReportArrives(m)
  <2>1. PICK m \in late : LateReportArrives(m)
    BY <1>14
  <2>2. /\ UNCHANGED <<cursor, rows, reported, rollbackTo, active, step>> /\ late' \subseteq late
    BY <2>1 DEF LateReportArrives, vars, durable
  <2>3. step' \in {"heartbeat", "fetch"} => \A r \in Revs : rows'[r] \subseteq reported'[r]
    BY <1>0, <2>2 DEF ReportsFit
  <2>4. CASE UNCHANGED controlState
    BY <1>4, <2>2, <2>3, <2>4
  <2>5. CASE C!RecordRevisionResult(Node, m.rev, m.state, m.restored)
    <3>1. PICK r, s, p : r = m.rev /\ s = m.state /\ p = m.restored
      OBVIOUS
    <3>2. r \in Revs /\ s \in rows[r] /\ p = RestoredBy(r, s) /\ EarlierReported(r, s)
      BY <1>0, <3>1 DEF RolloutInv, RolloutTypeOK, SyncConsistent, ReportsFit
    <3>3. C!RecordRevisionResult(Node, r, s, p)
      BY <2>5, <3>1
    <3>4. \A q \in Revs : reported[q] \subseteq reported'[q]
      BY <2>2
    <3> QED BY <1>0, <2>2, <3>2, <3>3, <3>4, RecordKeepsOrder
  <2> QED BY <2>1, <2>4, <2>5 DEF LateReportArrives
<1>15. CASE \E r \in Revs, s \in ResultStates : ReportAcknowledged(r, s)
  <2>1. PICK r \in Revs, s \in ResultStates : ReportAcknowledged(r, s)
    BY <1>15
  <2>2. PICK p : p = Report(r, s).restored
    OBVIOUS
  <2>3. p = RestoredBy(r, s)
    BY <2>2 DEF Report, RestoredBy
  <2>4. /\ step \in Reporting /\ IsNext(r, s)
        /\ C!RecordRevisionResult(Node, r, s, p) \/ UNCHANGED controlState
        /\ UNCHANGED <<cursor, rows, rollbackTo, active, step, late>>
    BY <2>1, <2>2 DEF ReportAcknowledged, SyncFrame, syncVars
  <2>5. s \in rows[r] /\ EarlierReported(r, s)
    BY <1>0, <2>4, NextIsEarliest
  <2>6. step' \notin {"heartbeat", "fetch"} /\ late' \subseteq late
    BY <2>4 DEF Reporting
  <2>7. CASE UNCHANGED controlState
    BY <1>4, <2>4, <2>6, <2>7
  <2>8. CASE C!RecordRevisionResult(Node, r, s, p)
    <3>1. \A q \in Revs : reported[q] \subseteq reported'[q]
      BY <1>2 DEF Grows
    <3> QED BY <1>0, <2>3, <2>4, <2>5, <2>6, <2>8, <3>1, RecordKeepsOrder
  <2> QED BY <2>4, <2>7, <2>8
<1> QED BY <1>5, <1>6, <1>7, <1>8, <1>9, <1>10, <1>11, <1>12, <1>13, <1>14, <1>15 DEF RolloutNext, SyncRuns

LEMMA OrderInit == RolloutInit => OrderInv
<1> SUFFICES ASSUME RolloutInit PROVE OrderInv
  OBVIOUS
<1>1. RolloutInv
  BY RolloutInvInit
<1>2. CP!Init
  BY Zenon DEF RolloutInit, C!Init, CP!Init, C!Pairs, CP!Pairs, C!Creds, CP!Creds, C!Versions, CP!Versions,
       C!Revs, CP!Revs
<1>3. CP!ControlInv /\ CP!SnapshotsFit
  BY <1>2, ControlAssumed, CP!InitHolds, CP!SnapshotsInit
<1>4. /\ cursor = 0 /\ active = 0 /\ rows = [r \in Revs |-> {}] /\ reported = [r \in Revs |-> {}]
      /\ step = "off" /\ late = {}
  BY DEF RolloutInit, Init
<1>5. /\ results = [r \in Revs |-> {}] /\ restored = [r \in Revs |-> 0]
      /\ progress[Node].received = 0 /\ progress[Node].validated = 0 /\ progress[Node].applied = 0
  BY SameNames DEF RolloutInit, C!Init
<1>6. HistoryFits /\ ReportsFit /\ ProgressFits
  BY <1>4, <1>5 DEF HistoryFits, ReportsFit, ProgressFits, ReceivedFits, ValidatedFits, AppliedFits
<1> QED BY <1>1, <1>3, <1>6 DEF OrderInv

LEMMA OrderNext == OrderInv /\ [RolloutNext]_rolloutVars => OrderInv'
<1>1. ASSUME OrderInv, RolloutNext PROVE OrderInv'
  <2>0. RolloutInv /\ CP!ControlInv /\ CP!SnapshotsFit /\ HistoryFits /\ ReportsFit
    BY <1>1 DEF OrderInv
  <2>1. RolloutInv'
    BY <1>1, <2>0, RolloutInvNext
  <2>2. HistoryFits'
    <3>1. ActivationInv /\ [Next]_vars
      BY <1>1, <2>0, RolloutRefines DEF RolloutInv
    <3> QED BY <2>0, <3>1, EveryStepWrites, HistoryStep
  <2>3. [CP!Next]_(CP!controlVars)
    BY <1>1, <2>0, RolloutUsesControl
  <2>4. CP!ControlInv' /\ CP!SnapshotsFit'
    BY <2>0, <2>3, ControlAssumed, CP!ControlStep, CP!SnapshotsStep
  <2>5. ReportsFit' /\ ProgressFits'
    BY <1>1, OrderStep
  <2> QED BY <2>1, <2>2, <2>4, <2>5 DEF OrderInv
<1>2. ASSUME OrderInv, UNCHANGED rolloutVars PROVE OrderInv'
  <2>0. RolloutInv /\ CP!ControlInv /\ CP!SnapshotsFit
    BY <1>2 DEF OrderInv
  <2>1. RolloutInv'
    BY <1>2, <2>0, RolloutInvNext
  <2>2. UNCHANGED CP!controlVars
    BY <1>2, ControlUnmoved DEF rolloutVars
  <2>3. CP!ControlInv' /\ CP!SnapshotsFit'
    BY <2>0, <2>2, ControlAssumed, CP!ControlStep, CP!SnapshotsStep
  <2>4. /\ UNCHANGED <<cursor, rows, reported, rollbackTo, active>> /\ UNCHANGED <<step, late>>
        /\ UNCHANGED <<results, restored, progress>>
    BY <1>2 DEF rolloutVars, vars, durable, controlState, syncVars
  <2>5. HistoryFits'
    BY <1>2, <2>4 DEF OrderInv, HistoryFits
  <2>6. ReportsFit'
    BY <1>2, <2>4 DEF OrderInv, ReportsFit, EarlierReported, RestoredBy
  <2>7. ProgressFits'
    BY <1>2, <2>4 DEF OrderInv, ProgressFits, ReceivedFits, ValidatedFits, AppliedFits
  <2> QED BY <2>1, <2>3, <2>5, <2>6, <2>7 DEF OrderInv
<1> QED BY <1>1, <1>2

\* The report that is due repeats one that Control has, or is one that Control takes.
LEMMA NextIsWelcome ==
    ASSUME OrderInv, step \in Reporting, NEW r \in Revs, NEW s \in ResultStates, IsNext(r, s),
           NEW p, p = RestoredBy(r, s)
    PROVE  C!ResultAccepted(Node, r, s, p) \/ C!ResultRepeated(Node, r, s, p)
<1>0. RolloutInv /\ HistoryFits /\ ReportsFit
  BY DEF OrderInv
<1>1. s \in rows[r] /\ s \notin reported[r] /\ EarlierReported(r, s)
  BY <1>0, NextIsEarliest
<1>2. /\ cursor \in Int /\ lastRevision \in Int /\ desired[Node] \in Int /\ \A q \in Revs : q \in Int
      /\ r <= cursor /\ cursor <= desired[Node] /\ desired[Node] <= lastRevision
  BY <1>0, <1>1, LedgerFacts, RevFacts
<1>3. \A q \in Revs : q <= r => target[q] = Node
  <2>1. \A q \in Revs : q <= r => q <= lastRevision
    BY <1>2
  <2> QED BY <1>0, <2>1 DEF RolloutInv, PublicationConsistent
<1>4. target[r] = Node /\ r <= desired[Node]
  BY <1>2, <1>3
<1>5. results[r] \subseteq rows[r] /\ rows[r] \subseteq ResultStates /\ reported[r] \subseteq results[r]
  BY <1>0, LedgerFacts
<1>6. ASSUME NEW q \in results[r] PROVE ~ (Rank(s) < Rank(q))
  BY <1>0, <1>1, <1>6 DEF ReportsFit, EarlierReported
<1>7. \A q \in results[r] : Rank(q) \in Int /\ Rank(s) \in Int
  BY <1>5, RankFacts
<1>8. CASE s \in results[r]
  <2>1. \A q \in results[r] : Rank(q) <= Rank(s)
    BY <1>6, <1>7
  <2>2. restored[r] = p
    <3>1. CASE s = "rolledBack"
      BY <1>0, <1>8, <3>1 DEF ReportsFit, RestoredBy
    <3>2. CASE s # "rolledBack"
      <4>1. "rolledBack" \notin results[r]
        <5> SUFFICES ASSUME "rolledBack" \in results[r] PROVE FALSE
          OBVIOUS
        <5>1. "rolledBack" \in TerminalResults /\ "rolledBack" \in ResultStates
          BY DEF TerminalResults, ResultStates
        <5>2. Rank(s) = 30
          <6>1. Rank("rolledBack") = 30 /\ Rank(s) \in Int /\ Rank(s) <= 30
            BY <5>1, RankFacts
          <6> QED BY <1>6, <6>1
        <5>3. s \in TerminalResults
          BY <5>2, RankFacts
        <5> QED BY <1>0, <1>1, <1>5, <3>2, <5>1, <5>3 DEF HistoryFits
      <4> QED BY <1>0, <3>2, <4>1 DEF ReportsFit, RestoredBy
    <3> QED BY <3>1, <3>2
  <2> QED BY <1>4, <1>8, <2>1, <2>2, SameNames DEF C!ResultRepeated
<1>9. CASE s \notin results[r]
  <2>1. ASSUME NEW q \in results[r] PROVE Rank(q) < Rank(s)
    <3>1. Rank(q) # Rank(s)
      <4> SUFFICES ASSUME Rank(q) = Rank(s) PROVE FALSE
        OBVIOUS
      <4>1. q # s /\ q \in ResultStates
        BY <1>5, <1>9
      <4>2. q \in TerminalResults /\ s \in TerminalResults
        BY <4>1, RankFacts
      <4> QED BY <1>0, <1>1, <1>5, <4>1, <4>2 DEF HistoryFits
    <3> QED BY <1>6, <1>7, <3>1
  <2>2. s \in {"applied", "rolledBack"} => "validated" \in results[r]
    <3> SUFFICES ASSUME s \in {"applied", "rolledBack"} PROVE "validated" \in results[r]
      OBVIOUS
    <3>1. "validated" \in rows[r]
      BY <1>0, <1>1 DEF HistoryFits
    <3>2. Rank("validated") < Rank(s)
      BY DEF Rank
    <3> QED BY <1>1, <1>5, <3>1, <3>2 DEF EarlierReported
  <2>3. s = "rolledBack" => p \in Revs /\ p < r /\ target[p] = Node /\ "applied" \in results[p]
    <3> SUFFICES ASSUME s = "rolledBack"
                 PROVE  p \in Revs /\ p < r /\ target[p] = Node /\ "applied" \in results[p]
      OBVIOUS
    <3>1. p \in Revs /\ p < r /\ "applied" \in rows[p]
      BY <1>0, <1>1, LedgerFacts DEF RestoredBy
    <3>2. p < cursor /\ p <= r
      BY <1>2, <3>1
    <3>3. "applied" \in reported[p]
      BY <1>0, <3>1, <3>2 DEF ReportsFit
    <3>4. "applied" \in results[p]
      BY <1>0, <3>1, <3>3, LedgerFacts
    <3> QED BY <1>3, <3>1, <3>2, <3>4
  <2> QED BY <1>4, <2>1, <2>2, <2>3, SameNames DEF C!ResultAccepted
<1> QED BY <1>8, <1>9

\* The active revision is recorded as applied, by the cursor.
LEMMA ActiveIsRecorded ==
    ASSUME RolloutInv, active # 0
    PROVE  active \in Revs /\ "applied" \in rows[active] /\ active <= cursor
<1>1. Tables
  BY InvHalves DEF RolloutInv
<1>2. active \in Revs
  BY <1>1, RevFacts DEF Tables, DurableTypeOK
<1>3. "applied" \in rows[active]
  BY <1>1, <1>2 DEF Tables, TablesConsistent
<1> QED BY <1>2, <1>3, LedgerFacts

\* There is one newest revision of a set, 0 when it is empty.
LEMMA NewestIsOne ==
    ASSUME NEW S \in SUBSET Revs, NEW a \in Revs0, NEW b \in Revs0,
           a # 0 => a \in S, \A q \in S : q <= a,
           b # 0 => b \in S, \A q \in S : q <= b
    PROVE  a = b
<1>1. a \in Nat /\ b \in Nat
  BY RevFacts
<1>2. a <= b
  BY <1>1
<1>3. b <= a
  BY <1>1
<1> QED BY <1>1, <1>2, <1>3

\* When the heartbeat is sent the columns of the cache are those the node reads from its
\* own results, but for an application that was reported before an older rollback.
LEMMA HeartbeatFollows ==
    ASSUME OrderInv, step = "heartbeat"
    PROVE  /\ Heartbeat.received = cursor /\ progress[Node].received = cursor
           /\ progress[Node].validated = Heartbeat.validated
           /\ \/ progress[Node].applied = active
              \/ \E r \in Revs : /\ "rolledBack" \in rows[r] /\ r < active
                                 /\ rollbackTo[r] = progress[Node].applied
<1>0. RolloutInv /\ CP!ControlInv /\ HistoryFits /\ ReportsFit /\ ProgressFits
  BY DEF OrderInv
<1>1. \A r \in Revs : results[r] = rows[r]
  <2>1. \A r \in Revs : rows[r] \subseteq reported[r]
    BY <1>0, Zenon DEF ReportsFit
  <2>2. \A r \in Revs : reported[r] \subseteq results[r] /\ results[r] \subseteq rows[r]
    BY <1>0, Zenon DEF RolloutInv, LedgersAgree
  <2> QED BY <2>1, <2>2
<1>2. /\ cursor \in Revs0 /\ active \in Revs0 /\ \A r \in Revs0 : r \in Int
      /\ (cursor # 0 => rows[cursor] # {}) /\ \A r \in Revs : rows[r] # {} => r <= cursor
  BY <1>0, LedgerFacts DEF DurableTypeOK, RolloutInv, SyncConsistent
<1>3. Revs \subseteq Revs0 /\ \A r \in Revs0 : r # 0 => r \in Revs
  BY RevFacts
<1>4. PICK rcv \in Revs0, val \in Revs0, app \in Revs0 :
         rcv = progress[Node].received /\ val = progress[Node].validated /\ app = progress[Node].applied
  BY <1>0, ControlColumns
<1>5. ReceivedFits(rcv) /\ ValidatedFits(val) /\ AppliedFits(app)
  BY <1>0, <1>4 DEF ProgressFits
<1>6. rcv = cursor
  <2> DEFINE S == {r \in Revs : rows[r] # {}}
  <2>1. (rcv # 0 => rcv \in S) /\ \A q \in S : q <= rcv
    BY <1>1, <1>3, <1>5 DEF ReceivedFits
  <2>2. (cursor # 0 => cursor \in S) /\ \A q \in S : q <= cursor
    BY <1>2, <1>3
  <2>3. S \in SUBSET Revs
    OBVIOUS
  <2> HIDE DEF S
  <2> QED BY <1>2, <2>1, <2>2, <2>3, NewestIsOne
<1>7. Heartbeat.received = cursor
  <2> DEFINE P(r) == /\ r # 0 => rows[r] # {}
                     /\ \A q \in Revs : q > r => rows[q] = {}
             S == {r \in Revs : rows[r] # {}}
  <2>1. \A r \in Revs0 : P(r) <=> (r # 0 => r \in S) /\ \A q \in S : q <= r
    BY <1>2, <1>3
  <2>2. P(cursor)
    BY <1>2, <1>3, <2>1
  <2>3. S \in SUBSET Revs
    OBVIOUS
  <2>4. Heartbeat.received = CHOOSE r \in Revs0 : P(r)
    BY DEF Heartbeat
  <2> HIDE DEF S, P
  <2>5. \A r \in Revs0 : P(r) => r = cursor
    BY <1>2, <2>1, <2>2, <2>3, NewestIsOne
  <2> QED BY <1>2, <2>2, <2>4, <2>5
<1>8. Heartbeat.validated = val
  <2> DEFINE P(r) == /\ r # 0 => "validated" \in rows[r]
                     /\ \A q \in Revs : q > r => "validated" \notin rows[q]
             S == {r \in Revs : "validated" \in rows[r]}
  <2>1. \A r \in Revs0 : P(r) <=> (r # 0 => r \in S) /\ \A q \in S : q <= r
    BY <1>2, <1>3
  <2>2. P(val)
    <3>1. (val # 0 => val \in S) /\ \A q \in S : q <= val
      BY <1>1, <1>3, <1>5 DEF ValidatedFits
    <3> QED BY <2>1, <3>1
  <2>3. S \in SUBSET Revs
    OBVIOUS
  <2>4. Heartbeat.validated = CHOOSE r \in Revs0 : P(r)
    BY DEF Heartbeat
  <2> HIDE DEF S, P
  <2>5. \A r \in Revs0 : P(r) => r = val
    BY <2>1, <2>2, <2>3, NewestIsOne
  <2> QED BY <2>2, <2>4, <2>5
<1>9. app = active \/ \E r \in Revs : "rolledBack" \in rows[r] /\ r < active /\ rollbackTo[r] = app
  <2>1. app <= active
    <3>1. CASE app = 0
      BY <1>2, <3>1, RevFacts
    <3>2. CASE app # 0
      BY <1>0, <1>1, <1>3, <1>5, <3>2 DEF AppliedFits, HistoryFits
    <3> QED BY <3>1, <3>2
  <2>2. CASE active = 0
    BY <2>1, <2>2, RevFacts
  <2>3. CASE active # 0
    <3>1. active \in Revs /\ "applied" \in results[active]
      BY <1>0, <1>1, <2>3, ActiveIsRecorded
    <3>2. \/ active <= app
          \/ \E q \in Revs : "rolledBack" \in results[q] /\ rollbackTo[q] = app /\ q < active
      BY <1>5, <3>1 DEF AppliedFits
    <3>3. app \in Int /\ active \in Int
      BY <1>2
    <3> QED BY <1>1, <2>1, <3>2, <3>3
  <2> QED BY <2>2, <2>3
<1> QED BY <1>4, <1>6, <1>7, <1>8, <1>9

\* What Control's applied revision carries, the node's active one carries too.
LEMMA ActiveCarries ==
    ASSUME OrderInv, NEW c \in C!Creds, cred[c] = "active"
    PROVE  active # 0 /\ c \in snapshot[active]
<1>0. RolloutInv /\ CP!ControlInv /\ CP!SnapshotsFit /\ HistoryFits
  BY DEF OrderInv
<1>1. PICK a \in Revs0 : a = progress[Node].applied
  BY <1>0, ControlColumns
<1>2. a # 0 /\ c \in snapshot[a] /\ target[a] = Node /\ "applied" \in results[a]
  BY <1>0, <1>1, ControlColumns
<1>3. a \in Revs /\ "applied" \in rows[a]
  BY <1>0, <1>2, LedgerFacts, RevFacts
<1>4. a <= active /\ a \in Nat /\ a # 0 /\ active \in Int
  BY <1>0, <1>2, <1>3, LedgerFacts, RevFacts DEF HistoryFits
<1>5. active # 0
  BY <1>4
<1>6. active \in Revs /\ active <= lastRevision
  <2>1. active \in Revs /\ active <= cursor /\ cursor <= desired[Node] /\ desired[Node] <= lastRevision
    BY <1>0, <1>5, ActiveIsRecorded, LedgerFacts
  <2>2. cursor \in Int /\ desired[Node] \in Int /\ lastRevision \in Int
    BY <1>0, LedgerFacts
  <2> QED BY <1>4, <2>1, <2>2
<1>7. target[active] = Node
  BY <1>0, <1>6 DEF RolloutInv, PublicationConsistent
<1>8. CP!Usable(c)
  BY DEF CP!Usable, CP!Current
<1>9. c \in snapshot[active]
  BY <1>0, <1>2, <1>3, <1>4, <1>6, <1>7, <1>8, SameNames DEF CP!SnapshotsFit
<1> QED BY <1>5, <1>9

\* The two instances of module Control have the same steps.
LEMMA SameSteps == [CP!Next]_(CP!controlVars) => [C!Next]_(C!controlVars)
<1>1. ASSUME NEW n, NEW r, NEW s, NEW p
      PROVE  C!RecordRevisionResult(n, r, s, p) <=> CP!RecordRevisionResult(n, r, s, p)
  BY SameRecord, Zenon
<1>2. ASSUME NEW n, NEW hb PROVE C!RecordHeartbeat(n, hb) <=> CP!RecordHeartbeat(n, hb)
  BY Zenon DEF C!RecordHeartbeat, CP!RecordHeartbeat, C!Authenticated, CP!Authenticated, C!HeartbeatFits,
       CP!HeartbeatFits, C!access, CP!access, C!publication, CP!publication
<1>3. C!NodeStep <=> CP!NodeStep
  BY <1>1, <1>2, Zenon DEF C!NodeStep, CP!NodeStep, C!Revs, CP!Revs, C!Revs0, CP!Revs0,
       C!ResultStates, CP!ResultStates
<1>4. C!Next <=> CP!Next
  BY <1>3, SameAdministration DEF C!Next, CP!Next
<1>5. UNCHANGED CP!controlVars => UNCHANGED C!controlVars
  BY DEF C!controlVars, CP!controlVars, C!access, CP!access, C!publication, CP!publication,
         C!progressed, CP!progressed
<1> QED BY <1>4, <1>5

-----------------------------------------------------------------------------
(* Theorems *)

\* The links between node, exchange and Control hold through every interleaving of the
\* service, its faults, timed-out and late reports and the administration.
THEOREM RolloutCorrect == RolloutSpec => []RolloutInv
  BY RolloutInvInit, RolloutInvNext, PTL DEF RolloutSpec

\* The exchange of sync.rs against the handlers of db.rs does nothing to a node that
\* module Activation does not allow: the composed system implements it.
THEOREM RolloutImplementsActivation == RolloutSpec => NodeImplementsActivation
  <1>1. RolloutInit => Init
    BY DEF RolloutInit
  <1>2. RolloutInv /\ [RolloutNext]_rolloutVars => [Next]_vars
    BY RolloutRefines DEF rolloutVars
  <1> QED BY <1>1, <1>2, RolloutCorrect, PTL DEF RolloutSpec, NodeImplementsActivation, Spec

\* Node and Control never disagree about the results of a revision by more than the
\* reports that are still owed.
THEOREM LedgersSafe == RolloutSpec => []LedgersAgree
  <1>1. RolloutInv => LedgersAgree
    BY DEF RolloutInv
  <1> QED BY <1>1, RolloutCorrect, PTL

\* The node never stops a running revision for one whose validation Control has not
\* recorded, or that was not published for it.
THEOREM SwitchSafe == RolloutSpec => []SwitchIsAuthorized
  <1>1. RolloutInv => SwitchIsAuthorized
    <2> SUFFICES ASSUME RolloutInv, pc \in Switching
                 PROVE  target[cand] = Node /\ "validated" \in results[cand]
      BY DEF SwitchIsAuthorized
    <2>1. cand \in Revs /\ cand = cursor /\ "validated" \in reported[cand]
      BY InvHalves, UnderSwitch DEF RolloutInv, Supervisor, SwitchConsistent
    <2>2. "validated" \in results[cand]
      BY <2>1 DEF RolloutInv, LedgersAgree
    <2>3. cand <= lastRevision
      <3>1. /\ desired[Node] \in Revs0 /\ lastRevision \in Revs0
            /\ cand <= desired[Node] /\ desired[Node] <= lastRevision
        BY <2>1 DEF RolloutInv, PublicationConsistent
      <3>2. cand \in Int /\ desired[Node] \in Int /\ lastRevision \in Int
        BY <2>1, <3>1, MaxRevAssumption DEF Revs0, Revs
      <3> QED BY <3>1, <3>2
    <2> QED BY <2>1, <2>2, <2>3 DEF RolloutInv, PublicationConsistent
  <1> QED BY <1>1, RolloutCorrect, PTL

\* The order of what the node records, what it reports, what is still on its way and what
\* Control has recorded holds together with the invariants of modules Activation and
\* Control, for every number of revisions, members, versions, faults and late reports.
THEOREM OrderKept == RolloutSpec => []OrderInv
  BY OrderInit, OrderNext, PTL DEF RolloutSpec

\* The exchange of sync.rs uses the handlers of db.rs only as module Control says they can
\* be used, so that every property proved of that module holds of the composed system.
THEOREM RolloutImplementsControl == RolloutSpec => C!Spec
  <1>1. RolloutInit => C!Init
    BY DEF RolloutInit
  <1>2. OrderInv /\ [RolloutNext]_rolloutVars => [C!Next]_(C!controlVars)
    <2>1. ASSUME OrderInv, RolloutNext PROVE [CP!Next]_(CP!controlVars)
      BY <2>1, RolloutUsesControl DEF OrderInv
    <2>2. ASSUME UNCHANGED rolloutVars PROVE UNCHANGED CP!controlVars
      BY <2>2, ControlUnmoved DEF rolloutVars
    <2>3. [CP!Next]_(CP!controlVars) => [C!Next]_(C!controlVars)
      BY SameSteps
    <2> QED BY <2>1, <2>2, <2>3
  <1> QED BY <1>1, <1>2, OrderKept, PTL DEF RolloutSpec, C!Spec

\* No report the node owes is ever refused as a conflict by validate_transition_from or
\* validate_result_dependencies, however earlier reports were lost, repeated or late: a
\* node that Control authenticates is never cut off from its next desired state.
THEOREM ReportsWelcome == RolloutSpec => []ReportsAreWelcome
  <1>1. OrderInv => ReportsAreWelcome
    <2> SUFFICES ASSUME OrderInv, step \in Reporting, NEW r \in Revs, NEW s \in ResultStates, IsNext(r, s)
                 PROVE  \/ C!ResultAccepted(Node, r, s, Report(r, s).restored)
                        \/ C!ResultRepeated(Node, r, s, Report(r, s).restored)
      BY DEF ReportsAreWelcome
    <2>1. Report(r, s).restored = RestoredBy(r, s)
      BY DEF Report, RestoredBy
    <2> QED BY <2>1, NextIsWelcome
  <1> QED BY <1>1, OrderKept, PTL

\* The cursors of a heartbeat (current_heartbeat_with_relay) are the columns of Control's
\* progress cache, except that the applied one may differ after a rollback whose report
\* followed that of a newer applied revision.
THEOREM HeartbeatAgreement == RolloutSpec => []HeartbeatAgrees
  <1>1. OrderInv => HeartbeatAgrees
    BY HeartbeatFollows DEF HeartbeatAgrees
  <1> QED BY <1>1, OrderKept, PTL

\* A credential that bundles hand out as active is known to the revision that the node has
\* activated, also while the node is ahead of what it has reported.
THEOREM ActiveServed == RolloutSpec => []ActiveIsServed
  <1>1. OrderInv => ActiveIsServed
    BY ActiveCarries DEF ActiveIsServed
  <1> QED BY <1>1, OrderKept, PTL
=============================================================================
