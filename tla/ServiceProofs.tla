---------------------------- MODULE ServiceProofs ----------------------------
(***************************************************************************)
(* Proofs about the smaller parts of the Control Service, for every value  *)
(* of their constants: signed requests (Requests), backup and restore      *)
(* (Backup), idempotency keys and one-time tokens (OneTime) and operator   *)
(* rollbacks (Rollbacks).  Each part has its inductive invariant, which    *)
(* says why the property that TLC checks can never break.                  *)
(***************************************************************************)
EXTENDS Requests, Backup, OneTime, Rollbacks, FiniteSetTheorems, TLAPS

-----------------------------------------------------------------------------
(* Requests: the nonce of a handled request is stored for as long as its   *)
(* timestamp would be accepted.                                            *)

RequestsTypeOK ==
    /\ now \in Int
    /\ signed \in [Wire -> Int]
    /\ handled \in [Wire -> Nat]

Fenced(r) ==
    \/ handled[r] = 0
    \/ /\ handled[r] = 1
       /\ \/ [request |-> r, expires |-> signed[r] + Skew] \in nonces
          \/ now > signed[r] + Skew

RequestsInv == RequestsTypeOK /\ \A r \in Wire : Fenced(r)

LEMMA SignRequestHolds ==
    ASSUME RequestsInv, NEW offset \in Int, SignRequest(offset)
    PROVE  RequestsInv'
<1> DEFINE r == Cardinality(Wire) + 1
<1>1. /\ signed' = [s \in Wire \cup {r} |-> IF s = r THEN now + offset ELSE signed[s]]
      /\ handled' = [s \in Wire \cup {r} |-> IF s = r THEN 0 ELSE handled[s]]
      /\ now' = now /\ nonces' = nonces
  BY DEF SignRequest
<1> HIDE DEF r
<1>2. Wire' = Wire \cup {r}
  BY <1>1 DEF Wire
<1>3. RequestsTypeOK'
  BY <1>1, <1>2 DEF RequestsInv, RequestsTypeOK
<1>4. \A s \in Wire' : Fenced(s)'
  BY <1>1, <1>2 DEF RequestsInv, Fenced
<1> QED BY <1>3, <1>4 DEF RequestsInv

\* A request that is handled was not handled before: its nonce would still be stored.
LEMMA AuthenticateNodeHolds ==
    ASSUME RequestsInv, NEW r \in Wire, AuthenticateNode(r)
    PROVE  RequestsInv'
<1>1. /\ WithinSkew(r) /\ \A n \in Purged : n.request # r
      /\ nonces' = Purged \cup {[request |-> r, expires |-> signed[r] + Skew]}
      /\ handled' = [handled EXCEPT ![r] = @ + 1]
      /\ now' = now /\ signed' = signed
  BY DEF AuthenticateNode, AuthenticateNodeRequest, PassesAuthentication
<1>2. Wire' = Wire /\ Skew \in Int /\ now \in Int /\ \A s \in Wire : signed[s] \in Int
  BY <1>1, RequestsAssumption DEF Wire, RequestsInv, RequestsTypeOK
<1>3. now <= signed[r] + Skew
  BY <1>1, <1>2 DEF WithinSkew
<1>4. handled[r] = 0
  <2> SUFFICES ASSUME handled[r] # 0 PROVE FALSE
    OBVIOUS
  <2>1. [request |-> r, expires |-> signed[r] + Skew] \in nonces
    BY <1>2, <1>3 DEF RequestsInv, Fenced
  <2>2. [request |-> r, expires |-> signed[r] + Skew] \in Purged
    BY <1>2, <1>3, <2>1 DEF Purged
  <2> QED BY <1>1, <2>2
<1>5. RequestsTypeOK'
  BY <1>1, <1>2 DEF RequestsInv, RequestsTypeOK
<1>6. ASSUME NEW s \in Wire PROVE Fenced(s)'
  <2>1. CASE s = r
    BY <1>1, <1>2, <1>4, <2>1 DEF RequestsInv, RequestsTypeOK, Fenced
  <2>2. CASE s # r
    <3>1. handled'[s] = handled[s]
      BY <1>1, <2>2 DEF RequestsInv, RequestsTypeOK
    <3>2. CASE [request |-> s, expires |-> signed[s] + Skew] \in nonces
      <4> DEFINE m == [request |-> s, expires |-> signed[s] + Skew]
      <4>1. m \in Purged \/ now > signed[s] + Skew
        BY <1>2, <3>2 DEF Purged
      <4> QED BY <1>1, <3>1, <4>1 DEF RequestsInv, Fenced
    <3>3. CASE [request |-> s, expires |-> signed[s] + Skew] \notin nonces
      BY <1>1, <3>1, <3>3 DEF RequestsInv, Fenced
    <3> QED BY <3>2, <3>3
  <2> QED BY <2>1, <2>2
<1> QED BY <1>2, <1>5, <1>6 DEF RequestsInv

\* No signed request is handled twice, for every clock skew, every number of requests and
\* of repetitions and every disagreement of the clocks (authenticate_node_request).
THEOREM RequestsHandledOnce == RequestsSpec => []HandledOnce
<1>1. RequestsInit => RequestsInv
  BY DEF RequestsInit, RequestsInv, RequestsTypeOK, Wire, Fenced
<1>2. RequestsInv /\ [RequestsNext]_requestVars => RequestsInv'
  <2> SUFFICES ASSUME RequestsInv, [RequestsNext]_requestVars PROVE RequestsInv'
    OBVIOUS
  <2>1. CASE \E offset \in -MaxOffset .. MaxOffset : SignRequest(offset)
    BY <2>1, SignRequestHolds, RequestsAssumption
  <2>2. CASE \E r \in Wire : AuthenticateNode(r)
    BY <2>2, AuthenticateNodeHolds
  <2>3. CASE CredentialEnds
    BY <2>3 DEF CredentialEnds, RequestsInv, RequestsTypeOK, Fenced, Wire
  <2>4. CASE SecondPasses
    <3>1. now' = now + 1 /\ UNCHANGED <<signed, nonces, handled>> /\ Wire' = Wire
      BY <2>4 DEF SecondPasses, Wire
    <3>2. now \in Int /\ Skew \in Int /\ \A r \in Wire : signed[r] \in Int
      BY RequestsAssumption DEF RequestsInv, RequestsTypeOK
    <3>3. ASSUME NEW r \in Wire PROVE Fenced(r)'
      BY <3>1, <3>2 DEF RequestsInv, Fenced
    <3> QED BY <3>1, <3>3 DEF RequestsInv, RequestsTypeOK
  <2>5. CASE UNCHANGED requestVars
    BY <2>5 DEF requestVars, RequestsInv, RequestsTypeOK, Fenced, Wire
  <2> QED BY <2>1, <2>2, <2>3, <2>4, <2>5 DEF RequestsNext
<1>3. RequestsInv => HandledOnce
  <2>1. ASSUME NEW r \in Wire, Fenced(r) PROVE handled[r] <= 1
    BY <2>1 DEF Fenced
  <2> QED BY <2>1 DEF RequestsInv, HandledOnce
<1> QED BY <1>1, <1>2, <1>3, PTL DEF RequestsSpec

-----------------------------------------------------------------------------
(* Backup: whatever a restore that was given a baseline has got hold of,   *)
(* at any point of its way, is at least the database it is going to        *)
(* replace.                                                                *)

Levels == [Marks -> Nat]

BackupTypeOK ==
    /\ marks \in Levels /\ observed \in Levels
    /\ service \in {"up", "down"}
    /\ artifact \in [Artifacts -> [state : {"absent", "sealed"}, damaged : SUBSET Parts, marks : Levels]]
    /\ staging \in [at : {"idle", "staged"}, source : Artifacts \cup {"none"}, marks : Levels]
    /\ staging.at = "staged" => staging.source \in Artifacts
    /\ restoring \in [at : {"idle", "verified", "copied"}, source : Artifacts \cup {"none"}, marks : Levels]
    /\ restoring.at # "idle" => restoring.source \in Artifacts
    /\ generation \in [state : {"absent", "sealed"}, damaged : SUBSET Parts, marks : Levels]
    /\ restores \in Nat /\ waived \in BOOLEAN

\* A destination is written once, and a baseline stands still during its restore.
BackupPositions ==
    /\ staging.at = "staged" => artifact[staging.source].state = "absent"
    /\ restoring.at # "idle" => (waived \/ service = "down") /\ artifact[restoring.source].state = "sealed"
    /\ generation.state = "sealed" => (waived \/ service = "down") /\ restoring.at = "idle"

BackupIsAhead ==
    /\ AtLeast(marks, observed)
    /\ restoring.at = "verified" /\ ~ waived => AtLeast(artifact[restoring.source].marks, marks)
    /\ restoring.at = "copied" /\ ~ waived => AtLeast(restoring.marks, marks)
    /\ generation.state = "sealed" /\ ~ waived => AtLeast(generation.marks, marks)

BackupInv == BackupTypeOK /\ BackupPositions /\ BackupIsAhead

\* Marks that are passed on twice never fall behind.
LEMMA AtLeastTransitive ==
    ASSUME NEW a \in Levels, NEW b \in Levels, NEW c \in Levels, AtLeast(a, b), AtLeast(b, c)
    PROVE  AtLeast(a, c)
  BY DEF Levels, AtLeast

\* What nodes see of a commit is what was committed.
LEMMA NewestIsSeen ==
    ASSUME NEW a \in Levels, NEW b \in Levels, NEW c \in Levels, AtLeast(a, b), AtLeast(c, a)
    PROVE  Newest(b, c) \in Levels /\ AtLeast(c, Newest(b, c))
  BY DEF Levels, AtLeast, Newest

\* What is seen of a history that was cut short is what the generation knows of it.
LEMMA OldestIsKnown ==
    ASSUME NEW a \in Levels, NEW b \in Levels
    PROVE  Oldest(a, b) \in Levels /\ AtLeast(b, Oldest(a, b))
  BY DEF Levels, AtLeast, Oldest

\* A commit of the running service moves marks upwards.
LEMMA CommitHolds ==
    ASSUME BackupInv, service = "up", marks' \in Levels, AtLeast(marks', marks),
           observed' \in {observed, Newest(observed, marks')},
           UNCHANGED <<service, artifact, staging, restoring, waived, generation, restores>>
    PROVE  BackupInv'
<1>1. observed \in Levels /\ marks \in Levels /\ AtLeast(marks, observed)
  BY DEF BackupInv, BackupTypeOK, BackupIsAhead
<1>2. observed' \in Levels /\ AtLeast(marks', observed')
  BY <1>1, NewestIsSeen, AtLeastTransitive
<1>3. BackupTypeOK'
  BY <1>2 DEF BackupInv, BackupTypeOK
<1>4. BackupPositions'
  BY DEF BackupInv, BackupPositions
<1>5. BackupIsAhead'
  BY <1>2 DEF BackupInv, BackupPositions, BackupTypeOK, BackupIsAhead
<1> QED BY <1>3, <1>4, <1>5 DEF BackupInv

LEMMA ZeroIsLevel == Zero \in Levels /\ "revision" \in Marks /\ "audit" \in Marks
  BY DEF Zero, Levels, Marks

LEMMA BackupStep == BackupInv /\ [BackupNext]_backupVars => BackupInv'
<1> SUFFICES ASSUME BackupInv, [BackupNext]_backupVars PROVE BackupInv'
  OBVIOUS
<1>0. BackupTypeOK /\ BackupPositions /\ BackupIsAhead /\ marks \in Levels
  BY DEF BackupInv, BackupTypeOK
<1>1. CASE CommitRevision
  <2>1. marks' = [marks EXCEPT !["revision"] = @ + 1, !["audit"] = @ + 1]
    BY <1>1 DEF CommitRevision
  <2>2. marks' \in Levels /\ AtLeast(marks', marks)
    BY <1>0, <2>1, ZeroIsLevel DEF Levels, AtLeast
  <2> QED BY <1>1, <2>2, CommitHolds DEF CommitRevision
<1>2. CASE \E c \in Counters : CommitCounter(c)
  <2>1. PICK c \in Counters : CommitCounter(c)
    BY <1>2
  <2>2. marks' = [marks EXCEPT ![c] = @ + 1] /\ c \in Marks
    BY <2>1 DEF CommitCounter, Marks
  <2>3. marks' \in Levels /\ AtLeast(marks', marks)
    BY <1>0, <2>2 DEF Levels, AtLeast
  <2> QED BY <2>1, <2>3, CommitHolds DEF CommitCounter
<1>3. CASE StopService
  BY <1>0, <1>3 DEF StopService, BackupInv, BackupTypeOK, BackupPositions, BackupIsAhead
<1>4. CASE StartService
  <2>1. /\ service' = "up" /\ UNCHANGED <<artifact, staging, restoring, waived, restores>>
        /\ restoring.at = "idle" \/ waived
    BY <1>4 DEF StartService, OperationLockIsFree
  <2>2. CASE generation.state = "absent"
    <3>1. UNCHANGED <<marks, observed, generation>>
      BY <1>4, <2>2 DEF StartService
    <3> QED BY <1>0, <2>1, <2>2, <3>1
            DEF BackupInv, BackupTypeOK, BackupPositions, BackupIsAhead
  <2>3. CASE generation.state = "sealed"
    <3>1. /\ marks' = generation.marks /\ generation' = Absent
          /\ observed' = IF waived THEN Oldest(observed, generation.marks) ELSE observed
      BY <1>4, <2>3 DEF StartService
    <3>2. generation.marks \in Levels /\ observed \in Levels /\ restoring.at = "idle"
      BY <1>0, <2>3 DEF BackupTypeOK, BackupPositions
    <3>3. marks' \in Levels /\ observed' \in Levels /\ AtLeast(marks', observed')
      <4>1. CASE waived
        BY <3>1, <3>2, <4>1, OldestIsKnown
      <4>2. CASE ~ waived
        <5>1. AtLeast(generation.marks, marks) /\ AtLeast(marks, observed)
          BY <1>0, <2>3, <4>2 DEF BackupIsAhead
        <5> QED BY <1>0, <3>1, <3>2, <4>2, <5>1, AtLeastTransitive
      <4> QED BY <4>1, <4>2
    <3>4. BackupTypeOK'
      BY <1>0, <2>1, <3>1, <3>3, ZeroIsLevel DEF BackupTypeOK, Absent
    <3>5. BackupPositions'
      BY <1>0, <2>1, <3>1, <3>2 DEF BackupPositions, Absent
    <3>6. BackupIsAhead'
      BY <1>0, <2>1, <3>1, <3>2, <3>3 DEF BackupIsAhead, Absent
    <3> QED BY <3>4, <3>5, <3>6 DEF BackupInv
  <2> QED BY <1>0, <2>2, <2>3 DEF BackupTypeOK
<1>5. CASE \E a \in Artifacts : CreateSqliteSnapshot(a)
  BY <1>0, <1>5 DEF CreateSqliteSnapshot, BackupInv, BackupTypeOK, BackupPositions, BackupIsAhead
<1>6. CASE PersistBackup
  <2> DEFINE b == staging.source
  <2>1. /\ b \in Artifacts /\ artifact[b].state = "absent"
        /\ artifact' = [artifact EXCEPT ![b] = Sealed(staging.marks)]
        /\ staging' = NoCommand
        /\ UNCHANGED <<marks, service, observed, restoring, waived, generation, restores>>
    BY <1>0, <1>6 DEF PersistBackup, BackupTypeOK, BackupPositions
  <2>2. Sealed(staging.marks) \in [state : {"absent", "sealed"}, damaged : SUBSET Parts, marks : Levels]
    BY <1>0 DEF BackupTypeOK, Sealed
  <2>3. restoring.at # "idle" => artifact'[restoring.source] = artifact[restoring.source]
    BY <1>0, <2>1 DEF BackupTypeOK, BackupPositions
  <2> HIDE DEF b
  <2>4. BackupTypeOK'
    <3>1. artifact' \in [Artifacts -> [state : {"absent", "sealed"}, damaged : SUBSET Parts, marks : Levels]]
      BY <1>0, <2>1, <2>2 DEF BackupTypeOK
    <3> QED BY <1>0, <2>1, <3>1, ZeroIsLevel DEF BackupTypeOK, NoCommand
  <2>5. BackupPositions'
    BY <1>0, <2>1, <2>3 DEF BackupPositions, NoCommand
  <2>6. BackupIsAhead'
    BY <1>0, <2>1, <2>3 DEF BackupIsAhead
  <2> QED BY <2>4, <2>5, <2>6 DEF BackupInv
<1>7. CASE CreateFails
  BY <1>0, <1>7, ZeroIsLevel
     DEF CreateFails, NoCommand, BackupInv, BackupTypeOK, BackupPositions, BackupIsAhead
<1>8. CASE \E a \in Artifacts, part \in Parts : DamageArtifact(a, part)
  <2>1. PICK a \in Artifacts, part \in Parts : DamageArtifact(a, part)
    BY <1>8
  <2>2. /\ artifact' = [artifact EXCEPT ![a].damaged = {part}]
        /\ UNCHANGED <<marks, service, observed, staging, restoring, waived, generation, restores>>
    BY <2>1 DEF DamageArtifact
  <2>3. /\ artifact' \in [Artifacts -> [state : {"absent", "sealed"}, damaged : SUBSET Parts, marks : Levels]]
        /\ \A b \in Artifacts : artifact'[b].state = artifact[b].state /\ artifact'[b].marks = artifact[b].marks
    BY <1>0, <2>2 DEF BackupTypeOK
  <2>4. BackupTypeOK'
    BY <1>0, <2>2, <2>3 DEF BackupTypeOK
  <2>5. BackupPositions' /\ BackupIsAhead'
    BY <1>0, <2>2, <2>3 DEF BackupTypeOK, BackupPositions, BackupIsAhead
  <2> QED BY <2>4, <2>5 DEF BackupInv
<1>9. ASSUME NEW a \in Artifacts, BeginRestore(a) \/ BeginRestoreWithoutHistory(a) PROVE BackupInv'
  <2>1. /\ generation.state = "absent" /\ artifact[a].state = "sealed"
        /\ restoring' = [at |-> "verified", source |-> a, marks |-> Zero]
        /\ UNCHANGED <<marks, service, observed, artifact, staging, generation, restores>>
    BY <1>9 DEF BeginRestore, BeginRestoreWithoutHistory, RestoreBackup, VerifyBackup, EnsureExactBackupLayout
  <2>2. waived' \in BOOLEAN /\ (waived' \/ (service = "down" /\ AtLeast(artifact[a].marks, marks)))
    BY <1>9 DEF BeginRestore, BeginRestoreWithoutHistory, OperationLockIsFree, EnsureNotRollback,
                InspectController, LoadHighWater
  <2> QED BY <1>0, <2>1, <2>2, ZeroIsLevel DEF BackupInv, BackupTypeOK, BackupPositions, BackupIsAhead
<1>10. CASE CopyToStaging
  <2>1. UNCHANGED <<marks, service, observed, artifact, staging, waived, generation, restores>>
    BY <1>10 DEF CopyToStaging
  <2>2. restoring.at = "verified" /\ restoring.source \in Artifacts
    BY <1>0, <1>10 DEF CopyToStaging, BackupTypeOK
  <2>3. CASE restoring' = NoCommand
    BY <1>0, <2>1, <2>3, ZeroIsLevel
       DEF NoCommand, BackupInv, BackupTypeOK, BackupPositions, BackupIsAhead
  <2>4. CASE restoring' = [restoring EXCEPT !.at = "copied", !.marks = artifact[restoring.source].marks]
    <3>1. /\ restoring'.at = "copied" /\ restoring'.source = restoring.source
          /\ restoring'.marks = artifact[restoring.source].marks
          /\ restoring' \in [at : {"idle", "verified", "copied"}, source : Artifacts \cup {"none"}, marks : Levels]
      BY <1>0, <2>2, <2>4 DEF BackupTypeOK
    <3>2. BackupTypeOK'
      BY <1>0, <2>1, <2>2, <3>1 DEF BackupTypeOK
    <3>3. BackupPositions' /\ BackupIsAhead'
      BY <1>0, <2>1, <2>2, <3>1 DEF BackupPositions, BackupIsAhead
    <3> QED BY <3>2, <3>3 DEF BackupInv
  <2> QED BY <1>10, <2>3, <2>4 DEF CopyToStaging
<1>11. CASE PersistGeneration
  BY <1>0, <1>11, ZeroIsLevel
     DEF PersistGeneration, Sealed, NoCommand, BackupInv, BackupTypeOK, BackupPositions, BackupIsAhead
<1>12. CASE RestoreFails
  BY <1>0, <1>12, ZeroIsLevel
     DEF RestoreFails, NoCommand, BackupInv, BackupTypeOK, BackupPositions, BackupIsAhead
<1>13. CASE UNCHANGED backupVars
  BY <1>0, <1>13 DEF backupVars, BackupInv, BackupTypeOK, BackupPositions, BackupIsAhead
<1> QED BY <1>1, <1>2, <1>3, <1>4, <1>5, <1>6, <1>7, <1>8, <1>9, <1>10, <1>11, <1>12, <1>13
        DEF BackupNext

\* A service that runs is never behind what a node or a device has seen of the history in
\* force, whatever backups are taken, damaged and restored and wherever the commands die: for
\* every set of counters and of artifacts (ensure_not_rollback and the database's lock). A
\* restore that waives the comparison starts a history from what its backup knows.
THEOREM NothingForgotten == BackupSpec => []NothingSeenIsForgotten
<1>1. BackupInit => BackupInv
  <2>1. BackupInit => BackupTypeOK
    <3> SUFFICES ASSUME BackupInit PROVE BackupTypeOK
      OBVIOUS
    <3>1. waived \in BOOLEAN
      BY Zenon DEF BackupInit
    <3>2. /\ marks = Zero /\ observed = Zero /\ service = "up" /\ restores = 0
          /\ artifact = [a \in Artifacts |-> Absent] /\ generation = Absent
          /\ staging = NoCommand /\ restoring = NoCommand
      BY DEF BackupInit
    <3>3. Absent \in [state : {"absent", "sealed"}, damaged : SUBSET Parts, marks : Levels]
      BY ZeroIsLevel DEF Absent
    <3> QED BY <3>1, <3>2, <3>3, ZeroIsLevel DEF NoCommand, BackupTypeOK
  <2>2. BackupInit => AtLeast(marks, observed)
    BY ZeroIsLevel DEF BackupInit, AtLeast, Levels
  <2>3. BackupInit => BackupPositions /\ BackupIsAhead
    BY <2>2 DEF BackupInit, Absent, NoCommand, BackupPositions, BackupIsAhead
  <2> QED BY <2>1, <2>3 DEF BackupInv
<1>2. BackupInv => NothingSeenIsForgotten
  BY DEF BackupInv, BackupIsAhead, NothingSeenIsForgotten
<1> QED BY <1>1, <1>2, BackupStep, PTL DEF BackupSpec

-----------------------------------------------------------------------------
(* OneTime: every answer that was ever given can be read off a row, no two *)
(* rows of a route share a key, and rows keep what answers were read from. *)

TokenRow == [kind : {"reset", "activation"}, issue : [key : Keys, contents : Contents],
             state : {"open", "consumed", "expired"},
             use : [key : Keys \cup {"none"}, contents : Contents \cup {"none"}, version : Nat]]

Consumed == {t \in Issued : tokens[t].state = "consumed"}

OneTimeTypeOK ==
    /\ \E k \in Nat : Issued = 1 .. k
    /\ tokens \in [Issued -> TokenRow]
    /\ member \in [status : {"active", "disabled", "deleted"}, password : Contents \cup {"none"}, version : Nat]
    /\ changes \in Nat

\* A key is used for one account, and for one token of each kind.
KeysAreUsedOnce ==
    /\ \A r, s \in idempotency : r.key = s.key => r = s
    /\ \A t, u \in Issued : tokens[t].kind = tokens[u].kind
                           /\ tokens[t].issue.key = tokens[u].issue.key => t = u

AnswerOfRecord(r) ==
    [route |-> <<"create", 0>>, key |-> r.key, contents |-> r.contents, result |-> r.account]
AnswerOfIssue(t) ==
    [route |-> <<tokens[t].kind, 0>>, key |-> tokens[t].issue.key,
     contents |-> tokens[t].issue.contents, result |-> t]
AnswerOfUse(t) ==
    [route |-> <<"consume", t>>, key |-> tokens[t].use.key,
     contents |-> tokens[t].use.contents, result |-> tokens[t].use.version]

Recorded(a) ==
    \/ \E r \in idempotency : a = AnswerOfRecord(r)
    \/ \E t \in Issued : a = AnswerOfIssue(t)
    \/ \E t \in Consumed : a = AnswerOfUse(t)

VersionCounts == member.version = 1 + changes + Cardinality(Consumed)

OneTimeInv ==
    /\ OneTimeTypeOK /\ KeysAreUsedOnce /\ VersionCounts
    /\ family \in {0, member.version}
    /\ \A a \in answers : Recorded(a)

Accounts == [status : {"active", "disabled", "deleted"}, password : Contents \cup {"none"}, version : Nat]

LEMMA PasswordReplaced ==
    ASSUME NEW a \in Accounts, NEW contents \in Contents
    PROVE  LET b == [a EXCEPT !.password = contents, !.version = @ + 1]
           IN  b \in Accounts /\ a.version \in Nat /\ b.version = a.version + 1
<1> DEFINE b == [a EXCEPT !.password = contents, !.version = @ + 1]
           d == [a EXCEPT !.password = contents]
<1>1. d \in Accounts /\ d.version = a.version /\ a.version \in Nat
  BY DEF Accounts
<1>2. b = [d EXCEPT !.version = @ + 1]
  OBVIOUS
<1> HIDE DEF b, d
<1>3. b \in Accounts /\ b.version = d.version + 1
  BY <1>1, <1>2 DEF Accounts
<1> QED BY <1>1, <1>3 DEF b

LEMMA ConsumedIsFinite ==
    ASSUME OneTimeTypeOK
    PROVE  /\ IsFiniteSet(Issued) /\ Cardinality(Issued) \in Nat
           /\ Issued = 1 .. Cardinality(Issued)
           /\ IsFiniteSet(Consumed) /\ Cardinality(Consumed) \in Nat
<1>1. PICK k \in Nat : Issued = 1 .. k
  BY DEF OneTimeTypeOK
<1>2. IsFiniteSet(1 .. k) /\ Cardinality(1 .. k) = k
  BY FS_Interval
<1>3. Consumed \in SUBSET Issued
  BY DEF Consumed
<1>4. IsFiniteSet(Consumed)
  BY <1>1, <1>2, <1>3, FS_Subset
<1> QED BY <1>1, <1>2, <1>4, FS_CardinalityType

\* Rows that keep their key, their request and their use keep every answer.
LEMMA RowsKeepAnswers ==
    ASSUME NEW a, Recorded(a), idempotency \subseteq idempotency', Issued \subseteq Issued',
           \A t \in Issued : tokens'[t].kind = tokens[t].kind /\ tokens'[t].issue = tokens[t].issue,
           \A t \in Consumed : tokens'[t].state = "consumed" /\ tokens'[t].use = tokens[t].use
    PROVE  Recorded(a)'
<1>1. CASE \E r \in idempotency : a = AnswerOfRecord(r)
  BY <1>1 DEF Recorded, AnswerOfRecord
<1>2. CASE \E t \in Issued : a = AnswerOfIssue(t)
  BY <1>2 DEF Recorded, AnswerOfIssue
<1>3. CASE \E t \in Consumed : a = AnswerOfUse(t)
  <2>1. PICK t \in Consumed : a = AnswerOfUse(t)
    BY <1>3
  <2>2. t \in Consumed' /\ AnswerOfUse(t)' = AnswerOfUse(t)
    BY DEF Consumed, AnswerOfUse
  <2> QED BY <2>1, <2>2 DEF Recorded
<1> QED BY <1>1, <1>2, <1>3 DEF Recorded

\* Answers read off the rows agree with one another.
LEMMA RecordedAgree ==
    ASSUME OneTimeTypeOK, KeysAreUsedOnce, NEW a, NEW b, Recorded(a), Recorded(b),
           a.route = b.route, a.key = b.key
    PROVE  a = b
<1>1. \A t \in Issued : tokens[t].kind \in {"reset", "activation"}
  BY DEF OneTimeTypeOK, TokenRow
<1>2. \A t \in Consumed : t \in Issued
  BY DEF Consumed
<1>3. CASE \E r \in idempotency : a = AnswerOfRecord(r)
  <2>1. PICK r \in idempotency : a = AnswerOfRecord(r)
    BY <1>3
  <2>2. PICK s \in idempotency : b = AnswerOfRecord(s)
    BY <1>1, <2>1 DEF Recorded, AnswerOfRecord, AnswerOfIssue, AnswerOfUse
  <2> QED BY <2>1, <2>2 DEF AnswerOfRecord, KeysAreUsedOnce
<1>4. CASE \E t \in Issued : a = AnswerOfIssue(t)
  <2>1. PICK t \in Issued : a = AnswerOfIssue(t)
    BY <1>4
  <2>2. PICK u \in Issued : b = AnswerOfIssue(u)
    BY <1>1, <2>1 DEF Recorded, AnswerOfRecord, AnswerOfIssue, AnswerOfUse
  <2> QED BY <2>1, <2>2 DEF AnswerOfIssue, KeysAreUsedOnce
<1>5. CASE \E t \in Consumed : a = AnswerOfUse(t)
  <2>1. PICK t \in Consumed : a = AnswerOfUse(t)
    BY <1>5
  <2>2. PICK u \in Consumed : b = AnswerOfUse(u)
    BY <1>1, <2>1 DEF Recorded, AnswerOfRecord, AnswerOfIssue, AnswerOfUse
  <2> QED BY <2>1, <2>2 DEF AnswerOfUse
<1> QED BY <1>3, <1>4, <1>5 DEF Recorded

\* A repetition is answered from a row and writes nothing.
LEMMA ReplayHolds ==
    ASSUME OneTimeInv, UNCHANGED <<idempotency, tokens, member, family, changes>>,
           NEW a, Recorded(a), answers' = answers \cup {a}
    PROVE  OneTimeInv'
<1>1. Issued' = Issued /\ Consumed' = Consumed
  BY DEF Issued, Consumed
<1>2. \A b : Recorded(b)' <=> Recorded(b)
  BY <1>1 DEF Recorded, AnswerOfRecord, AnswerOfIssue, AnswerOfUse
<1> QED BY <1>1, <1>2 DEF OneTimeInv, OneTimeTypeOK, KeysAreUsedOnce, VersionCounts

LEMMA CreateAccountHolds ==
    ASSUME OneTimeInv, NEW key \in Keys, NEW contents \in Contents, CreateAccount(key, contents)
    PROVE  OneTimeInv'
<1>0. PICK r : r = [key |-> key, contents |-> contents, account |-> Cardinality(idempotency) + 1]
  OBVIOUS
<1>1. /\ \A s \in idempotency : s.key # key
      /\ idempotency' = idempotency \cup {r}
      /\ answers' = answers \cup {AnswerOfRecord(r)}
      /\ UNCHANGED <<tokens, member, family, changes>>
  BY <1>0 DEF CreateAccount, RecordsOf, Answer, AnswerOfRecord
<1>2. r.key = key
  BY <1>0
<1>3. Issued' = Issued /\ Consumed' = Consumed
  BY <1>1 DEF Issued, Consumed
<1>4. \A a \in answers : Recorded(a)'
  BY <1>1, <1>3, RowsKeepAnswers DEF OneTimeInv, Consumed
<1>5. Recorded(AnswerOfRecord(r))'
  BY <1>1 DEF Recorded, AnswerOfRecord
<1>6. KeysAreUsedOnce'
  BY <1>1, <1>2, <1>3 DEF OneTimeInv, KeysAreUsedOnce
<1>7. \A a \in answers' : Recorded(a)'
  BY <1>1, <1>4, <1>5
<1> QED BY <1>1, <1>3, <1>6, <1>7 DEF OneTimeInv, OneTimeTypeOK, VersionCounts

\* A token is issued under a key that no token of its kind has.
LEMMA InsertHolds ==
    ASSUME OneTimeInv, NEW kind \in {"reset", "activation"}, NEW key \in Keys,
           NEW contents \in Contents, Insert(kind, key, contents)
    PROVE  OneTimeInv'
<1>0. PICK new : new = Cardinality(Issued) + 1
  OBVIOUS
<1>1. /\ \A t \in Issued : ~(tokens[t].kind = kind /\ tokens[t].issue.key = key)
      /\ tokens' = [t \in Issued \cup {new} |->
                       IF t = new THEN NewToken(kind, key, contents) ELSE tokens[t]]
      /\ answers' = answers \cup {[route |-> <<kind, 0>>, key |-> key, contents |-> contents, result |-> new]}
      /\ UNCHANGED <<idempotency, member, family, changes>>
  BY <1>0 DEF Insert, IssuedUnder, Answer
<1>2. /\ Cardinality(Issued) \in Nat /\ Issued = 1 .. Cardinality(Issued)
  BY ConsumedIsFinite DEF OneTimeInv
<1>3. new \in Nat /\ new \notin Issued /\ Issued \cup {new} = 1 .. new
  BY <1>0, <1>2
<1>4. /\ Issued' = Issued \cup {new}
      /\ \A t \in Issued : tokens'[t] = tokens[t]
      /\ tokens'[new] = NewToken(kind, key, contents)
  BY <1>1, <1>3 DEF Issued
<1>5. NewToken(kind, key, contents) \in TokenRow
  BY DEF NewToken, TokenRow, NoUse
<1>6. OneTimeTypeOK'
  BY <1>1, <1>3, <1>4, <1>5 DEF OneTimeInv, OneTimeTypeOK
<1>7. Consumed' = Consumed
  BY <1>3, <1>4 DEF Consumed, NewToken
<1>8. KeysAreUsedOnce'
  BY <1>1, <1>4 DEF OneTimeInv, KeysAreUsedOnce, NewToken
<1>9. \A a \in answers : Recorded(a)'
  BY <1>1, <1>4, RowsKeepAnswers DEF OneTimeInv, Consumed
<1>10. AnswerOfIssue(new)' = [route |-> <<kind, 0>>, key |-> key, contents |-> contents, result |-> new]
  BY <1>4 DEF AnswerOfIssue, NewToken
<1>11. \A a \in answers' : Recorded(a)'
  BY <1>1, <1>4, <1>9, <1>10 DEF Recorded
<1> QED BY <1>1, <1>6, <1>7, <1>8, <1>11 DEF OneTimeInv, VersionCounts

\* A consumption counts one more token, and the version with it.
LEMMA ConsumeHolds ==
    ASSUME OneTimeInv, NEW t \in Issued, NEW key \in Keys, NEW contents \in Contents,
           ConsumeAccountResetToken(t, key, contents)
    PROVE  OneTimeInv'
<1> DEFINE use == [key |-> key, contents |-> contents, version |-> member.version + 1]
<1>1. /\ tokens[t].state = "open"
      /\ member' = [member EXCEPT !.password = contents, !.version = @ + 1]
      /\ family' = 0
      /\ tokens' = [tokens EXCEPT ![t].state = "consumed",
                                  ![t].use = [key |-> key, contents |-> contents, version |-> member'.version]]
      /\ answers' = answers \cup {[route |-> <<"consume", t>>, key |-> key, contents |-> contents,
                                   result |-> member'.version]}
      /\ UNCHANGED <<idempotency, changes>>
  BY DEF ConsumeAccountResetToken, Consumable, Replaced, Answer
<1>2. /\ member.version \in Nat /\ member'.version = member.version + 1 /\ changes \in Nat
      /\ member' \in [status : {"active", "disabled", "deleted"}, password : Contents \cup {"none"}, version : Nat]
  BY <1>1, PasswordReplaced DEF OneTimeInv, OneTimeTypeOK, Accounts
<1>3. use \in [key : Keys \cup {"none"}, contents : Contents \cup {"none"}, version : Nat]
  BY <1>2
<1>4. tokens' = [tokens EXCEPT ![t].state = "consumed", ![t].use = use]
  BY <1>1, <1>2
<1> HIDE DEF use
<1>5. tokens \in [Issued -> TokenRow]
  BY DEF OneTimeInv, OneTimeTypeOK
<1>6. /\ Issued' = Issued
      /\ tokens' \in [Issued -> TokenRow]
      /\ \A u \in Issued : tokens'[u].kind = tokens[u].kind /\ tokens'[u].issue = tokens[u].issue
      /\ \A u \in Issued : u # t => tokens'[u] = tokens[u]
      /\ tokens'[t].state = "consumed" /\ tokens'[t].use = use
  BY <1>3, <1>4, <1>5 DEF Issued, TokenRow
<1>7. t \notin Consumed /\ Consumed' = Consumed \cup {t}
  BY <1>1, <1>6 DEF Consumed
<1>8. /\ IsFiniteSet(Consumed) /\ Cardinality(Consumed) \in Nat
      /\ Cardinality(Consumed') = Cardinality(Consumed) + 1
  BY <1>7, ConsumedIsFinite, FS_AddElement DEF OneTimeInv
<1>9. VersionCounts'
  BY <1>1, <1>2, <1>8 DEF OneTimeInv, VersionCounts
<1>10. OneTimeTypeOK'
  BY <1>1, <1>2, <1>6 DEF OneTimeInv, OneTimeTypeOK
<1>11. KeysAreUsedOnce'
  BY <1>1, <1>6 DEF OneTimeInv, KeysAreUsedOnce
<1>12. \A a \in answers : Recorded(a)'
  BY <1>1, <1>6, <1>7, RowsKeepAnswers DEF OneTimeInv, Consumed
<1>13. AnswerOfUse(t)' = [route |-> <<"consume", t>>, key |-> key, contents |-> contents,
                          result |-> member'.version]
  BY <1>2, <1>6 DEF AnswerOfUse, use
<1>14. \A a \in answers' : Recorded(a)'
  BY <1>1, <1>7, <1>12, <1>13 DEF Recorded
<1>15. family' \in {0, member'.version}
  BY <1>1
<1> QED BY <1>9, <1>10, <1>11, <1>14, <1>15 DEF OneTimeInv

\* What happens to the account or to an open token leaves the rows of answers alone.
LEMMA TokenEndsHolds ==
    ASSUME OneTimeInv, NEW t \in Issued, TokenEnds(t)
    PROVE  OneTimeInv'
<1>1. /\ tokens[t].state = "open" /\ tokens' = [tokens EXCEPT ![t].state = "expired"]
      /\ UNCHANGED <<idempotency, member, family, changes, answers>>
  BY DEF TokenEnds
<1>2. tokens \in [Issued -> TokenRow]
  BY DEF OneTimeInv, OneTimeTypeOK
<1>3. /\ Issued' = Issued
      /\ tokens' \in [Issued -> TokenRow]
      /\ \A u \in Issued : tokens'[u].kind = tokens[u].kind /\ tokens'[u].issue = tokens[u].issue
      /\ \A u \in Issued : u # t => tokens'[u] = tokens[u]
      /\ tokens'[t].state = "expired"
  BY <1>1, <1>2 DEF Issued, TokenRow
<1>4. Consumed' = Consumed /\ t \notin Consumed
  BY <1>1, <1>3 DEF Consumed
<1>5. \A a \in answers : Recorded(a)'
  BY <1>1, <1>3, <1>4, RowsKeepAnswers DEF OneTimeInv, Consumed
<1>6. KeysAreUsedOnce'
  BY <1>1, <1>3 DEF OneTimeInv, KeysAreUsedOnce
<1> QED BY <1>1, <1>3, <1>4, <1>5, <1>6 DEF OneTimeInv, OneTimeTypeOK, VersionCounts

LEMMA AccountChangeHolds ==
    ASSUME OneTimeInv, UNCHANGED <<idempotency, tokens, answers>>, changes' \in Nat,
           member' \in [status : {"active", "disabled", "deleted"}, password : Contents \cup {"none"}, version : Nat],
           member'.version - changes' = member.version - changes, family' \in {0, member'.version}
    PROVE  OneTimeInv'
<1>1. Issued' = Issued /\ Consumed' = Consumed
  BY DEF Issued, Consumed
<1>2. member.version \in Nat /\ member'.version \in Nat /\ changes \in Nat
  BY DEF OneTimeInv, OneTimeTypeOK
<1>3. Cardinality(Consumed) \in Nat
  BY ConsumedIsFinite DEF OneTimeInv
<1>4. VersionCounts'
  BY <1>1, <1>2, <1>3 DEF OneTimeInv, VersionCounts
<1>5. \A a : Recorded(a)' <=> Recorded(a)
  BY <1>1 DEF Recorded, AnswerOfRecord, AnswerOfIssue, AnswerOfUse
<1> QED BY <1>1, <1>4, <1>5 DEF OneTimeInv, OneTimeTypeOK, KeysAreUsedOnce

LEMMA OneTimeStep == OneTimeInv /\ [OneTimeNext]_oneTimeVars => OneTimeInv'
<1> SUFFICES ASSUME OneTimeInv, [OneTimeNext]_oneTimeVars PROVE OneTimeInv'
  OBVIOUS
<1>0. /\ member \in [status : {"active", "disabled", "deleted"}, password : Contents \cup {"none"}, version : Nat]
      /\ changes \in Nat /\ member.version \in Nat /\ family \in {0, member.version}
  BY DEF OneTimeInv, OneTimeTypeOK
<1>1. ASSUME NEW key \in Keys, NEW contents \in Contents, ReplayCreateAccount(key, contents)
      PROVE  OneTimeInv'
  <2>1. PICK r \in RecordsOf(key) :
            r.contents = contents /\ Answer(<<"create", 0>>, key, contents, r.account)
    BY <1>1 DEF ReplayCreateAccount
  <2>2. Recorded(AnswerOfRecord(r)) /\ answers' = answers \cup {AnswerOfRecord(r)}
    BY <2>1 DEF Recorded, AnswerOfRecord, RecordsOf, Answer
  <2> QED BY <1>1, <2>2, ReplayHolds DEF ReplayCreateAccount
<1>2. ASSUME NEW kind, NEW key \in Keys, NEW contents \in Contents, RepeatToken(kind, key, contents)
      PROVE  OneTimeInv'
  <2>1. PICK t \in IssuedUnder(kind, key) :
            tokens[t].issue.contents = contents /\ Answer(<<kind, 0>>, key, contents, t)
    BY <1>2 DEF RepeatToken
  <2>2. Recorded(AnswerOfIssue(t)) /\ answers' = answers \cup {AnswerOfIssue(t)}
    BY <2>1 DEF Recorded, AnswerOfIssue, IssuedUnder, Answer
  <2> QED BY <1>2, <2>2, ReplayHolds DEF RepeatToken
<1>3. ASSUME NEW key \in Keys, NEW contents \in Contents, NEW t \in Issued,
             ReplayConsume(t, key, contents)
      PROVE  OneTimeInv'
  <2>1. Recorded(AnswerOfUse(t)) /\ answers' = answers \cup {AnswerOfUse(t)}
    BY <1>3 DEF ReplayConsume, Recorded, AnswerOfUse, Consumed, Answer
  <2> QED BY <1>3, <2>1, ReplayHolds DEF ReplayConsume
<1>4. ASSUME NEW status \in {"active", "disabled", "deleted"}, NEW password \in Contents \cup {"none"},
             Administer(status, password)
      PROVE  OneTimeInv'
  <2>1. /\ changes' = changes + 1 /\ family' = 0 /\ UNCHANGED <<idempotency, tokens, answers>>
        /\ member' = [status |-> status, password |-> password, version |-> member.version + 1]
    BY <1>4 DEF Administer
  <2>2. member' \in Accounts /\ member'.version = member.version + 1
    BY <1>0, <2>1 DEF Accounts
  <2>3. changes' \in Nat /\ member'.version - changes' = member.version - changes
    BY <1>0, <2>1, <2>2
  <2> QED BY <2>1, <2>2, <2>3, AccountChangeHolds DEF Accounts
<1>5. ASSUME OpenFamily \/ ReactivateAccount PROVE OneTimeInv'
  BY <1>0, <1>5, AccountChangeHolds DEF OpenFamily, ReactivateAccount
<1>6. ASSUME \/ \E contents \in Contents : SetAccountPassword(contents)
             \/ ResetAccountSessions \/ DisableAccount \/ DeleteAccount
      PROVE  OneTimeInv'
  BY <1>0, <1>4, <1>6 DEF SetAccountPassword, ResetAccountSessions, DisableAccount, DeleteAccount
<1>7. CASE UNCHANGED oneTimeVars
  BY <1>0, <1>7, AccountChangeHolds DEF oneTimeVars
<1>8. ASSUME NEW key \in Keys, NEW contents \in Contents,
             \/ ReplayCreateAccount(key, contents) \/ CreateAccount(key, contents)
             \/ ReplayResetToken(key, contents) \/ IssueAccountResetToken(key, contents)
             \/ ReplayActivation(key, contents) \/ CreateDeviceActivation(key, contents)
             \/ \E t \in Issued :
                   ReplayConsume(t, key, contents) \/ ConsumeAccountResetToken(t, key, contents)
      PROVE  OneTimeInv'
  BY <1>1, <1>2, <1>3, <1>8, CreateAccountHolds, InsertHolds, ConsumeHolds
     DEF ReplayResetToken, IssueAccountResetToken, ReplayActivation, CreateDeviceActivation
<1>9. ASSUME \E t \in Issued : TokenEnds(t) PROVE OneTimeInv'
  BY <1>9, TokenEndsHolds
<1> QED BY <1>5, <1>6, <1>7, <1>8, <1>9 DEF OneTimeNext

\* A repeated request does nothing twice: one key of one route has one answer for ever,
\* each reset token replaces the password at most once, and no refresh family survives a
\* replacement, a disabling, a deletion or a reset of sessions, for every number of keys,
\* tokens, changes and repetitions (create_account, issue_account_reset_token,
\* consume_account_reset_token, create_device_activation).
THEOREM RepeatsDoNothing == OneTimeSpec => []RepeatsChangeNothing
<1>1. OneTimeInit => OneTimeInv
  <2> SUFFICES ASSUME OneTimeInit PROVE OneTimeInv
    OBVIOUS
  <2>1. /\ idempotency = {} /\ Issued = {} /\ Consumed = {} /\ answers = {} /\ changes = 0 /\ family = 0
        /\ member = [status |-> "active", password |-> "none", version |-> 1]
        /\ tokens \in [Issued -> TokenRow]
    BY DEF OneTimeInit, NoRecords, NoTokens, Issued, Consumed
  <2>2. 0 \in Nat /\ Issued = 1 .. 0
    BY <2>1
  <2>3. OneTimeTypeOK
    BY <2>1, <2>2 DEF OneTimeTypeOK
  <2> QED BY <2>1, <2>3, FS_EmptySet DEF OneTimeInv, KeysAreUsedOnce, VersionCounts
<1>2. OneTimeInv => RepeatsChangeNothing
  BY RecordedAgree DEF OneTimeInv, VersionCounts, Consumed, RepeatsChangeNothing
<1> QED BY <1>1, <1>2, OneTimeStep, PTL DEF OneTimeSpec

-----------------------------------------------------------------------------
(* Rollbacks: revisions are numbered without gaps and a node's desired     *)
(* revision only grows, so a failed revision that was rolled back is never *)
(* desired again; what is recorded of a revision never changes but for its *)
(* pending outcome; and the credentials of every revision of a node are at *)
(* most as new as its members' are, which the next publication uses.       *)

RevisionRow == [node : Cohort, config : Nat, users : Nat, outcome : {"pending", "applied", "failed"}]

RollbacksTypeOK ==
    /\ \E k \in Nat : Published = 1 .. k
    /\ published \in [Published -> RevisionRow]
    /\ desiredOf \in [Cohort -> Published \cup {0}]
    /\ active \subseteq Cohort
    /\ agent \in [Cohort -> Nat] /\ fence \in [Cohort -> Nat]

\* A node whose access was closed and that was not published for since may be behind.
FencesAreCurrent ==
    /\ Cohort \ active \subseteq closed
    /\ \A n \in Cohort \ closed : desiredOf[n] # 0 => published[desiredOf[n]].users = fence[n]

\* No revision is ahead of its node's members, and later ones are never behind earlier ones.
FencesGrow ==
    /\ \A r \in Published : published[r].users <= fence[published[r].node]
    /\ \A r, q \in Published :
          r < q /\ published[r].node = published[q].node => published[r].users <= published[q].users

\* Each target of a record was carried out and has been left behind.
CarriedOut(r) ==
    \A n \in DOMAIN r.targets :
        /\ n \in Cohort /\ r.targets[n].source \in Published /\ r.number[n] \in Published
        /\ r.targets[n].failed \in Published /\ r.targets[n].failed < desiredOf[n]
        /\ published[r.targets[n].source].node = n
        /\ published[r.targets[n].source].outcome = "applied"
        /\ published[r.number[n]].config = published[r.targets[n].source].config

FailedOnce ==
    \A r, s \in rollbacks : \A n \in DOMAIN r.targets \cap DOMAIN s.targets :
        r # s => r.targets[n].failed # s.targets[n].failed

RollbacksInv ==
    /\ RollbacksTypeOK /\ FencesAreCurrent /\ FencesGrow /\ FailedOnce
    /\ \A r \in rollbacks : CarriedOut(r)

LEMMA LastRevisionFacts ==
    ASSUME RollbacksTypeOK
    PROVE  LastRevision \in Nat /\ Published = 1 .. LastRevision
<1>1. PICK k \in Nat : Published = 1 .. k
  BY DEF RollbacksTypeOK
<1>2. Cardinality(1 .. k) = k
  BY FS_Interval
<1> QED BY <1>1, <1>2 DEF LastRevision

\* Any set of nodes can be numbered on from the last revision, one by one and without gaps.
LEMMA NumberingFacts ==
    ASSUME RollbacksTypeOK, NEW nodes \in SUBSET Cohort
    PROVE  /\ Cardinality(nodes) \in Nat
           /\ Numbering(nodes) \in [nodes -> LastRevision + 1 .. LastRevision + Cardinality(nodes)]
           /\ \A n, m \in nodes : n # m => Numbering(nodes)[n] # Numbering(nodes)[m]
           /\ \A r \in LastRevision + 1 .. LastRevision + Cardinality(nodes) :
                 \E n \in nodes : Numbering(nodes)[n] = r
<1> DEFINE fresh == LastRevision + 1 .. LastRevision + Cardinality(nodes)
           Fits(f) == f \in [nodes -> fresh] /\ \A n, m \in nodes : n # m => f[n] # f[m]
<1>1. IsFiniteSet(nodes) /\ Cardinality(nodes) \in Nat /\ LastRevision \in Nat
  BY RollbacksAssumption, FS_Subset, FS_CardinalityType, LastRevisionFacts
<1>2. IsFiniteSet(fresh) /\ Cardinality(fresh) = Cardinality(nodes)
  <2>1. PICK k \in Nat : k = Cardinality(nodes)
    BY <1>1
  <2>2. PICK l \in Nat : l = LastRevision
    BY <1>1
  <2>3. /\ IsFiniteSet(l + 1 .. l + k)
        /\ Cardinality(l + 1 .. l + k) = IF l + 1 > l + k THEN 0 ELSE (l + k) - (l + 1) + 1
    <3>1. l + 1 \in Int /\ l + k \in Int
      OBVIOUS
    <3> QED BY <3>1, FS_Interval
  <2>4. (IF l + 1 > l + k THEN 0 ELSE (l + k) - (l + 1) + 1) = k
    OBVIOUS
  <2> QED BY <2>1, <2>2, <2>3, <2>4
<1>3. PICK g \in Bijection(nodes, fresh) : TRUE
  BY <1>1, <1>2, FS_SameCardinalityBij DEF ExistsBijection
<1>4. Fits(g)
  BY <1>3 DEF Bijection, Injection, IsInjective
<1> DEFINE f == Numbering(nodes)
<1>5. Fits(f)
  BY <1>4 DEF Numbering
<1> HIDE DEF f, fresh
<1>6. f \in Injection(nodes, fresh)
  BY <1>5 DEF Injection, IsInjective
<1>7. f \in Surjection(nodes, fresh)
  BY <1>1, <1>2, <1>6, FS_Injection
<1>8. \A r \in fresh : \E n \in nodes : f[n] = r
  BY <1>7 DEF Surjection
<1> QED BY <1>1, <1>5, <1>8 DEF f, fresh

\* What publish_compiled_desired_state does for the nodes of a numbering.
Publication(nodes, number, config, users) ==
    /\ \E k \in Nat : Published' = 1 .. k
    /\ Published \subseteq Published'
    /\ published' \in [Published' -> RevisionRow]
    /\ desiredOf' \in [Cohort -> Published' \cup {0}]
    /\ \A r \in Published : published'[r] = published[r]
    /\ \A n \in nodes :
          /\ number[n] \in Published' /\ number[n] > LastRevision
          /\ desiredOf'[n] = number[n]
          /\ published'[number[n]].config = config[n]
          /\ published'[number[n]].users = users[n]
          /\ published'[number[n]].node = n
    /\ \A n \in Cohort \ nodes : desiredOf'[n] = desiredOf[n]
    /\ \A r \in Published' : r \in Published \/ \E n \in nodes : r = number[n]
    /\ closed' = closed \ nodes

LEMMA PublishForEffect ==
    ASSUME RollbacksTypeOK, NEW nodes \in SUBSET Cohort, NEW number, number = Numbering(nodes),
           NEW config \in [nodes -> Nat], NEW users \in [nodes -> Nat],
           PublishFor(number, config, users)
    PROVE  Publication(nodes, number, config, users)
<1> DEFINE last == LastRevision + Cardinality(nodes)
           new == {number[n] : n \in nodes}
           Owner(r) == CHOOSE n \in nodes : number[n] = r
<1>1. /\ Cardinality(nodes) \in Nat /\ LastRevision \in Nat /\ Published = 1 .. LastRevision
      /\ number \in [nodes -> LastRevision + 1 .. last]
      /\ \A n, m \in nodes : n # m => number[n] # number[m]
      /\ \A r \in LastRevision + 1 .. last : \E n \in nodes : number[n] = r
  BY NumberingFacts, LastRevisionFacts
<1>2. new = LastRevision + 1 .. last
  BY <1>1
<1>3. \A n \in nodes : Owner(number[n]) = n
  BY <1>1
<1>4. \A r \in new : Owner(r) \in nodes
  BY <1>3
<1>5. /\ published' = [r \in Published \cup new |->
            IF r \in new
            THEN [node |-> Owner(r), config |-> config[Owner(r)], users |-> users[Owner(r)], outcome |-> "pending"]
            ELSE published[r]]
      /\ desiredOf' = [n \in Cohort |-> IF n \in nodes THEN number[n] ELSE desiredOf[n]]
  <2>1. DOMAIN number = nodes
    BY <1>1
  <2> QED BY <2>1 DEF PublishFor
<1>6. \A n \in nodes : number[n] \in new
  OBVIOUS
<1>7. Published' = Published \cup new
  BY <1>5 DEF Published
<1>8. last \in Nat /\ Published \cup new = 1 .. last
  <2>1. last \in Nat /\ LastRevision <= last
    BY <1>1
  <2>2. 1 .. LastRevision \cup (LastRevision + 1 .. last) = 1 .. last
    BY <1>1, <2>1
  <2> QED BY <1>1, <1>2, <2>1, <2>2
<1>9. \A r \in Published : r \notin new
  BY <1>1, <1>2
<1>10. \A n \in nodes : number[n] > LastRevision
  BY <1>1
<1> HIDE DEF last, new, Owner
<1>11. published' \in [Published' -> RevisionRow]
  <2>1. \A r \in new : [node |-> Owner(r), config |-> config[Owner(r)], users |-> users[Owner(r)],
                         outcome |-> "pending"] \in RevisionRow
    BY <1>4 DEF RevisionRow
  <2>2. \A r \in Published : published[r] \in RevisionRow
    BY DEF RollbacksTypeOK
  <2> QED BY <1>5, <1>7, <2>1, <2>2
<1>12. desiredOf' \in [Cohort -> Published' \cup {0}]
  BY <1>5, <1>6, <1>7 DEF RollbacksTypeOK
<1>13. \A r \in Published : published'[r] = published[r]
  BY <1>5, <1>9
<1>14. ASSUME NEW n \in nodes
       PROVE  /\ desiredOf'[n] = number[n]
              /\ published'[number[n]].config = config[n]
              /\ published'[number[n]].users = users[n]
              /\ published'[number[n]].node = n
  BY <1>3, <1>5, <1>6
<1>15. \A n \in Cohort \ nodes : desiredOf'[n] = desiredOf[n]
  BY <1>5
<1>16. \A r \in Published' : r \in Published \/ \E n \in nodes : r = number[n]
  BY <1>7 DEF new
<1>17. closed' = closed \ nodes
  <2>1. DOMAIN number = nodes
    BY <1>1
  <2> QED BY <2>1 DEF PublishFor
<1> QED BY <1>6, <1>7, <1>8, <1>10, <1>11, <1>12, <1>13, <1>14, <1>15, <1>16, <1>17
        DEF Publication

\* Records outlive every publication.
LEMMA CarriedOutKept ==
    ASSUME RollbacksTypeOK, NEW r, CarriedOut(r), Published \subseteq Published',
           \A q \in Published : published'[q] = published[q],
           \A n \in Cohort : desiredOf[n] <= desiredOf'[n] /\ desiredOf'[n] \in Nat
    PROVE  CarriedOut(r)'
<1>1. \A n \in Cohort : desiredOf[n] \in Nat
  BY LastRevisionFacts DEF RollbacksTypeOK
<1>2. \A q \in Published : q \in Nat
  BY LastRevisionFacts
<1> QED BY <1>1, <1>2 DEF CarriedOut

\* A numbering is above everything that was desired.
LEMMA DesiredGrows ==
    ASSUME RollbacksTypeOK, NEW nodes \in SUBSET Cohort, NEW number \in [nodes -> Nat],
           \A n \in nodes : number[n] > LastRevision /\ desiredOf'[n] = number[n],
           \A n \in Cohort \ nodes : desiredOf'[n] = desiredOf[n]
    PROVE  /\ \A n \in Cohort : desiredOf[n] \in Nat /\ desiredOf'[n] \in Nat /\ desiredOf[n] <= desiredOf'[n]
           /\ \A n \in nodes : desiredOf[n] < desiredOf'[n]
<1>1. LastRevision \in Nat /\ \A n \in Cohort : desiredOf[n] \in Nat /\ desiredOf[n] <= LastRevision
  <2>1. LastRevision \in Nat /\ Published = 1 .. LastRevision
    BY LastRevisionFacts
  <2>2. ASSUME NEW n \in Cohort PROVE desiredOf[n] \in Nat /\ desiredOf[n] <= LastRevision
    <3>1. desiredOf[n] \in Published \cup {0}
      BY DEF RollbacksTypeOK
    <3> QED BY <2>1, <3>1
  <2> QED BY <2>1, <2>2
<1>2. ASSUME NEW n \in nodes PROVE desiredOf'[n] \in Nat /\ desiredOf[n] < desiredOf'[n]
  BY <1>1
<1>3. ASSUME NEW n \in Cohort \ nodes PROVE desiredOf'[n] \in Nat /\ desiredOf[n] <= desiredOf'[n]
  BY <1>1
<1> QED BY <1>1, <1>2, <1>3

\* A publication for some nodes, with the users of the fence that holds afterwards, keeps
\* the invariant when the fence of the other nodes is closed or did not change.
LEMMA PublishForHolds ==
    ASSUME RollbacksInv, NEW nodes \in SUBSET Cohort, NEW config \in [nodes -> Nat],
           NEW users \in [nodes -> Nat], NEW number, number = Numbering(nodes),
           PublishFor(number, config, users), agent' = agent, active' = active,
           fence' \in [Cohort -> Nat], \A n \in Cohort : fence[n] <= fence'[n],
           nodes \subseteq active, \A n \in nodes : users[n] = fence'[n],
           \A n \in Cohort \ nodes : n \notin closed /\ desiredOf[n] # 0 => fence'[n] = fence[n]
    PROVE  /\ RollbacksTypeOK' /\ FencesAreCurrent' /\ FencesGrow'
           /\ \A r \in rollbacks : CarriedOut(r)'
<1>0. RollbacksTypeOK /\ FencesAreCurrent /\ FencesGrow
  BY DEF RollbacksInv
<1>1. /\ \E k \in Nat : Published' = 1 .. k
      /\ Published \subseteq Published'
      /\ published' \in [Published' -> RevisionRow]
      /\ desiredOf' \in [Cohort -> Published' \cup {0}]
      /\ \A r \in Published : published'[r] = published[r]
      /\ \A n \in nodes :
            /\ number[n] \in Published' /\ number[n] > LastRevision
            /\ desiredOf'[n] = number[n]
            /\ published'[number[n]].config = config[n]
            /\ published'[number[n]].users = users[n]
            /\ published'[number[n]].node = n
      /\ \A n \in Cohort \ nodes : desiredOf'[n] = desiredOf[n]
      /\ \A r \in Published' : r \in Published \/ \E n \in nodes : r = number[n]
      /\ closed' = closed \ nodes
  <2>1. Publication(nodes, number, config, users)
    BY <1>0, PublishForEffect
  <2> QED BY <2>1 DEF Publication
<1>2. number \in [nodes -> Nat]
  BY <1>0, NumberingFacts, LastRevisionFacts
<1>3. \A n \in Cohort : desiredOf'[n] \in Nat /\ desiredOf[n] <= desiredOf'[n]
  <2>1. \A n \in nodes : number[n] > LastRevision /\ desiredOf'[n] = number[n]
    BY <1>1
  <2>2. \A n \in Cohort \ nodes : desiredOf'[n] = desiredOf[n]
    BY <1>1
  <2> QED BY <1>0, <1>2, <2>1, <2>2, DesiredGrows, Zenon
<1>4. RollbacksTypeOK'
  BY <1>0, <1>1 DEF RollbacksTypeOK
<1>5. ASSUME NEW n \in Cohort \ closed', desiredOf'[n] # 0
      PROVE  published'[desiredOf'[n]].users = fence'[n]
  <2>1. CASE n \in nodes
    BY <1>1, <2>1
  <2>2. CASE n \notin nodes
    <3>1. desiredOf'[n] = desiredOf[n] /\ desiredOf[n] \in Published /\ fence'[n] = fence[n]
      BY <1>0, <1>1, <1>5, <2>2 DEF RollbacksTypeOK
    <3>2. n \in Cohort \ closed
      BY <1>1, <1>5, <2>2
    <3> QED BY <1>0, <1>1, <1>5, <3>1, <3>2 DEF FencesAreCurrent
  <2> QED BY <2>1, <2>2
<1>6. FencesAreCurrent'
  <2>1. Cohort \ active' \subseteq closed'
    BY <1>0, <1>1 DEF FencesAreCurrent
  <2> QED BY <1>5, <2>1 DEF FencesAreCurrent
<1>7. ASSUME NEW r \in rollbacks PROVE CarriedOut(r)'
  <2>1. CarriedOut(r)
    BY DEF RollbacksInv
  <2> QED BY <1>0, <1>1, <1>3, <2>1, CarriedOutKept
<1>8. \A r \in Published : published[r].node \in Cohort /\ published[r].users \in Nat
  BY <1>0 DEF RollbacksTypeOK, RevisionRow
<1>9. \A n \in Cohort : fence[n] \in Nat /\ fence'[n] \in Nat
  BY <1>0 DEF RollbacksTypeOK
<1>10. \A r \in Published : published[r].users <= fence'[published[r].node]
  <2>1. ASSUME NEW r \in Published PROVE published[r].users <= fence'[published[r].node]
    <3>1. PICK n \in Cohort : n = published[r].node
      BY <1>8
    <3>2. PICK a \in Nat, b \in Nat, c \in Nat : a = published[r].users /\ b = fence[n] /\ c = fence'[n]
      BY <1>8, <1>9
    <3>3. a <= b /\ b <= c
      BY <1>0, <3>1, <3>2 DEF FencesGrow
    <3> QED BY <3>1, <3>2, <3>3
  <2> QED BY <2>1
<1>11. \A r \in Published' : published'[r].users <= fence'[published'[r].node]
  <2>1. ASSUME NEW r \in Published' PROVE published'[r].users <= fence'[published'[r].node]
    <3>1. CASE r \in Published
      BY <1>1, <1>10, <3>1
    <3>2. CASE \E n \in nodes : r = number[n]
      BY <1>1, <1>9, <3>2
    <3> QED BY <1>1, <3>1, <3>2
  <2> QED BY <2>1
<1>12. LastRevision \in Nat /\ \A r \in Published : r \in Nat /\ r <= LastRevision
  BY <1>0, LastRevisionFacts
<1>13. ASSUME NEW r \in Published', NEW q \in Published', r < q, published'[r].node = published'[q].node
       PROVE  published'[r].users <= published'[q].users
  <2>1. CASE q \in Published
    <3>1. r \in Published
      <4>1. ASSUME NEW n \in nodes, r = number[n] PROVE FALSE
        BY <1>1, <1>2, <1>12, <1>13, <2>1, <4>1
      <4> QED BY <1>1, <4>1
    <3>2. published'[r] = published[r] /\ published'[q] = published[q]
      BY <1>1, <2>1, <3>1
    <3>3. r < q /\ published[r].node = published[q].node
      BY <1>13, <3>2
    <3>4. published[r].users <= published[q].users
      BY <1>0, <2>1, <3>1, <3>3 DEF FencesGrow
    <3> QED BY <3>2, <3>4
  <2>2. CASE \E n \in nodes : q = number[n]
    <3>1. PICK n \in nodes : q = number[n]
      BY <2>2
    <3>2. published'[q].node = n /\ published'[q].users = fence'[n]
      BY <1>1, <3>1
    <3> QED BY <1>11, <1>13, <3>2
  <2> QED BY <1>1, <2>1, <2>2
<1>14. FencesGrow'
  BY <1>11, <1>13 DEF FencesGrow
<1> QED BY <1>4, <1>6, <1>7, <1>14

LEMMA PublishConfigurationHolds ==
    ASSUME RollbacksInv, NEW n \in Cohort, NEW c \in Configs, PublishConfiguration(n, c)
    PROVE  RollbacksInv'
<1>1. /\ PublishFor(Numbering({n}), [m \in {n} |-> c], [m \in {n} |-> fence[m]]) /\ n \in active
      /\ active' = active /\ agent' = agent /\ fence' = fence /\ rollbacks' = rollbacks
  BY DEF PublishConfiguration, FenceOf
<1>2. c \in Nat /\ fence \in [Cohort -> Nat] /\ \A m \in Cohort : fence[m] <= fence'[m]
  BY <1>1, RollbacksAssumption DEF RollbacksInv, RollbacksTypeOK
<1>3. PICK number, config, users :
        number = Numbering({n}) /\ config = [m \in {n} |-> c] /\ users = [m \in {n} |-> fence[m]]
  OBVIOUS
<1>4. config \in [{n} -> Nat] /\ users \in [{n} -> Nat] /\ \A m \in {n} : users[m] = fence'[m]
  BY <1>1, <1>2, <1>3
<1>5. PublishFor(number, config, users)
  BY <1>1, <1>3
<1>6. RollbacksTypeOK' /\ FencesAreCurrent' /\ FencesGrow' /\ \A r \in rollbacks : CarriedOut(r)'
  BY <1>1, <1>2, <1>3, <1>4, <1>5, PublishForHolds
<1> QED BY <1>1, <1>6 DEF RollbacksInv, FailedOnce

LEMMA ChangeCredentialsHolds ==
    ASSUME RollbacksInv, ChangeCredentials
    PROVE  RollbacksInv'
<1>1. PICK nodes : nodes = {n \in active : desiredOf[n] # 0}
  OBVIOUS
<1>2. PICK number, config, users :
        /\ number = Numbering(nodes)
        /\ config = [n \in nodes |-> published[desiredOf[n]].config]
        /\ users = [n \in nodes |-> fence[n] + 1]
  OBVIOUS
<1>3. /\ PublishFor(number, config, users)
      /\ active' = active /\ agent' = agent /\ rollbacks' = rollbacks
      /\ fence' = [n \in Cohort |-> fence[n] + 1]
  BY <1>1, <1>2 DEF ChangeCredentials
<1>4. /\ nodes \in SUBSET Cohort /\ nodes \subseteq active /\ fence \in [Cohort -> Nat]
      /\ \A n \in nodes : desiredOf[n] \in Published
  BY <1>1 DEF RollbacksInv, RollbacksTypeOK
<1>5. config \in [nodes -> Nat]
  <2>1. \A n \in nodes : published[desiredOf[n]].config \in Nat
    BY <1>4 DEF RollbacksInv, RollbacksTypeOK, RevisionRow
  <2> QED BY <1>2, <2>1
<1>6. /\ users \in [nodes -> Nat] /\ \A n \in nodes : users[n] = fence'[n]
      /\ fence' \in [Cohort -> Nat] /\ \A n \in Cohort : fence[n] <= fence'[n]
  BY <1>2, <1>3, <1>4
<1>7. \A n \in Cohort \ nodes : ~(n \notin closed /\ desiredOf[n] # 0)
  BY <1>1 DEF RollbacksInv, FencesAreCurrent
<1>8. RollbacksTypeOK' /\ FencesAreCurrent' /\ FencesGrow' /\ \A r \in rollbacks : CarriedOut(r)'
  BY <1>2, <1>3, <1>4, <1>5, <1>6, <1>7, PublishForHolds
<1> QED BY <1>3, <1>8 DEF RollbacksInv, FailedOnce

\* Only a pending outcome is written, so what was applied stays applied.
LEMMA RecordOutcomeHolds ==
    ASSUME RollbacksInv, NEW r \in Published, NEW outcome \in {"applied", "failed"},
           RecordOutcome(r, outcome)
    PROVE  RollbacksInv'
<1>1. /\ published[r].outcome = "pending"
      /\ published' = [published EXCEPT ![r].outcome = outcome]
      /\ UNCHANGED <<desiredOf, active, agent, fence, closed, rollbacks>>
  BY DEF RecordOutcome
<1>2. /\ Published' = Published
      /\ published' \in [Published -> RevisionRow]
      /\ \A q \in Published : /\ published'[q].config = published[q].config
                             /\ published'[q].users = published[q].users
                             /\ published'[q].node = published[q].node
                             /\ q # r => published'[q] = published[q]
  BY <1>1 DEF RollbacksInv, RollbacksTypeOK, RevisionRow, Published
<1>3. RollbacksTypeOK'
  BY <1>1, <1>2 DEF RollbacksInv, RollbacksTypeOK
<1>4. FencesAreCurrent'
  BY <1>1, <1>2 DEF RollbacksInv, RollbacksTypeOK, FencesAreCurrent
<1>5. \A s \in rollbacks : CarriedOut(s)'
  BY <1>1, <1>2 DEF RollbacksInv, CarriedOut
<1>6. FencesGrow'
  BY <1>1, <1>2 DEF RollbacksInv, FencesGrow
<1> QED BY <1>1, <1>3, <1>4, <1>5, <1>6 DEF RollbacksInv, FailedOnce

\* Each target was the desired revision of its node, and is none of the recorded ones.
LEMMA OperatorRollbackHolds ==
    ASSUME RollbacksInv, NEW key, NEW nodes \in SUBSET Cohort, NEW targets \in [nodes -> Targets],
           OperatorRollback(key, targets)
    PROVE  RollbacksInv'
<1>1. DOMAIN targets = nodes
  OBVIOUS
<1>2. PICK number, config, users :
        /\ number = Numbering(nodes)
        /\ config = [n \in nodes |-> published[targets[n].source].config]
        /\ users = [n \in nodes |-> fence[n]]
  OBVIOUS
<1>3. PICK new : new = [key |-> key, targets |-> targets, number |-> number]
  OBVIOUS
<1>4. /\ PublishFor(number, config, users)
      /\ rollbacks' = rollbacks \cup {new}
      /\ active' = active /\ agent' = agent /\ fence' = fence
  BY <1>1, <1>2, <1>3 DEF OperatorRollback, ConfigurationOf, UsersFor, FenceOf, StoreRollbackIdempotency
<1>5. \A n \in nodes : /\ n \in active /\ targets[n].source \in Published /\ targets[n].failed \in Published
                       /\ desiredOf[n] = targets[n].failed
                       /\ published[targets[n].source].node = n
                       /\ published[targets[n].source].outcome = "applied"
  <2>1. \A t \in Targets : t.source \in Published /\ t.failed \in Published
    BY DEF Targets, Ended
  <2>2. \A n \in nodes : PrepareRollbackTarget(n, targets[n]) /\ targets[n] \in Targets
    BY <1>1 DEF OperatorRollback
  <2> QED BY <2>1, <2>2 DEF PrepareRollbackTarget
<1>6. RollbacksTypeOK /\ fence \in [Cohort -> Nat] /\ \A n \in Cohort : fence[n] <= fence'[n]
  <2>1. RollbacksTypeOK /\ fence \in [Cohort -> Nat]
    BY DEF RollbacksInv, RollbacksTypeOK
  <2>2. ASSUME NEW n \in Cohort PROVE fence[n] <= fence'[n]
    BY <1>4, <2>1
  <2> QED BY <2>1, <2>2
<1>7. config \in [nodes -> Nat]
  <2>1. \A n \in nodes : published[targets[n].source].config \in Nat
    BY <1>5, <1>6 DEF RollbacksTypeOK, RevisionRow
  <2> QED BY <1>2, <2>1
<1>8. users \in [nodes -> Nat] /\ nodes \subseteq active /\ \A n \in nodes : users[n] = fence'[n]
  BY <1>2, <1>4, <1>5, <1>6
<1>9. RollbacksTypeOK' /\ FencesAreCurrent' /\ FencesGrow' /\ \A r \in rollbacks : CarriedOut(r)'
  BY <1>2, <1>4, <1>6, <1>7, <1>8, PublishForHolds
<1>10. /\ Published \subseteq Published'
       /\ \A r \in Published : published'[r] = published[r]
       /\ \A n \in nodes :
             /\ number[n] \in Published' /\ number[n] > LastRevision
             /\ desiredOf'[n] = number[n]
             /\ published'[number[n]].config = config[n]
       /\ \A n \in Cohort \ nodes : desiredOf'[n] = desiredOf[n]
  <2>1. Publication(nodes, number, config, users)
    BY <1>2, <1>4, <1>6, <1>7, <1>8, PublishForEffect
  <2> QED BY <2>1 DEF Publication
<1>11. number \in [nodes -> Nat]
  BY <1>2, <1>6, NumberingFacts, LastRevisionFacts
<1>12. \A n \in nodes : desiredOf[n] < desiredOf'[n]
  BY <1>6, <1>10, <1>11, DesiredGrows
<1>13. CarriedOut(new)'
  <2>1. new.targets = targets /\ new.number = number
    BY <1>3
  <2>2. ASSUME NEW n \in nodes
        PROVE  /\ n \in Cohort /\ targets[n].source \in Published' /\ number[n] \in Published'
               /\ targets[n].failed \in Published' /\ targets[n].failed < desiredOf'[n]
               /\ published'[targets[n].source].node = n
               /\ published'[targets[n].source].outcome = "applied"
               /\ published'[number[n]].config = published'[targets[n].source].config
    BY <1>2, <1>5, <1>10, <1>12
  <2> QED BY <1>1, <2>1, <2>2 DEF CarriedOut
<1>14. ASSUME NEW r \in rollbacks, NEW n \in DOMAIN r.targets, n \in nodes
       PROVE  r.targets[n].failed # targets[n].failed
  <2>1. r.targets[n].failed < desiredOf[n] /\ r.targets[n].failed \in Published
    BY DEF RollbacksInv, CarriedOut
  <2>2. r.targets[n].failed \in Nat
    BY <1>6, <2>1, LastRevisionFacts
  <2> QED BY <1>5, <1>6, <1>14, <2>1, <2>2
<1>15. FailedOnce'
  <2>1. new.targets = targets /\ DOMAIN new.targets = nodes
    BY <1>1, <1>3
  <2> SUFFICES ASSUME NEW r \in rollbacks', NEW s \in rollbacks',
                      NEW n \in DOMAIN r.targets \cap DOMAIN s.targets, r # s
               PROVE  r.targets[n].failed # s.targets[n].failed
    BY DEF FailedOnce
  <2>2. CASE r \in rollbacks /\ s \in rollbacks
    BY <2>2 DEF RollbacksInv, FailedOnce
  <2>3. CASE r = new
    BY <1>4, <1>14, <2>1, <2>3
  <2>4. CASE s = new
    BY <1>4, <1>14, <2>1, <2>4
  <2> QED BY <1>4, <2>2, <2>3, <2>4
<1> QED BY <1>4, <1>9, <1>13, <1>15 DEF RollbacksInv

\* What is published, and what was recorded of it, outlives a node's changes of status.
LEMMA NodeChangeHolds ==
    ASSUME RollbacksInv,
           \/ \E n \in Cohort : WithdrawNode(n) \/ ReadmitNode(n)
           \/ \E n \in Cohort, version \in 1 .. 2 : ChangeAgent(n, version)
    PROVE  RollbacksInv'
<1>0. /\ RollbacksTypeOK /\ FencesAreCurrent /\ FencesGrow /\ FailedOnce
      /\ \A r \in rollbacks : CarriedOut(r)
  BY DEF RollbacksInv
<1>1. UNCHANGED <<published, desiredOf, rollbacks>> /\ Published' = Published
  BY DEF WithdrawNode, ReadmitNode, ChangeAgent, Published
<1>2. FailedOnce' /\ \A r \in rollbacks' : CarriedOut(r)'
  BY <1>0, <1>1 DEF FailedOnce, CarriedOut
<1>3. CASE \E n \in Cohort : WithdrawNode(n)
  <2>1. PICK n \in Cohort : WithdrawNode(n)
    BY <1>3
  <2>2. /\ agent' = agent /\ active' = active \ {n} /\ closed' = closed \cup {n}
        /\ fence' = [fence EXCEPT ![n] = @ + 1]
    BY <2>1 DEF WithdrawNode
  <2>3. /\ fence' \in [Cohort -> Nat]
        /\ \A m \in Cohort : fence[m] <= fence'[m] /\ (m # n => fence'[m] = fence[m])
    BY <1>0, <2>2 DEF RollbacksTypeOK
  <2>4. RollbacksTypeOK'
    BY <1>0, <1>1, <2>2, <2>3 DEF RollbacksTypeOK
  <2>5. FencesAreCurrent'
    BY <1>0, <1>1, <2>2, <2>3 DEF FencesAreCurrent
  <2>6. ASSUME NEW r \in Published PROVE published[r].users <= fence'[published[r].node]
    <3>1. PICK m \in Cohort, a \in Nat : m = published[r].node /\ a = published[r].users
      BY <1>0 DEF RollbacksTypeOK, RevisionRow
    <3>2. PICK b \in Nat, c \in Nat : b = fence[m] /\ c = fence'[m]
      BY <1>0, <2>3 DEF RollbacksTypeOK
    <3>3. a <= b /\ b <= c
      BY <1>0, <2>3, <3>1, <3>2 DEF FencesGrow
    <3> QED BY <3>1, <3>2, <3>3
  <2>7. FencesGrow'
    BY <1>0, <1>1, <2>6 DEF FencesGrow
  <2> QED BY <1>2, <2>4, <2>5, <2>7 DEF RollbacksInv
<1>4. CASE \E n \in Cohort : ReadmitNode(n)
  <2>1. /\ fence' = fence /\ agent' = agent /\ closed' = closed
        /\ active \subseteq active' /\ (active \subseteq Cohort => active' \subseteq Cohort)
    BY <1>4 DEF ReadmitNode
  <2> QED BY <1>0, <1>1, <1>2, <2>1 DEF RollbacksInv, RollbacksTypeOK, FencesAreCurrent, FencesGrow
<1>5. CASE \E n \in Cohort, version \in 1 .. 2 : ChangeAgent(n, version)
  <2>1. /\ fence' = fence /\ closed' = closed /\ active' = active
        /\ agent' \in [Cohort -> Nat]
    BY <1>0, <1>5 DEF ChangeAgent, RollbacksTypeOK
  <2> QED BY <1>0, <1>1, <1>2, <2>1 DEF RollbacksInv, RollbacksTypeOK, FencesAreCurrent, FencesGrow
<1> QED BY <1>3, <1>4, <1>5

LEMMA RollbacksInitHolds == RollbacksInit => RollbacksInv
<1> SUFFICES ASSUME RollbacksInit PROVE RollbacksInv
  OBVIOUS
<1> DEFINE c == Cardinality(Cohort)
           Fits(f) == f \in [1 .. c -> Cohort] /\ \A r, q \in 1 .. c : r # q => f[r] # f[q]
<1>1. IsFiniteSet(Cohort) /\ c \in Nat
  BY RollbacksAssumption, FS_CardinalityType
<1>2. IsFiniteSet(1 .. c) /\ Cardinality(1 .. c) = c
  BY <1>1, FS_Interval
<1>3. PICK g \in Bijection(1 .. c, Cohort) : TRUE
  BY <1>1, FS_CardinalityType DEF ExistsBijection
<1>4. g \in [1 .. c -> Cohort] /\ \A r, q \in DOMAIN g : r # q => g[r] # g[q]
  BY <1>3 DEF Bijection, Injection, IsInjective
<1>5. Firsts \in [1 .. c -> Cohort] /\ \A r, q \in DOMAIN Firsts : r # q => Firsts[r] # Firsts[q]
  BY <1>4 DEF Firsts
<1>6. DOMAIN Firsts = 1 .. c
  BY <1>5
<1> HIDE DEF c
<1>7. Firsts \in Injection(1 .. c, Cohort)
  BY <1>5 DEF Injection, IsInjective
<1>8. Firsts \in Surjection(1 .. c, Cohort)
  BY <1>1, <1>2, <1>7, FS_Injection DEF c
<1>9. \A n \in Cohort : (CHOOSE r \in 1 .. c : Firsts[r] = n) \in 1 .. c
  BY <1>8 DEF Surjection
<1>10. /\ desiredOf = [n \in Cohort |-> CHOOSE r \in 1 .. c : Firsts[r] = n]
       /\ published = [r \in 1 .. c |->
                         [node |-> Firsts[r], config |-> 1, users |-> 1, outcome |-> "applied"]]
       /\ active = Cohort /\ agent = [n \in Cohort |-> 2] /\ fence = [n \in Cohort |-> 1]
       /\ closed = {} /\ rollbacks = {}
  BY <1>6 DEF RollbacksInit, c
<1>11. Published = 1 .. c
  BY <1>10 DEF Published
<1>12. published \in [Published -> RevisionRow]
  BY <1>5, <1>10, <1>11 DEF RevisionRow
<1>13. RollbacksTypeOK
  BY <1>1, <1>9, <1>10, <1>11, <1>12 DEF RollbacksTypeOK
<1>14. FencesAreCurrent
  BY <1>9, <1>10 DEF FencesAreCurrent
<1>15. FencesGrow
  BY <1>5, <1>10, <1>11 DEF FencesGrow
<1> QED BY <1>10, <1>13, <1>14, <1>15 DEF RollbacksInv, FailedOnce

\* A rollback brings back a configuration and never the members it was published with,
\* only what the very node applied, and no failed revision twice: for every cohort and every
\* order of rollbacks, results, credential changes, disabled nodes and nodes that were
\* approved again (operator_rollback, transition_node).
THEOREM RollbacksKeepFences == RollbacksSpec => []RollbackKeepsFences
<1>1. RollbacksInv /\ [RollbacksNext]_rollbackVars => RollbacksInv'
  <2> SUFFICES ASSUME RollbacksInv, [RollbacksNext]_rollbackVars PROVE RollbacksInv'
    OBVIOUS
  <2>1. CASE \E n \in Cohort, c \in Configs : PublishConfiguration(n, c)
    BY <2>1, PublishConfigurationHolds
  <2>2. CASE \E r \in Published, outcome \in {"applied", "failed"} : RecordOutcome(r, outcome)
    BY <2>2, RecordOutcomeHolds
  <2>3. CASE ChangeCredentials
    BY <2>3, ChangeCredentialsHolds
  <2>4. CASE \/ \E n \in Cohort : WithdrawNode(n) \/ ReadmitNode(n)
             \/ \E n \in Cohort, version \in 1 .. 2 : ChangeAgent(n, version)
    BY <2>4, NodeChangeHolds
  <2>5. CASE \E key \in RequestKeys, nodes \in SUBSET Cohort \ {{}} :
               \E targets \in [nodes -> Targets] : OperatorRollback(key, targets)
    BY <2>5, OperatorRollbackHolds
  <2>6. CASE UNCHANGED rollbackVars
    BY <2>6 DEF rollbackVars, RollbacksInv, RollbacksTypeOK, FencesAreCurrent, FencesGrow,
                FailedOnce, CarriedOut, Published
  <2> QED BY <2>1, <2>2, <2>3, <2>4, <2>5, <2>6 DEF RollbacksNext
<1>2. RollbacksInv => RollbackKeepsFences
  BY DEF RollbacksInv, FencesAreCurrent, FencesGrow, CarriedOut, FailedOnce, RollbackKeepsFences
<1> QED BY <1>1, <1>2, RollbacksInitHolds, PTL DEF RollbacksSpec

=============================================================================
