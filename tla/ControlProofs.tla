---------------------------- MODULE ControlProofs ----------------------------
(***************************************************************************)
(* Proofs about module Control, for every set of nodes and members and     *)
(* every number of revisions and of credential versions.                   *)
(*                                                                         *)
(* The properties that TLC checks are inductive together with one bound:   *)
(* no node desires a revision that the network has not published.  Without *)
(* it a publication could overwrite the snapshot of a revision that is     *)
(* already applied.  A publication is one lemma (PublishEffect): what it   *)
(* keeps of the old revisions and what the new ones carry.  Then each      *)
(* handler is taken conjunct by conjunct.                                  *)
(***************************************************************************)
EXTENDS Control, TLAPS

\* No node desires a revision beyond networks.last_revision.
DesiredIsPublished == \A n \in Nodes : desired[n] <= lastRevision

\* The inductive invariant of the tables.
ControlInv ==
    /\ TypeOK /\ DesiredIsPublished
    /\ EnabledIsPublishable /\ OneCurrentCredential
    /\ EntitledIsDesired /\ ActiveIsApplied /\ ProgressHasEvidence

\* Zero is the absent revision and is no node; the others are positive numbers.
LEMMA RevisionFacts ==
    /\ Revs \subseteq Revs0 /\ Revs0 \subseteq Int /\ 0 \in Revs0 /\ 0 \notin Revs
    /\ \A r \in Revs0 : r # 0 => r \in Revs
    /\ \A r \in Revs0 : 0 <= r /\ r <= MaxRev
    /\ \A r \in Int : 1 <= r /\ r <= MaxRev => r \in Revs
    /\ MaxRev \in Int /\ 0 \notin Nodes
  BY MaxRevAssumption, ControlAssumption DEF Revs, Revs0

LEMMA CredFacts ==
    /\ \A c \in Creds : c[1] \in Pairs /\ c[1][1] \in Members /\ c[1][2] \in Nodes
    /\ \A c \in Creds : c[2] \in Versions /\ c = <<c[1], c[2]>>
    /\ \A pair \in Pairs : pair[1] \in Members /\ pair[2] \in Nodes
    /\ Versions \subseteq Int
  BY ControlAssumption DEF Creds, Pairs, Versions

-----------------------------------------------------------------------------
(* Publication *)

\* What a publication for the nodes of N does to the ledger.
Published(N) ==
    /\ lastRevision' \in Revs0 /\ lastRevision <= lastRevision'
    /\ target' \in [Revs -> Nodes \cup {0}]
    /\ snapshot' \in [Revs -> SUBSET Creds]
    /\ desired' \in [Nodes -> Revs0]
    /\ \A r \in Revs : r <= lastRevision =>
          target'[r] = target[r] /\ snapshot'[r] = snapshot[r]
    /\ \A n \in Nodes : desired[n] <= desired'[n] /\ desired'[n] <= lastRevision'
    /\ \A n \in Nodes \ N : desired'[n] = desired[n]
    /\ \A n \in N : /\ desired'[n] # 0
                    /\ snapshot'[desired'[n]]
                         = CompileDesiredUsers(n, account', assignment', cred')

\* A publication leaves the earlier revisions alone; each node of N gets a newer
\* revision that carries what compile_desired_users finds in the written tables.
LEMMA PublishEffect ==
    ASSUME TypeOK, DesiredIsPublished, NEW N \in SUBSET Nodes, Publish(N)
    PROVE  Published(N)
<1>1. PICK last \in lastRevision .. MaxRev : \E order \in [lastRevision + 1 .. last -> N] :
         PublishCompiled(N, last, order)
  BY DEF Publish
<1>2. PICK order \in [lastRevision + 1 .. last -> N] : PublishCompiled(N, last, order)
  BY <1>1
<1> DEFINE New == lastRevision + 1 .. last
           Of(n) == CHOOSE r \in New : order[r] = n
<1>3. /\ lastRevision \in Revs0 /\ lastRevision \in Int /\ last \in Int
      /\ lastRevision <= last /\ last <= MaxRev /\ last \in Revs0
  BY RevisionFacts, MaxRevAssumption DEF TypeOK, Revs0
<1>4. /\ New \subseteq Revs
      /\ \A r \in New : lastRevision < r /\ r <= last /\ order[r] \in N
  <2>1. ASSUME NEW r \in New
        PROVE  r \in Revs /\ lastRevision < r /\ r <= last /\ order[r] \in N
    <3>1. r \in Int /\ lastRevision + 1 <= r /\ r <= last /\ order[r] \in N
      BY <1>2, <1>3
    <3>2. 0 <= lastRevision
      BY <1>3, RevisionFacts
    <3>3. 1 <= r /\ r <= MaxRev /\ lastRevision < r
      BY <3>1, <3>2, <1>3, RevisionFacts
    <3> QED BY <3>1, <3>3, RevisionFacts
  <2> QED BY <2>1
<1>5. \A n \in N : Of(n) \in New /\ order[Of(n)] = n
  BY <1>2 DEF PublishCompiled
<1>6. /\ lastRevision' = last
      /\ target' = [r \in Revs |-> IF r \in New THEN order[r] ELSE target[r]]
      /\ snapshot' = [r \in Revs |->
            IF r \in New THEN CompileDesiredUsers(order[r], account', assignment', cred')
            ELSE snapshot[r]]
      /\ desired' = [n \in Nodes |-> IF n \in N THEN Of(n) ELSE desired[n]]
  BY <1>2 DEF PublishCompiled
<1>7. \A n, users, as, cs : CompileDesiredUsers(n, users, as, cs) \in SUBSET Creds
  BY DEF CompileDesiredUsers
<1> HIDE DEF New, Of
<1>8. lastRevision' \in Revs0 /\ lastRevision <= lastRevision'
  BY <1>3, <1>6
<1>9. target' \in [Revs -> Nodes \cup {0}]
  BY <1>4, <1>6 DEF TypeOK
<1>10. snapshot' \in [Revs -> SUBSET Creds]
  BY <1>4, <1>6, <1>7 DEF TypeOK
<1>11. desired' \in [Nodes -> Revs0]
  BY <1>4, <1>5, <1>6, RevisionFacts DEF TypeOK
<1>12. \A r \in Revs : r <= lastRevision =>
          target'[r] = target[r] /\ snapshot'[r] = snapshot[r]
  <2> TAKE r \in Revs
  <2> HAVE r <= lastRevision
  <2>1. r \notin New
    BY <1>3, <1>4, RevisionFacts
  <2> QED BY <2>1, <1>6
<1>13. \A n \in Nodes : desired[n] <= desired'[n] /\ desired'[n] <= lastRevision'
  <2> TAKE n \in Nodes
  <2>1. desired[n] \in Int /\ desired[n] <= lastRevision
    BY RevisionFacts DEF TypeOK, DesiredIsPublished
  <2>2. CASE n \in N
    <3>1. desired'[n] = Of(n) /\ Of(n) \in New
      BY <1>5, <1>6, <2>2
    <3>2. Of(n) \in Int /\ lastRevision < Of(n) /\ Of(n) <= last
      BY <3>1, <1>4, RevisionFacts
    <3>3. desired[n] <= Of(n)
      BY <3>2, <2>1, <1>3
    <3> QED BY <3>1, <3>2, <3>3, <1>6
  <2>3. CASE n \notin N
    BY <2>1, <2>3, <1>3, <1>6
  <2> QED BY <2>2, <2>3
<1>14. \A n \in Nodes \ N : desired'[n] = desired[n]
  BY <1>6
<1>15. ASSUME NEW n \in N
       PROVE  /\ desired'[n] # 0
              /\ snapshot'[desired'[n]]
                   = CompileDesiredUsers(n, account', assignment', cred')
  <2>1. desired'[n] = Of(n) /\ Of(n) \in New /\ Of(n) \in Revs /\ order[Of(n)] = n
    BY <1>4, <1>5, <1>6
  <2> QED BY <2>1, <1>6, RevisionFacts
<1> QED BY <1>8, <1>9, <1>10, <1>11, <1>12, <1>13, <1>14, <1>15 DEF Published

LEMMA PublishAccountEffect ==
    ASSUME TypeOK, DesiredIsPublished, NEW N \in SUBSET Nodes, PublishAccountRevisions(N)
    PROVE  Published(N) /\ \A n \in N : nodeStatus[n] = "active" /\ desired[n] # 0
  BY PublishEffect DEF PublishAccountRevisions, Publish

\* A step that publishes nothing is a publication for no node.
LEMMA NoPublication ==
    ASSUME TypeOK, DesiredIsPublished, UNCHANGED publication
    PROVE  Published({})
<1>1. lastRevision' = lastRevision /\ target' = target /\ snapshot' = snapshot
      /\ desired' = desired
  BY DEF publication
<1>2. \A n \in Nodes : desired[n] \in Int /\ lastRevision \in Int
  BY RevisionFacts DEF TypeOK
<1>3. lastRevision <= lastRevision
  BY RevisionFacts DEF TypeOK
<1> QED BY <1>1, <1>2, <1>3 DEF Published, TypeOK, DesiredIsPublished

-----------------------------------------------------------------------------
(* Credentials *)

Current == {"pending", "active"}
Statuses == {"none", "pending", "active", "retiring", "revoked"}

\* A retirement types, and neither issues a credential nor revives one.
LEMMA RetiredEffect ==
    ASSUME TypeOK, NEW P \in SUBSET Pairs
    PROVE  /\ Retired(P) \in [Creds -> Statuses]
           /\ \A c \in Creds :
                 /\ Retired(P)[c] \in Current => Retired(P)[c] = cred[c] /\ c[1] \notin P
                 /\ Retired(P)[c] \in {"active", "retiring"} => cred[c] \in {"active", "retiring"}
                 /\ cred[c] = "revoked" => Retired(P)[c] = "revoked"
                 /\ cred[c] = "retiring" => Retired(P)[c] = "retiring"
                 /\ cred[c] = "active" => Retired(P)[c] # "pending"
  BY DEF TypeOK, Retired, Current, Statuses

LEMMA RevokedEffect ==
    ASSUME TypeOK, NEW P \in SUBSET Pairs
    PROVE  /\ Revoked(P) \in [Creds -> Statuses]
           /\ \A c \in Creds :
                 /\ Revoked(P)[c] = cred[c] \/ Revoked(P)[c] = "revoked"
                 /\ c[1] \in P => Revoked(P)[c] \in {"none", "revoked"}
  BY DEF TypeOK, Revoked, Statuses

\* A rotation revokes what was issued and issues at most one credential for each pair.
LEMMA ReissuedEffect ==
    ASSUME TypeOK, NEW P \in SUBSET Pairs
    PROVE  /\ Reissued(P) \in [Creds -> Statuses]
           /\ \A c \in Creds :
                 /\ c[1] \notin P => Reissued(P)[c] = cred[c]
                 /\ c[1] \in P => Reissued(P)[c] \in {"none", "pending", "revoked"}
                 /\ c[1] \in P /\ cred[c] # "none" => Reissued(P)[c] = "revoked"
           /\ \A c, d \in Creds :
                 /\ c[1] = d[1] /\ c[1] \in P
                 /\ Reissued(P)[c] \in Current /\ Reissued(P)[d] \in Current
                 => c = d
<1>1. /\ Reissued(P) \in [Creds -> Statuses]
      /\ \A c \in Creds :
            /\ c[1] \notin P => Reissued(P)[c] = cred[c]
            /\ c[1] \in P => Reissued(P)[c] \in {"none", "pending", "revoked"}
            /\ c[1] \in P /\ cred[c] # "none" => Reissued(P)[c] = "revoked"
  BY DEF TypeOK, Reissued, Statuses
<1>2. ASSUME NEW c \in Creds, c[1] \in P, Reissued(P)[c] \in Current
      PROVE  cred[c] = "none" /\ \A v \in Versions : v < c[2] => cred[<<c[1], v>>] # "none"
  BY <1>2 DEF Reissued, Current
<1>3. ASSUME NEW c \in Creds, NEW d \in Creds, c[1] = d[1], c[1] \in P,
             Reissued(P)[c] \in Current, Reissued(P)[d] \in Current
      PROVE  c = d
  <2>1. ~(c[2] < d[2])
    BY <1>2, <1>3, CredFacts
  <2>2. ~(d[2] < c[2])
    BY <1>2, <1>3, CredFacts
  <2>3. c[2] = d[2]
    BY <2>1, <2>2, CredFacts
  <2> QED BY <1>3, <2>3, CredFacts
<1> QED BY <1>1, <1>3

\* An applied revision promotes what it carries and revokes what it no longer carries.
LEMMA ReconcileAppliedEffect ==
    ASSUME TypeOK, NEW n \in Nodes, NEW r \in Revs
    PROVE  /\ ReconcileApplied(n, r) \in [Creds -> Statuses]
           /\ \A c \in Creds :
                 LET new == ReconcileApplied(n, r)[c] IN
                 /\ c[1][2] # n => new = cred[c]
                 /\ c[1][2] = n /\ new \in {"active", "retiring"} => c \in snapshot[r]
                 /\ new \in Current => cred[c] \in Current
                 /\ cred[c] = "revoked" => new = "revoked"
                 /\ cred[c] = "retiring" => new \in {"retiring", "revoked"}
                 /\ cred[c] = "active" => new # "pending"
  BY CredFacts DEF TypeOK, ReconcileApplied, Current, Statuses

-----------------------------------------------------------------------------
(* Conjuncts of the invariant that several handlers preserve alike *)

LEMMA PublishedKeepsBound ==
    ASSUME NEW N, Published(N)
    PROVE  DesiredIsPublished'
  BY DEF Published, DesiredIsPublished

\* The progress of a node and its evidence outlive every publication.
LEMMA PublishedKeepsProgress ==
    ASSUME TypeOK, DesiredIsPublished, ProgressHasEvidence, NEW N \in SUBSET Nodes,
           Published(N), UNCHANGED progressed
    PROVE  ProgressHasEvidence'
<1> SUFFICES ASSUME NEW n \in Nodes
             PROVE  LET p == progress[n] IN
                /\ p.applied <= p.validated /\ p.validated <= p.received
                /\ p.received <= p.reportedDesired /\ p.reportedDesired <= desired'[n]
                /\ p.applied # 0 => target'[p.applied] = n /\ "applied" \in results[p.applied]
  BY DEF ProgressHasEvidence, progressed
<1> DEFINE p == progress[n]
<1>1. /\ p.applied \in Revs0 /\ p.validated \in Revs0 /\ p.received \in Revs0
      /\ p.reportedDesired \in Revs0 /\ desired[n] \in Revs0 /\ lastRevision \in Revs0
  BY DEF TypeOK
<1>2. /\ p.applied <= p.validated /\ p.validated <= p.received
      /\ p.received <= p.reportedDesired /\ p.reportedDesired <= desired[n]
      /\ p.applied # 0 => target[p.applied] = n /\ "applied" \in results[p.applied]
  BY DEF ProgressHasEvidence
<1>3. desired[n] <= lastRevision
  BY DEF DesiredIsPublished
<1>4. desired'[n] \in Revs0 /\ desired[n] <= desired'[n]
  BY DEF Published
<1> HIDE DEF p
<1>5. p.applied <= lastRevision /\ p.reportedDesired <= desired'[n]
  <2>1. p.applied <= lastRevision
    <3>1. /\ p.applied \in Int /\ p.validated \in Int /\ p.received \in Int
          /\ p.reportedDesired \in Int /\ desired[n] \in Int /\ lastRevision \in Int
      BY <1>1, RevisionFacts
    <3> QED BY <3>1, <1>2, <1>3
  <2>2. desired'[n] \in Int /\ desired[n] \in Int /\ p.reportedDesired \in Int
    BY <1>1, <1>4, RevisionFacts
  <2>3. p.reportedDesired <= desired'[n]
    BY <1>2, <1>4, <2>2
  <2> QED BY <2>1, <2>3
<1>6. p.applied # 0 => target'[p.applied] = target[p.applied]
  BY <1>1, <1>5, RevisionFacts DEF Published
<1> QED BY <1>2, <1>5, <1>6 DEF p

\* What a node applied outlives every publication that makes nothing active.
LEMMA PublishedKeepsApplied ==
    ASSUME TypeOK, DesiredIsPublished, ProgressHasEvidence, ActiveIsApplied,
           NEW N \in SUBSET Nodes, Published(N), UNCHANGED progressed,
           \A c \in Creds : cred'[c] \in {"active", "retiring"} =>
               cred[c] \in {"active", "retiring"}
    PROVE  ActiveIsApplied'
<1> SUFFICES ASSUME NEW c \in Creds, cred'[c] \in {"active", "retiring"}
             PROVE  LET r == progress[c[1][2]].applied IN r # 0 /\ c \in snapshot'[r]
  BY DEF ActiveIsApplied, progressed
<1> DEFINE n == c[1][2]
           p == progress[n]
<1>1. n \in Nodes
  BY CredFacts
<1>2. p.applied # 0 /\ c \in snapshot[p.applied]
  BY DEF ActiveIsApplied
<1>3. /\ p.applied \in Revs0 /\ p.validated \in Revs0 /\ p.received \in Revs0
      /\ p.reportedDesired \in Revs0 /\ desired[n] \in Revs0 /\ lastRevision \in Revs0
  BY <1>1 DEF TypeOK
<1>4. /\ p.applied <= p.validated /\ p.validated <= p.received
      /\ p.received <= p.reportedDesired /\ p.reportedDesired <= desired[n]
  BY <1>1 DEF ProgressHasEvidence
<1>5. desired[n] <= lastRevision
  BY <1>1 DEF DesiredIsPublished
<1> HIDE DEF n, p
<1>6. p.applied \in Revs /\ p.applied <= lastRevision
  BY <1>2, <1>3, <1>4, <1>5, RevisionFacts
<1>7. snapshot'[p.applied] = snapshot[p.applied]
  BY <1>6 DEF Published
<1> QED BY <1>2, <1>7 DEF n, p

\* Nobody is forgotten when every node outside N entitles nobody new.
LEMMA PublishedKeepsEntitled ==
    ASSUME TypeOK, DesiredIsPublished, EntitledIsDesired,
           NEW N \in SUBSET Nodes, Published(N), UNCHANGED nodeStatus,
           \A n \in Nodes \ N : nodeStatus[n] = "active" =>
               CompileDesiredUsers(n, account', assignment', cred')
                 \subseteq CompileDesiredUsers(n, account, assignment, cred)
    PROVE  EntitledIsDesired'
<1> SUFFICES ASSUME NEW n \in Nodes, nodeStatus[n] = "active", desired'[n] # 0
             PROVE  CompileDesiredUsers(n, account', assignment', cred')
                      \subseteq snapshot'[desired'[n]]
  BY DEF EntitledIsDesired, CompileDesiredUsers
<1>1. CASE n \in N
  BY <1>1 DEF Published
<1>2. CASE n \notin N
  <2>1. desired'[n] = desired[n] /\ desired[n] \in Revs /\ desired[n] <= lastRevision
    BY <1>2, RevisionFacts DEF Published, TypeOK, DesiredIsPublished
  <2>2. snapshot'[desired[n]] = snapshot[desired[n]]
    BY <2>1 DEF Published
  <2>3. CompileDesiredUsers(n, account, assignment, cred) \subseteq snapshot[desired[n]]
    BY <2>1 DEF EntitledIsDesired
  <2> QED BY <1>2, <2>1, <2>2, <2>3
<1> QED BY <1>1, <1>2

-----------------------------------------------------------------------------
(* One lemma for each handler *)

LEMMA InitHolds == Init => ControlInv
<1> SUFFICES ASSUME Init PROVE ControlInv
  OBVIOUS
<1>1. TypeOK
  BY RevisionFacts DEF Init, TypeOK, ResultStates
<1>2. DesiredIsPublished
  BY DEF Init, DesiredIsPublished
<1>3. EnabledIsPublishable /\ OneCurrentCredential
  BY DEF Init, EnabledIsPublishable, OneCurrentCredential
<1>4. EntitledIsDesired /\ ActiveIsApplied
  BY DEF Init, EntitledIsDesired, ActiveIsApplied
<1>5. ProgressHasEvidence
  BY DEF Init, ProgressHasEvidence
<1> QED BY <1>1, <1>2, <1>3, <1>4, <1>5 DEF ControlInv

\* What an administrative transaction must establish besides its publication.
LEMMA PublishedKeepsInv ==
    ASSUME ControlInv, NEW N \in SUBSET Nodes, Published(N),
           UNCHANGED <<nodeStatus, progressed>>,
           account' \in [Members -> {"active", "disabled", "deleted"}],
           assignment' \in [Pairs -> {"none", "enabled", "disabled", "deleted"}],
           cred' \in [Creds -> Statuses],
           \A pair \in Pairs : assignment'[pair] = "enabled" =>
               assignment[pair] = "enabled" \/ (pair[2] \in N /\ nodeStatus[pair[2]] = "active"),
           OneCurrentCredential',
           \A c \in Creds : cred'[c] \in {"active", "retiring"} =>
               cred[c] \in {"active", "retiring"},
           \A n \in Nodes \ N : nodeStatus[n] = "active" =>
               CompileDesiredUsers(n, account', assignment', cred')
                 \subseteq CompileDesiredUsers(n, account, assignment, cred)
    PROVE  ControlInv'
<1> USE DEF ControlInv
<1>1. TypeOK'
  <2>1. /\ nodeStatus' = nodeStatus /\ results' = results /\ restored' = restored
        /\ progress' = progress
    BY DEF progressed
  <2> QED BY <2>1 DEF TypeOK, Published, Statuses
<1>2. EnabledIsPublishable'
  <2> SUFFICES ASSUME NEW pair \in Pairs, assignment'[pair] = "enabled"
               PROVE  nodeStatus[pair[2]] = "active" /\ desired'[pair[2]] # 0
    BY DEF EnabledIsPublishable
  <2>1. pair[2] \in Nodes
    BY CredFacts
  <2>2. CASE pair[2] \in N /\ nodeStatus[pair[2]] = "active"
    BY <2>2 DEF Published
  <2>3. CASE assignment[pair] = "enabled" /\ pair[2] \notin N
    <3>1. nodeStatus[pair[2]] = "active" /\ desired[pair[2]] # 0
      BY <2>3 DEF EnabledIsPublishable
    <3> QED BY <2>1, <2>3, <3>1 DEF Published
  <2>4. CASE assignment[pair] = "enabled" /\ pair[2] \in N
    <3>1. nodeStatus[pair[2]] = "active" /\ desired[pair[2]] # 0
      BY <2>4 DEF EnabledIsPublishable
    <3> QED BY <2>4, <3>1 DEF Published
  <2> QED BY <2>2, <2>3, <2>4
<1>3. DesiredIsPublished'
  BY PublishedKeepsBound
<1>4. ProgressHasEvidence'
  BY PublishedKeepsProgress
<1>5. ActiveIsApplied'
  BY PublishedKeepsApplied
<1>6. EntitledIsDesired'
  BY PublishedKeepsEntitled
<1> QED BY <1>1, <1>2, <1>3, <1>4, <1>5, <1>6

\* replace_account_nodes: the nodes it adds and drops are the ones it publishes for.
LEMMA ReplaceAccountNodesHolds ==
    ASSUME ControlInv, NEW m \in Members, NEW S \in SUBSET Nodes, ReplaceAccountNodes(m, S)
    PROVE  ControlInv'
<1> DEFINE add == {pair \in Pairs : pair[1] = m /\ pair[2] \in S /\ assignment[pair] # "enabled"}
           drop == {pair \in Enabled(m) : pair[2] \notin S}
           N == NodesOf(add \cup drop)
<1>1. /\ assignment' = [pair \in Pairs |-> IF pair \in add THEN "enabled"
                                            ELSE IF pair \in drop THEN "disabled"
                                            ELSE assignment[pair]]
      /\ cred' = Both(Retired(drop), add, Reissued(add))
      /\ UNCHANGED <<account, nodeStatus, progressed>>
      /\ PublishAccountRevisions(N)
  BY DEF ReplaceAccountNodes
<1>2. /\ add \in SUBSET Pairs /\ drop \in SUBSET Pairs /\ N \in SUBSET Nodes
      /\ \A pair \in add \cup drop : pair[2] \in N
  BY CredFacts DEF Enabled, NodesOf
<1> HIDE DEF add, drop, N
<1>3. TypeOK /\ DesiredIsPublished /\ OneCurrentCredential
  BY DEF ControlInv
<1>4. Published(N) /\ \A n \in N : nodeStatus[n] = "active" /\ desired[n] # 0
  BY <1>1, <1>2, <1>3, PublishAccountEffect
<1>5. \A c \in Creds : cred'[c] = IF c[1] \in add THEN Reissued(add)[c] ELSE Retired(drop)[c]
  BY <1>1 DEF Both
<1>6. cred' \in [Creds -> Statuses]
  <2>1. \A c \in Creds : Reissued(add)[c] \in Statuses /\ Retired(drop)[c] \in Statuses
    BY <1>2, <1>3, RetiredEffect, ReissuedEffect
  <2> QED BY <1>1, <2>1 DEF Both
<1>7. /\ account' \in [Members -> {"active", "disabled", "deleted"}]
      /\ assignment' \in [Pairs -> {"none", "enabled", "disabled", "deleted"}]
  BY <1>1, <1>3 DEF TypeOK
<1>8. \A pair \in Pairs : assignment'[pair] = "enabled" =>
          assignment[pair] = "enabled" \/ (pair[2] \in N /\ nodeStatus[pair[2]] = "active")
  BY <1>1, <1>2, <1>4
<1>9. OneCurrentCredential'
  <2> SUFFICES ASSUME NEW c \in Creds, NEW d \in Creds, c[1] = d[1],
                      cred'[c] \in Current, cred'[d] \in Current
               PROVE  c = d
    BY DEF OneCurrentCredential, Current
  <2>1. CASE c[1] \in add
    BY <1>2, <1>3, <1>5, <2>1, ReissuedEffect
  <2>2. CASE c[1] \notin add
    <3>1. cred[c] \in Current /\ cred[d] \in Current
      BY <1>2, <1>3, <1>5, <2>2, RetiredEffect
    <3> QED BY <3>1, <1>3 DEF OneCurrentCredential, Current
  <2> QED BY <2>1, <2>2
<1>10. \A c \in Creds : cred'[c] \in {"active", "retiring"} =>
           cred[c] \in {"active", "retiring"}
  BY <1>2, <1>3, <1>5, RetiredEffect, ReissuedEffect
<1>11. ASSUME NEW n \in Nodes \ N, NEW c \in CompileDesiredUsers(n, account', assignment', cred')
       PROVE  c \in CompileDesiredUsers(n, account, assignment, cred)
  <2>1. /\ c \in Creds /\ c[1][2] = n /\ cred'[c] \in Current
        /\ assignment'[c[1]] = "enabled" /\ account'[c[1][1]] = "active"
    BY DEF CompileDesiredUsers, Current
  <2>2. c[1] \in Pairs /\ c[1] \notin add /\ c[1] \notin drop
    BY <1>2, <2>1, CredFacts
  <2>3. assignment[c[1]] = "enabled" /\ account[c[1][1]] = "active"
    BY <1>1, <2>1, <2>2
  <2>4. cred[c] \in Current
    BY <1>2, <1>3, <1>5, <2>1, <2>2, RetiredEffect
  <2> QED BY <2>1, <2>3, <2>4 DEF CompileDesiredUsers, Current
<1>12. UNCHANGED <<nodeStatus, progressed>>
  BY <1>1
<1>13. \A n \in Nodes \ N : CompileDesiredUsers(n, account', assignment', cred')
                \subseteq CompileDesiredUsers(n, account, assignment, cred)
  BY <1>11
<1> QED BY <1>2, <1>4, <1>6, <1>7, <1>8, <1>9, <1>10, <1>12, <1>13, PublishedKeepsInv

\* set_account_status: an enabled assignment is on an active node, so every node whose
\* members change is published for.
LEMMA SetAccountStatusHolds ==
    ASSUME ControlInv, NEW m \in Members, NEW status \in {"active", "disabled", "deleted"},
           SetAccountStatus(m, status)
    PROVE  ControlInv'
<1> DEFINE N == {n \in NodesOf(Enabled(m)) : nodeStatus[n] = "active"}
           mine == {pair \in Pairs : pair[1] = m}
<1>1. /\ account' = [account EXCEPT ![m] = status]
      /\ UNCHANGED <<nodeStatus, progressed>> /\ PublishAccountRevisions(N)
  BY DEF SetAccountStatus
<1>2. \/ status = "active" /\ cred' = Reissued(Enabled(m)) /\ UNCHANGED assignment
      \/ status = "disabled" /\ cred' = Retired(Enabled(m)) /\ UNCHANGED assignment
      \/ /\ status = "deleted" /\ cred' = Revoked(mine)
         /\ assignment' = [pair \in Pairs |->
               IF pair[1] = m /\ assignment[pair] # "none" THEN "deleted"
               ELSE assignment[pair]]
  BY DEF SetAccountStatus
<1>3. /\ Enabled(m) \in SUBSET Pairs /\ mine \in SUBSET Pairs /\ N \in SUBSET Nodes
      /\ \A pair \in Enabled(m) : pair[1] = m /\ assignment[pair] = "enabled"
      /\ \A pair \in Pairs : pair[1] = m /\ assignment[pair] = "enabled"
                             /\ nodeStatus[pair[2]] = "active" => pair[2] \in N
      /\ \A pair \in Pairs : pair[1] = m => pair \in mine
  BY CredFacts DEF Enabled, NodesOf
<1> HIDE DEF N, mine
<1>4. TypeOK /\ DesiredIsPublished /\ OneCurrentCredential
  BY DEF ControlInv
<1>5. Published(N)
  BY <1>1, <1>3, <1>4, PublishAccountEffect
<1>6. cred' \in [Creds -> Statuses]
  BY <1>2, <1>3, <1>4, RetiredEffect, ReissuedEffect, RevokedEffect
<1>7. /\ account' \in [Members -> {"active", "disabled", "deleted"}]
      /\ assignment' \in [Pairs -> {"none", "enabled", "disabled", "deleted"}]
  BY <1>1, <1>2, <1>4 DEF TypeOK
<1>8. \A pair \in Pairs : assignment'[pair] = "enabled" => assignment[pair] = "enabled"
  BY <1>2
<1>9. OneCurrentCredential'
  <2> SUFFICES ASSUME NEW c \in Creds, NEW d \in Creds, c[1] = d[1],
                      cred'[c] \in Current, cred'[d] \in Current
               PROVE  c = d
    BY DEF OneCurrentCredential, Current
  <2>1. CASE cred' = Reissued(Enabled(m)) /\ c[1] \in Enabled(m)
    BY <1>3, <1>4, <2>1, ReissuedEffect
  <2>2. CASE ~(cred' = Reissued(Enabled(m)) /\ c[1] \in Enabled(m))
    <3>1. ASSUME NEW e \in Creds, e[1] = c[1], cred'[e] \in Current
          PROVE  cred[e] \in Current
      <4>1. CASE cred' = Reissued(Enabled(m)) /\ c[1] \notin Enabled(m)
        BY <1>3, <1>4, <3>1, <4>1, ReissuedEffect
      <4>2. CASE cred' = Retired(Enabled(m))
        BY <1>3, <1>4, <3>1, <4>2, RetiredEffect
      <4>3. CASE cred' = Revoked(mine)
        BY <1>3, <1>4, <3>1, <4>3, RevokedEffect DEF Current
      <4> QED BY <1>2, <2>2, <4>1, <4>2, <4>3
    <3> QED BY <3>1, <1>4 DEF OneCurrentCredential, Current
  <2> QED BY <2>1, <2>2
<1>10. \A c \in Creds : cred'[c] \in {"active", "retiring"} =>
           cred[c] \in {"active", "retiring"}
  BY <1>2, <1>3, <1>4, RetiredEffect, ReissuedEffect, RevokedEffect
<1>11. ASSUME NEW n \in Nodes \ N, nodeStatus[n] = "active",
              NEW c \in CompileDesiredUsers(n, account', assignment', cred')
       PROVE  c \in CompileDesiredUsers(n, account, assignment, cred)
  <2>1. /\ c \in Creds /\ c[1][2] = n /\ cred'[c] \in Current
        /\ assignment'[c[1]] = "enabled" /\ account'[c[1][1]] = "active"
    BY DEF CompileDesiredUsers, Current
  <2>2. c[1] \in Pairs /\ c[1][1] \in Members /\ assignment[c[1]] = "enabled"
    BY <1>8, <2>1, CredFacts
  <2>3. c[1][1] # m
    BY <1>3, <1>11, <2>1, <2>2
  <2>4. account[c[1][1]] = "active"
    BY <1>1, <1>4, <2>1, <2>2, <2>3 DEF TypeOK
  <2>5. c[1] \notin Enabled(m)
    BY <1>3, <2>3
  <2>6. cred[c] \in Current
    <3>1. CASE cred' = Reissued(Enabled(m))
      BY <1>3, <1>4, <2>1, <2>5, <3>1, ReissuedEffect
    <3>2. CASE cred' = Retired(Enabled(m))
      BY <1>3, <1>4, <2>1, <3>2, RetiredEffect
    <3>3. CASE cred' = Revoked(mine)
      BY <1>3, <1>4, <2>1, <3>3, RevokedEffect DEF Current
    <3> QED BY <1>2, <3>1, <3>2, <3>3
  <2> QED BY <2>1, <2>2, <2>4, <2>6 DEF CompileDesiredUsers, Current
<1>12. UNCHANGED <<nodeStatus, progressed>>
  BY <1>1
<1>13. \A n \in Nodes \ N : nodeStatus[n] = "active" =>
            CompileDesiredUsers(n, account', assignment', cred')
                \subseteq CompileDesiredUsers(n, account, assignment, cred)
  BY <1>11
<1> QED BY <1>3, <1>5, <1>6, <1>7, <1>8, <1>9, <1>10, <1>12, <1>13, PublishedKeepsInv

\* rotate_account_credentials revokes what every enabled assignment had and issues anew.
LEMMA RotateAccountCredentialsHolds ==
    ASSUME ControlInv, NEW m \in Members, RotateAccountCredentials(m)
    PROVE  ControlInv'
<1> DEFINE N == NodesOf(Enabled(m))
<1>1. /\ cred' = Reissued(Enabled(m)) /\ account' = account /\ assignment' = assignment
      /\ UNCHANGED <<nodeStatus, progressed>> /\ PublishAccountRevisions(N)
  BY DEF RotateAccountCredentials
<1>2. /\ Enabled(m) \in SUBSET Pairs /\ N \in SUBSET Nodes
      /\ \A pair \in Enabled(m) : pair[2] \in N
  BY CredFacts DEF Enabled, NodesOf
<1> HIDE DEF N
<1>3. TypeOK /\ DesiredIsPublished /\ OneCurrentCredential
  BY DEF ControlInv
<1>4. Published(N)
  BY <1>1, <1>2, <1>3, PublishAccountEffect
<1>5. cred' \in [Creds -> Statuses]
  BY <1>1, <1>2, <1>3, ReissuedEffect
<1>6. /\ account' \in [Members -> {"active", "disabled", "deleted"}]
      /\ assignment' \in [Pairs -> {"none", "enabled", "disabled", "deleted"}]
  BY <1>1, <1>3 DEF TypeOK
<1>7. OneCurrentCredential'
  <2> SUFFICES ASSUME NEW c \in Creds, NEW d \in Creds, c[1] = d[1],
                      cred'[c] \in Current, cred'[d] \in Current
               PROVE  c = d
    BY DEF OneCurrentCredential, Current
  <2>1. CASE c[1] \in Enabled(m)
    BY <1>1, <1>2, <1>3, <2>1, ReissuedEffect
  <2>2. CASE c[1] \notin Enabled(m)
    <3>1. cred[c] \in Current /\ cred[d] \in Current
      BY <1>1, <1>2, <1>3, <2>2, ReissuedEffect
    <3> QED BY <3>1, <1>3 DEF OneCurrentCredential, Current
  <2> QED BY <2>1, <2>2
<1>8. \A c \in Creds : cred'[c] \in {"active", "retiring"} =>
           cred[c] \in {"active", "retiring"}
  BY <1>1, <1>2, <1>3, ReissuedEffect
<1>9. ASSUME NEW n \in Nodes \ N, NEW c \in CompileDesiredUsers(n, account', assignment', cred')
      PROVE  c \in CompileDesiredUsers(n, account, assignment, cred)
  <2>1. /\ c \in Creds /\ c[1][2] = n /\ cred'[c] \in Current
        /\ assignment[c[1]] = "enabled" /\ account[c[1][1]] = "active"
    BY <1>1 DEF CompileDesiredUsers, Current
  <2>2. c[1] \notin Enabled(m)
    BY <1>2, <2>1
  <2>3. cred[c] \in Current
    BY <1>1, <1>2, <1>3, <2>1, <2>2, ReissuedEffect
  <2> QED BY <2>1, <2>3 DEF CompileDesiredUsers, Current
<1>10. \A n \in Nodes \ N : CompileDesiredUsers(n, account', assignment', cred')
                \subseteq CompileDesiredUsers(n, account, assignment, cred)
  BY <1>9
<1>11. \A pair \in Pairs : assignment'[pair] = "enabled" => assignment[pair] = "enabled"
  BY <1>1
<1>12. UNCHANGED <<nodeStatus, progressed>>
  BY <1>1
<1> QED BY <1>2, <1>4, <1>5, <1>6, <1>7, <1>8, <1>10, <1>11, <1>12, PublishedKeepsInv

LEMMA PublishDesiredStateHolds ==
    ASSUME ControlInv, NEW n \in Nodes, PublishDesiredState(n)
    PROVE  ControlInv'
<1>1. /\ account' = account /\ assignment' = assignment /\ cred' = cred
      /\ UNCHANGED <<nodeStatus, progressed>> /\ Publish({n})
  BY DEF PublishDesiredState, access
<1>2. TypeOK /\ DesiredIsPublished /\ OneCurrentCredential
  BY DEF ControlInv
<1>3. Published({n}) /\ {n} \in SUBSET Nodes
  BY <1>1, <1>2, PublishEffect
<1>4. /\ account' \in [Members -> {"active", "disabled", "deleted"}]
      /\ assignment' \in [Pairs -> {"none", "enabled", "disabled", "deleted"}]
      /\ cred' \in [Creds -> Statuses] /\ OneCurrentCredential'
  BY <1>1, <1>2 DEF TypeOK, Statuses, OneCurrentCredential
<1>5. \A k \in Nodes : CompileDesiredUsers(k, account', assignment', cred')
                \subseteq CompileDesiredUsers(k, account, assignment, cred)
  BY <1>1
<1>6. UNCHANGED <<nodeStatus, progressed>>
  BY <1>1
<1> QED BY <1>1, <1>3, <1>4, <1>5, <1>6, PublishedKeepsInv

\* An approved node has no enabled assignment, so nobody can have been forgotten.
LEMMA ApproveNodeHolds ==
    ASSUME ControlInv, NEW n \in Nodes, ApproveNode(n)
    PROVE  ControlInv'
<1> USE DEF ControlInv
<1>1. /\ nodeStatus[n] # "active" /\ nodeStatus' = [nodeStatus EXCEPT ![n] = "active"]
      /\ UNCHANGED <<account, assignment, cred>> /\ UNCHANGED publication
      /\ UNCHANGED progressed
  BY DEF ApproveNode, access
<1>2. \A k \in Nodes : nodeStatus'[k] = IF k = n THEN "active" ELSE nodeStatus[k]
  BY <1>1 DEF TypeOK
<1>3. TypeOK'
  BY <1>1 DEF TypeOK, publication, progressed
<1>4. DesiredIsPublished' /\ OneCurrentCredential' /\ ActiveIsApplied' /\ ProgressHasEvidence'
  BY <1>1 DEF DesiredIsPublished, OneCurrentCredential, ActiveIsApplied,
              ProgressHasEvidence, publication, progressed
<1>5. EnabledIsPublishable'
  BY <1>1, <1>2, CredFacts DEF EnabledIsPublishable, publication
<1>6. EntitledIsDesired'
  <2> SUFFICES ASSUME NEW k \in Nodes, nodeStatus'[k] = "active", desired[k] # 0
               PROVE  CompileDesiredUsers(k, account, assignment, cred)
                        \subseteq snapshot[desired[k]]
    BY <1>1 DEF EntitledIsDesired, CompileDesiredUsers, publication
  <2>1. CASE k = n
    <3>1. \A c \in Creds : c[1][2] = n => assignment[c[1]] # "enabled"
      BY <1>1, CredFacts DEF EnabledIsPublishable
    <3> QED BY <2>1, <3>1 DEF CompileDesiredUsers
  <2>2. CASE k # n
    BY <1>2, <2>2 DEF EntitledIsDesired
  <2> QED BY <2>1, <2>2
<1> QED BY <1>3, <1>4, <1>5, <1>6

\* close_node_member_access closes every enabled assignment of the node it closes.
LEMMA CloseNodeHolds ==
    ASSUME ControlInv, NEW n \in Nodes, NEW status \in {"disabled", "revoked"},
           NEW closed, "enabled" \in closed, CloseNode(n, status, closed)
    PROVE  ControlInv'
<1> USE DEF ControlInv
<1> DEFINE P == {pair \in Pairs : pair[2] = n}
<1>1. /\ nodeStatus' = [nodeStatus EXCEPT ![n] = status]
      /\ assignment' = [pair \in Pairs |->
            IF pair[2] = n /\ assignment[pair] \in closed THEN
               IF status = "revoked" THEN "deleted" ELSE "disabled"
            ELSE assignment[pair]]
      /\ cred' = Revoked(P)
      /\ account' = account /\ UNCHANGED publication /\ UNCHANGED progressed
  BY DEF CloseNode
<1>2. P \in SUBSET Pairs /\ \A c \in Creds : c[1][2] = n => c[1] \in P
  BY CredFacts
<1> HIDE DEF P
<1>3. \A k \in Nodes : nodeStatus'[k] = IF k = n THEN status ELSE nodeStatus[k]
  BY <1>1 DEF TypeOK
<1>4. TypeOK'
  <2>1. cred' \in [Creds -> Statuses]
    BY <1>1, <1>2, RevokedEffect
  <2>2. assignment' \in [Pairs -> {"none", "enabled", "disabled", "deleted"}]
    BY <1>1 DEF TypeOK
  <2>3. nodeStatus' \in [Nodes -> {"pending", "active", "disabled", "revoked"}]
    BY <1>1 DEF TypeOK
  <2> QED BY <1>1, <2>1, <2>2, <2>3 DEF TypeOK, Statuses, publication, progressed
<1>5. \A c \in Creds : cred'[c] = cred[c] \/ cred'[c] = "revoked"
  BY <1>1, <1>2, RevokedEffect
<1>6. DesiredIsPublished' /\ ProgressHasEvidence'
  BY <1>1 DEF DesiredIsPublished, ProgressHasEvidence, publication, progressed
<1>7. OneCurrentCredential'
  BY <1>5 DEF OneCurrentCredential
<1>8. ActiveIsApplied'
  BY <1>1, <1>5 DEF ActiveIsApplied, publication, progressed
<1>9. \A pair \in Pairs : assignment'[pair] = "enabled" => assignment[pair] = "enabled" /\ pair[2] # n
  BY <1>1
<1>10. EnabledIsPublishable'
  BY <1>1, <1>3, <1>9, CredFacts DEF EnabledIsPublishable, publication
<1>11. EntitledIsDesired'
  <2> SUFFICES ASSUME NEW k \in Nodes, nodeStatus'[k] = "active", desired[k] # 0,
                      NEW c \in CompileDesiredUsers(k, account, assignment', cred')
               PROVE  c \in snapshot[desired[k]]
    BY <1>1 DEF EntitledIsDesired, CompileDesiredUsers, publication
  <2>1. k # n /\ nodeStatus[k] = "active"
    BY <1>3
  <2>2. c \in CompileDesiredUsers(k, account, assignment, cred)
    BY <1>5, <1>9, CredFacts DEF CompileDesiredUsers
  <2> QED BY <2>1, <2>2 DEF EntitledIsDesired
<1> QED BY <1>4, <1>6, <1>7, <1>8, <1>10, <1>11

\* record_revision_result: the cursors only follow results that are recorded, and the
\* credentials are reconciled with the revision that the node runs after the report.
LEMMA RecordRevisionResultHolds ==
    ASSUME ControlInv, NEW n \in Nodes, NEW r \in Revs, NEW s \in ResultStates,
           NEW p \in Revs0, s = "rolledBack" <=> p # 0, RecordRevisionResult(n, r, s, p)
    PROVE  ControlInv'
<1> USE DEF ControlInv
<1> DEFINE old == progress[n]
           now == [reportedDesired |-> Larger(old.reportedDesired, r),
                   received |-> Larger(old.received, r),
                   validated |-> IF s \in {"validated", "applied", "rolledBack"}
                                 THEN Larger(old.validated, r) ELSE old.validated,
                   applied |-> AppliedAfter(n, r, s, p)]
<1>1. /\ ResultAccepted(n, r, s, p)
      /\ results' = [results EXCEPT ![r] = @ \cup {s}]
      /\ restored' = [restored EXCEPT ![r] = p]
      /\ progress' = [progress EXCEPT ![n] = now]
      /\ cred' = IF s \in {"applied", "rolledBack"}
                  THEN ReconcileApplied(n, AppliedAfter(n, r, s, p)) ELSE cred
      /\ UNCHANGED <<account, assignment, nodeStatus>> /\ UNCHANGED publication
  BY DEF RecordRevisionResult
<1>2. /\ old.applied \in Revs0 /\ old.validated \in Revs0 /\ old.received \in Revs0
      /\ old.reportedDesired \in Revs0 /\ desired[n] \in Revs0 /\ r \in Revs0
  BY RevisionFacts DEF TypeOK
<1>3. /\ old.applied <= old.validated /\ old.validated <= old.received
      /\ old.received <= old.reportedDesired /\ old.reportedDesired <= desired[n]
      /\ old.applied # 0 => target[old.applied] = n /\ "applied" \in results[old.applied]
  BY DEF ProgressHasEvidence
<1>4. target[r] = n /\ r <= desired[n]
  BY <1>1 DEF ResultAccepted
<1>5. s = "rolledBack" => p \in Revs /\ p < r /\ target[p] = n /\ "applied" \in results[p]
  BY <1>1 DEF ResultAccepted
<1>6. now = [reportedDesired |-> now.reportedDesired, received |-> now.received,
             validated |-> now.validated, applied |-> now.applied]
  OBVIOUS
<1>7. /\ now.reportedDesired \in Revs0 /\ now.received \in Revs0
      /\ now.validated \in Revs0 /\ now.applied \in Revs0
  BY <1>2 DEF Larger, AppliedAfter
<1>8. /\ now.received <= now.reportedDesired /\ now.reportedDesired <= desired[n]
      /\ now.validated <= now.received
  <2>1. /\ old.validated \in Int /\ old.received \in Int /\ old.reportedDesired \in Int
        /\ desired[n] \in Int /\ r \in Int
    BY <1>2, RevisionFacts
  <2> QED BY <1>3, <1>4, <2>1 DEF Larger
<1>9. now.applied <= now.validated
  <2>1. /\ old.validated \in Int /\ old.applied \in Int /\ r \in Int /\ p \in Int
    BY <1>2, RevisionFacts
  <2> QED BY <1>3, <1>5, <2>1 DEF Larger, AppliedAfter, ResultStates
<1>10. now.applied # 0 => target[now.applied] = n /\ "applied" \in results'[now.applied]
  <2>1. \A q \in Revs : results[q] \subseteq results'[q]
    BY <1>1 DEF TypeOK
  <2>2. s \in results'[r]
    BY <1>1 DEF TypeOK
  <2>3. CASE s = "applied"
    BY <1>2, <1>3, <1>4, <2>1, <2>2, <2>3, RevisionFacts DEF AppliedAfter, Larger
  <2>4. CASE s = "rolledBack"
    BY <1>5, <2>1, <2>4 DEF AppliedAfter
  <2>5. CASE s \notin {"applied", "rolledBack"}
    BY <1>2, <1>3, <2>1, <2>5, RevisionFacts DEF AppliedAfter
  <2> QED BY <2>3, <2>4, <2>5
<1>11. s \in {"applied", "rolledBack"} => now.applied \in Revs
  BY <1>2, <1>5, RevisionFacts DEF AppliedAfter, Larger
<1>12. s \notin {"applied", "rolledBack"} => now.applied = old.applied
  BY DEF AppliedAfter
<1>13. /\ AppliedAfter(n, r, s, p) = now.applied
       /\ \A k \in Nodes : progress'[k] = IF k = n THEN now ELSE progress[k]
  BY <1>1 DEF TypeOK
<1> HIDE DEF old, now
<1>14. TypeOK'
  <2>1. results' \in [Revs -> SUBSET ResultStates] /\ restored' \in [Revs -> Revs0]
    BY <1>1 DEF TypeOK
  <2>2. now \in [reportedDesired : Revs0, received : Revs0, validated : Revs0, applied : Revs0]
    BY <1>6, <1>7
  <2>3. progress' \in [Nodes -> [reportedDesired : Revs0, received : Revs0,
                                 validated : Revs0, applied : Revs0]]
    BY <1>1, <2>2 DEF TypeOK
  <2>4. cred' \in [Creds -> Statuses]
    BY <1>1, <1>11, <1>13, ReconcileAppliedEffect DEF TypeOK, Statuses
  <2> QED BY <1>1, <2>1, <2>3, <2>4 DEF TypeOK, Statuses, publication
<1>15. DesiredIsPublished' /\ EnabledIsPublishable'
  BY <1>1 DEF DesiredIsPublished, EnabledIsPublishable, publication
<1>16. ProgressHasEvidence'
  <2> SUFFICES ASSUME NEW k \in Nodes
               PROVE  LET q == progress'[k] IN
                  /\ q.applied <= q.validated /\ q.validated <= q.received
                  /\ q.received <= q.reportedDesired /\ q.reportedDesired <= desired[k]
                  /\ q.applied # 0 => target[q.applied] = k /\ "applied" \in results'[q.applied]
    BY <1>1 DEF ProgressHasEvidence, publication
  <2>1. CASE k = n
    BY <1>8, <1>9, <1>10, <1>13, <2>1
  <2>2. CASE k # n
    <3>1. \A q \in Revs : results[q] \subseteq results'[q]
      BY <1>1 DEF TypeOK
    <3>2. progress'[k] = progress[k] /\ progress[k].applied \in Revs0
      BY <1>13, <2>2 DEF TypeOK
    <3> QED BY <3>1, <3>2, RevisionFacts DEF ProgressHasEvidence
  <2> QED BY <2>1, <2>2
<1>17. \A c \in Creds : cred'[c] \in Current => cred[c] \in Current
  BY <1>1, <1>11, <1>13, ReconcileAppliedEffect
<1>18. OneCurrentCredential'
  <2> SUFFICES ASSUME NEW c \in Creds, NEW d \in Creds, c[1] = d[1],
                      cred'[c] \in Current, cred'[d] \in Current
               PROVE  c = d
    BY DEF OneCurrentCredential, Current
  <2> QED BY <1>17 DEF OneCurrentCredential, Current
<1>19. EntitledIsDesired'
  <2> SUFFICES ASSUME NEW k \in Nodes, nodeStatus[k] = "active", desired[k] # 0,
                      NEW c \in CompileDesiredUsers(k, account, assignment, cred')
               PROVE  c \in snapshot[desired[k]]
    BY <1>1 DEF EntitledIsDesired, CompileDesiredUsers, publication
  <2>1. c \in CompileDesiredUsers(k, account, assignment, cred)
    BY <1>17 DEF CompileDesiredUsers, Current
  <2> QED BY <2>1 DEF EntitledIsDesired
<1>20. ActiveIsApplied'
  <2> SUFFICES ASSUME NEW c \in Creds, cred'[c] \in {"active", "retiring"}
               PROVE  LET q == progress'[c[1][2]].applied IN q # 0 /\ c \in snapshot[q]
    BY <1>1 DEF ActiveIsApplied, publication
  <2>1. c[1][2] \in Nodes
    BY CredFacts
  <2>2. CASE c[1][2] = n /\ s \in {"applied", "rolledBack"}
    BY <1>1, <1>11, <1>13, <2>2, ReconcileAppliedEffect, RevisionFacts
  <2>3. CASE c[1][2] = n /\ s \notin {"applied", "rolledBack"}
    BY <1>1, <1>12, <1>13, <2>3 DEF ActiveIsApplied, old
  <2>4. CASE c[1][2] # n
    <3>1. cred'[c] = cred[c]
      BY <1>1, <1>11, <1>13, <2>4, ReconcileAppliedEffect
    <3> QED BY <1>13, <2>1, <2>4, <3>1 DEF ActiveIsApplied
  <2> QED BY <2>2, <2>3, <2>4
<1> QED BY <1>14, <1>15, <1>16, <1>18, <1>19, <1>20

\* record_heartbeat moves the desired cursor between the received one and the newest.
LEMMA RecordHeartbeatHolds ==
    ASSUME ControlInv, NEW n \in Nodes, NEW hb, hb.desired \in Revs0, RecordHeartbeat(n, hb)
    PROVE  ControlInv'
<1> USE DEF ControlInv
<1>1. /\ hb.desired >= progress[n].reportedDesired
      /\ hb.desired # 0 => hb.desired <= desired[n]
      /\ progress' = [progress EXCEPT ![n].reportedDesired = hb.desired]
      /\ UNCHANGED <<account, assignment, cred, nodeStatus, results, restored>>
      /\ UNCHANGED publication
  BY DEF RecordHeartbeat, HeartbeatFits, access
<1>2. TypeOK'
  BY <1>1 DEF TypeOK, publication
<1>3. /\ DesiredIsPublished' /\ EnabledIsPublishable' /\ OneCurrentCredential'
      /\ EntitledIsDesired'
  BY <1>1 DEF DesiredIsPublished, EnabledIsPublishable, OneCurrentCredential,
              EntitledIsDesired, CompileDesiredUsers, publication
<1>4. \A k \in Nodes : /\ progress'[k].applied = progress[k].applied
                       /\ progress'[k].validated = progress[k].validated
                       /\ progress'[k].received = progress[k].received
                       /\ k # n => progress'[k].reportedDesired = progress[k].reportedDesired
                       /\ k = n => progress'[k].reportedDesired = hb.desired
  BY <1>1 DEF TypeOK
<1>5. ActiveIsApplied'
  BY <1>1, <1>4, CredFacts DEF ActiveIsApplied, publication
<1>6. ProgressHasEvidence'
  <2> SUFFICES ASSUME NEW k \in Nodes
               PROVE  LET q == progress'[k] IN
                  /\ q.applied <= q.validated /\ q.validated <= q.received
                  /\ q.received <= q.reportedDesired /\ q.reportedDesired <= desired[k]
                  /\ q.applied # 0 => target[q.applied] = k /\ "applied" \in results[q.applied]
    BY <1>1 DEF ProgressHasEvidence, publication
  <2>1. CASE k # n
    BY <1>4, <2>1 DEF ProgressHasEvidence
  <2>2. CASE k = n
    <3>1. /\ progress[n].received \in Int /\ progress[n].reportedDesired \in Int
          /\ hb.desired \in Int /\ desired[n] \in Int /\ 0 <= desired[n]
      BY RevisionFacts DEF TypeOK
    <3>2. progress[n].received <= hb.desired /\ hb.desired <= desired[n]
      BY <1>1, <3>1 DEF ProgressHasEvidence
    <3> QED BY <1>4, <2>2, <3>2 DEF ProgressHasEvidence
  <2> QED BY <2>1, <2>2
<1> QED BY <1>2, <1>3, <1>5, <1>6

LEMMA ControlUnchanged == ControlInv /\ UNCHANGED controlVars => ControlInv'
  BY DEF ControlInv, controlVars, access, publication, progressed, TypeOK,
         DesiredIsPublished, EnabledIsPublishable, OneCurrentCredential, EntitledIsDesired,
         ActiveIsApplied, ProgressHasEvidence, CompileDesiredUsers

LEMMA ControlStep == ControlInv /\ [Next]_controlVars => ControlInv'
<1> SUFFICES ASSUME ControlInv, [Next]_controlVars PROVE ControlInv'
  OBVIOUS
<1>1. CASE \E m \in Members, S \in SUBSET Nodes : ReplaceAccountNodes(m, S)
  BY <1>1, ReplaceAccountNodesHolds
<1>2. CASE \E m \in Members, status \in {"active", "disabled", "deleted"} :
             SetAccountStatus(m, status)
  BY <1>2, SetAccountStatusHolds
<1>3. CASE \E m \in Members : RotateAccountCredentials(m)
  BY <1>3, RotateAccountCredentialsHolds
<1>4. CASE \E n \in Nodes : PublishDesiredState(n)
  BY <1>4, PublishDesiredStateHolds
<1>5. CASE \E n \in Nodes : ApproveNode(n)
  BY <1>5, ApproveNodeHolds
<1>6. CASE \E n \in Nodes : DisableNode(n)
  BY <1>6, CloseNodeHolds DEF DisableNode
<1>7. CASE \E n \in Nodes : RevokeNode(n)
  BY <1>7, CloseNodeHolds DEF RevokeNode
<1>8. CASE \E n \in Nodes, r \in Revs, s \in ResultStates :
             \E p \in IF s = "rolledBack" THEN Revs ELSE {0} : RecordRevisionResult(n, r, s, p)
  <2>1. PICK n \in Nodes, r \in Revs, s \in ResultStates :
             \E p \in IF s = "rolledBack" THEN Revs ELSE {0} : RecordRevisionResult(n, r, s, p)
    BY <1>8
  <2>2. PICK p \in IF s = "rolledBack" THEN Revs ELSE {0} : RecordRevisionResult(n, r, s, p)
    BY <2>1
  <2>3. p \in Revs0 /\ (s = "rolledBack" <=> p # 0)
    BY RevisionFacts
  <2> QED BY <2>2, <2>3, RecordRevisionResultHolds
<1>9. CASE \E n \in Nodes, d \in Revs0 :
             RecordHeartbeat(n, [desired |-> d, received |-> progress[n].received,
                                 validated |-> progress[n].validated,
                                 applied |-> progress[n].applied])
  <2>1. PICK n \in Nodes, d \in Revs0 :
             RecordHeartbeat(n, [desired |-> d, received |-> progress[n].received,
                                 validated |-> progress[n].validated,
                                 applied |-> progress[n].applied])
    BY <1>9
  <2> DEFINE hb == [desired |-> d, received |-> progress[n].received,
                    validated |-> progress[n].validated, applied |-> progress[n].applied]
  <2>2. hb.desired \in Revs0
    OBVIOUS
  <2>3. RecordHeartbeat(n, hb)
    BY <2>1
  <2> HIDE DEF hb
  <2> QED BY <2>2, <2>3, RecordHeartbeatHolds
<1>10. CASE UNCHANGED controlVars
  BY <1>10, ControlUnchanged
<1> QED BY <1>1, <1>2, <1>3, <1>4, <1>5, <1>6, <1>7, <1>8, <1>9, <1>10
        DEF Next, AdminStep, NodeStep

-----------------------------------------------------------------------------
(* What was published stays published *)

Usable(c) == cred[c] \in Current
Entitled(c) == assignment[c[1]] = "enabled" /\ account[c[1][1]] = "active"

\* A snapshot holds issued credentials of the node it was compiled for.  While such a
\* credential can be used its holder is entitled to the node, and every later revision
\* of the node carries it too: a node that is ahead of its reports serves it as well.
SnapshotsFit ==
    \A r \in Revs : \A c \in snapshot[r] :
        /\ r <= lastRevision /\ target[r] = c[1][2] /\ cred[c] # "none"
        /\ Usable(c) =>
              /\ Entitled(c)
              /\ \A q \in Revs : r <= q /\ q <= lastRevision /\ target[q] = target[r] => c \in snapshot[q]

\* What a handler does to the snapshots: the new revisions are compiled from the tables it
\* leaves behind, the others stay.
Carried ==
    /\ lastRevision' \in Revs0 /\ lastRevision <= lastRevision'
    /\ \A r \in Revs : r <= lastRevision => target'[r] = target[r]
    /\ \A r \in Revs : r <= lastRevision \/ lastRevision' < r => snapshot'[r] = snapshot[r]
    /\ \A r \in Revs : lastRevision < r /\ r <= lastRevision' =>
          snapshot'[r] = CompileDesiredUsers(target'[r], account', assignment', cred')

\* What a handler does to a credential: once issued it is never issued again, and it stays
\* usable only for a holder who stays entitled.
Spares ==
    \A c \in Creds :
        /\ cred[c] # "none" => cred'[c] # "none"
        /\ Usable(c)' /\ cred[c] # "none" => Usable(c)
        /\ Usable(c)' /\ Usable(c) /\ Entitled(c) => Entitled(c)'

LEMMA PublishCarries ==
    ASSUME TypeOK, NEW N \in SUBSET Nodes, Publish(N)
    PROVE  Carried
<1>1. PICK last \in lastRevision .. MaxRev : \E order \in [lastRevision + 1 .. last -> N] :
         PublishCompiled(N, last, order)
  BY DEF Publish
<1>2. PICK order \in [lastRevision + 1 .. last -> N] : PublishCompiled(N, last, order)
  BY <1>1
<1> DEFINE New == lastRevision + 1 .. last
<1>3. /\ lastRevision \in Revs0 /\ lastRevision \in Int /\ last \in Int
      /\ lastRevision <= last /\ last <= MaxRev /\ last \in Revs0
  BY RevisionFacts, MaxRevAssumption DEF TypeOK, Revs0
<1>4. \A r \in Revs : r \in New <=> lastRevision < r /\ r <= last
  BY <1>3, RevisionFacts
<1>5. /\ lastRevision' = last
      /\ target' = [r \in Revs |-> IF r \in New THEN order[r] ELSE target[r]]
      /\ snapshot' = [r \in Revs |->
            IF r \in New THEN CompileDesiredUsers(order[r], account', assignment', cred')
            ELSE snapshot[r]]
  BY <1>2 DEF PublishCompiled
<1> HIDE DEF New
<1>6. \A r \in Revs : (r <= lastRevision \/ lastRevision' < r) => r \notin New
  BY <1>3, <1>4, <1>5, RevisionFacts
<1>7. \A r \in Revs : lastRevision < r /\ r <= lastRevision' => r \in New
  BY <1>4, <1>5
<1> QED BY <1>3, <1>5, <1>6, <1>7 DEF Carried

LEMMA NothingCarries ==
    ASSUME TypeOK, UNCHANGED publication
    PROVE  Carried
<1>1. lastRevision \in Revs0 /\ lastRevision \in Int
  BY RevisionFacts DEF TypeOK
<1>2. lastRevision' = lastRevision /\ target' = target /\ snapshot' = snapshot
  BY DEF publication
<1>3. \A r \in Revs : ~ (lastRevision < r /\ r <= lastRevision')
  BY <1>1, <1>2, RevisionFacts
<1> QED BY <1>1, <1>2, <1>3 DEF Carried

LEMMA SnapshotsStay ==
    ASSUME TypeOK, SnapshotsFit, Carried, Spares
    PROVE  SnapshotsFit'
<1>0. /\ lastRevision \in Int /\ lastRevision' \in Int /\ lastRevision <= lastRevision'
      /\ \A r \in Revs : r \in Int /\ snapshot[r] \subseteq Creds
  BY RevisionFacts DEF Carried, TypeOK
<1> SUFFICES ASSUME NEW r \in Revs, NEW c \in snapshot'[r]
             PROVE  /\ r <= lastRevision' /\ target'[r] = c[1][2] /\ cred'[c] # "none"
                    /\ Usable(c)' =>
                         /\ Entitled(c)'
                         /\ \A q \in Revs : r <= q /\ q <= lastRevision' /\ target'[q] = target'[r]
                               => c \in snapshot'[q]
  BY DEF SnapshotsFit
<1>1. ASSUME NEW q \in Revs, lastRevision < q, q <= lastRevision', c \in Creds, target'[q] = c[1][2],
             Usable(c)', Entitled(c)'
      PROVE  c \in snapshot'[q]
  <2>1. snapshot'[q] = CompileDesiredUsers(target'[q], account', assignment', cred')
    BY <1>1 DEF Carried
  <2> QED BY <1>1, <2>1 DEF CompileDesiredUsers, Usable, Entitled, Current
<1>2. CASE lastRevision < r /\ r <= lastRevision'
  <2>1. c \in CompileDesiredUsers(target'[r], account', assignment', cred')
    BY <1>2 DEF Carried
  <2>2. c \in Creds /\ c[1][2] = target'[r] /\ cred'[c] \in Current /\ Entitled(c)'
    BY <2>1 DEF CompileDesiredUsers, Entitled, Current
  <2>3. ASSUME NEW q \in Revs, r <= q, q <= lastRevision', target'[q] = target'[r], Usable(c)'
        PROVE  c \in snapshot'[q]
    <3>1. lastRevision < q
      BY <1>0, <1>2, <2>3
    <3> QED BY <1>1, <2>2, <2>3, <3>1
  <2> QED BY <1>2, <2>2, <2>3 DEF Current
<1>3. CASE ~ (lastRevision < r /\ r <= lastRevision')
  <2>1. r <= lastRevision \/ lastRevision' < r
    BY <1>0, <1>3
  <2>2. c \in snapshot[r] /\ c \in Creds
    BY <1>0, <2>1 DEF Carried
  <2>3. r <= lastRevision /\ target[r] = c[1][2] /\ cred[c] # "none"
    BY <2>2 DEF SnapshotsFit
  <2>4. target'[r] = target[r] /\ r <= lastRevision' /\ cred'[c] # "none"
    BY <1>0, <2>2, <2>3 DEF Carried, Spares
  <2>5. ASSUME Usable(c)'
        PROVE  Usable(c) /\ Entitled(c) /\ Entitled(c)'
    BY <2>2, <2>3, <2>5 DEF Spares, SnapshotsFit
  <2>6. ASSUME Usable(c)', NEW q \in Revs, r <= q, q <= lastRevision', target'[q] = target'[r]
        PROVE  c \in snapshot'[q]
    <3>1. CASE q <= lastRevision
      <4>1. target[q] = target[r]
        BY <2>4, <2>6, <3>1 DEF Carried
      <4>2. c \in snapshot[q]
        BY <2>2, <2>5, <2>6, <3>1, <4>1 DEF SnapshotsFit
      <4> QED BY <3>1, <4>2 DEF Carried
    <3>2. CASE lastRevision < q
      BY <1>1, <2>2, <2>3, <2>4, <2>5, <2>6, <3>2
    <3> QED BY <1>0, <3>1, <3>2
  <2> QED BY <2>3, <2>4, <2>5, <2>6
<1> QED BY <1>2, <1>3

\* Handlers that only take credentials away, or promote them, spare the rest.
LEMMA AccessSpares ==
    ASSUME UNCHANGED <<account, assignment>>,
           \A c \in Creds : /\ cred[c] # "none" => cred'[c] # "none"
                            /\ Usable(c)' /\ cred[c] # "none" => Usable(c)
    PROVE  Spares
  BY DEF Spares, Entitled

LEMMA ReplaceAccountNodesSpares ==
    ASSUME ControlInv, NEW m \in Members, NEW S \in SUBSET Nodes, ReplaceAccountNodes(m, S)
    PROVE  Carried /\ Spares
<1> DEFINE add == {pair \in Pairs : pair[1] = m /\ pair[2] \in S /\ assignment[pair] # "enabled"}
           drop == {pair \in Enabled(m) : pair[2] \notin S}
           N == NodesOf(add \cup drop)
<1>1. /\ assignment' = [pair \in Pairs |-> IF pair \in add THEN "enabled"
                                            ELSE IF pair \in drop THEN "disabled"
                                            ELSE assignment[pair]]
      /\ cred' = Both(Retired(drop), add, Reissued(add))
      /\ account' = account /\ Publish(N)
  BY DEF ReplaceAccountNodes, PublishAccountRevisions
<1>2. add \in SUBSET Pairs /\ drop \in SUBSET Pairs /\ N \in SUBSET Nodes
  BY CredFacts DEF Enabled, NodesOf
<1> HIDE DEF add, drop, N
<1>3. TypeOK
  BY DEF ControlInv
<1>4. Carried
  BY <1>1, <1>2, <1>3, PublishCarries
<1>5. ASSUME NEW c \in Creds
      PROVE  /\ cred[c] # "none" => cred'[c] # "none"
             /\ Usable(c)' /\ cred[c] # "none" => Usable(c)
             /\ Usable(c)' /\ Usable(c) /\ Entitled(c) => Entitled(c)'
  <2>1. cred'[c] = IF c[1] \in add THEN Reissued(add)[c] ELSE Retired(drop)[c]
    BY <1>1 DEF Both
  <2>2. CASE c[1] \in add
    BY <1>2, <1>3, <2>1, <2>2, ReissuedEffect DEF Usable, Current
  <2>3. CASE c[1] \notin add
    <3>1. cred[c] # "none" => cred'[c] # "none"
      BY <1>3, <2>1, <2>3 DEF Retired, TypeOK
    <3>2. Usable(c)' => Usable(c) /\ c[1] \notin drop
      BY <1>2, <1>3, <2>1, <2>3, RetiredEffect DEF Usable
    <3>3. c[1] \in Pairs /\ (c[1] \notin drop => assignment'[c[1]] = assignment[c[1]])
      BY <1>1, <2>3, CredFacts
    <3> QED BY <1>1, <3>1, <3>2, <3>3 DEF Entitled
  <2> QED BY <2>2, <2>3
<1> QED BY <1>4, <1>5 DEF Spares

LEMMA SetAccountStatusSpares ==
    ASSUME ControlInv, NEW m \in Members, NEW status \in {"active", "disabled", "deleted"},
           SetAccountStatus(m, status)
    PROVE  Carried /\ Spares
<1> DEFINE N == {n \in NodesOf(Enabled(m)) : nodeStatus[n] = "active"}
           own == {pair \in Pairs : pair[1] = m}
<1>1. Publish(N) /\ account' = [account EXCEPT ![m] = status] /\ account[m] # status
  BY DEF SetAccountStatus, PublishAccountRevisions
<1>2. Enabled(m) \in SUBSET Pairs /\ own \in SUBSET Pairs /\ N \in SUBSET Nodes
  BY CredFacts DEF Enabled, NodesOf
<1>3. TypeOK
  BY DEF ControlInv
<1>4. Carried
  BY <1>1, <1>2, <1>3, PublishCarries
<1>5. \/ status = "active" /\ cred' = Reissued(Enabled(m)) /\ assignment' = assignment
      \/ status = "disabled" /\ cred' = Retired(Enabled(m)) /\ assignment' = assignment
      \/ /\ status = "deleted" /\ cred' = Revoked(own)
         /\ assignment' = [pair \in Pairs |->
               IF pair[1] = m /\ assignment[pair] # "none" THEN "deleted" ELSE assignment[pair]]
  BY DEF SetAccountStatus
<1> HIDE DEF N
<1>6. ASSUME NEW c \in Creds
      PROVE  /\ cred[c] # "none" => cred'[c] # "none"
             /\ Usable(c)' /\ cred[c] # "none" => Usable(c)
             /\ Usable(c)' /\ Usable(c) /\ Entitled(c) => Entitled(c)'
  <2>0. c[1] \in Pairs /\ c[1][1] \in Members /\ cred[c] \in Statuses
    BY <1>3, CredFacts DEF TypeOK, Statuses
  <2>1. c[1][1] # m => account'[c[1][1]] = account[c[1][1]]
    BY <1>1, <1>3, <2>0 DEF TypeOK
  <2>2. Entitled(c) /\ c[1][1] = m => c[1] \in Enabled(m) /\ account[m] = "active"
    BY <2>0 DEF Entitled, Enabled
  <2>3. CASE status = "active"
    <3>1. cred' = Reissued(Enabled(m)) /\ assignment' = assignment
      BY <1>5, <2>3
    <3>2. cred[c] # "none" => cred'[c] \in {cred[c], "revoked"}
      BY <1>2, <1>3, <3>1, ReissuedEffect
    <3>3. ~ (Entitled(c) /\ c[1][1] = m)
      BY <1>1, <2>2, <2>3
    <3> QED BY <2>1, <3>1, <3>2, <3>3 DEF Usable, Current, Entitled
  <2>4. CASE status = "disabled"
    <3>1. cred' = Retired(Enabled(m)) /\ assignment' = assignment
      BY <1>5, <2>4
    <3>2. Usable(c)' => Usable(c) /\ c[1] \notin Enabled(m)
      BY <1>2, <1>3, <3>1, RetiredEffect DEF Usable
    <3>3. cred[c] # "none" => cred'[c] # "none"
      BY <1>3, <3>1 DEF Retired, TypeOK
    <3> QED BY <2>1, <2>2, <3>1, <3>2, <3>3 DEF Entitled
  <2>5. CASE status = "deleted"
    <3>1. /\ cred' = Revoked(own)
          /\ assignment' = [pair \in Pairs |->
                IF pair[1] = m /\ assignment[pair] # "none" THEN "deleted" ELSE assignment[pair]]
      BY <1>5, <2>5
    <3>2. /\ cred'[c] \in {cred[c], "revoked"}
          /\ c[1][1] = m => cred'[c] \in {"none", "revoked"}
      BY <1>2, <1>3, <2>0, <3>1, RevokedEffect
    <3>3. c[1][1] # m => assignment'[c[1]] = assignment[c[1]]
      BY <2>0, <3>1
    <3> QED BY <2>1, <3>2, <3>3 DEF Usable, Current, Entitled
  <2> QED BY <2>3, <2>4, <2>5
<1> QED BY <1>4, <1>6 DEF Spares

LEMMA RotateAccountCredentialsSpares ==
    ASSUME ControlInv, NEW m \in Members, RotateAccountCredentials(m)
    PROVE  Carried /\ Spares
<1> DEFINE N == NodesOf(Enabled(m))
<1>1. Publish(N) /\ cred' = Reissued(Enabled(m)) /\ UNCHANGED <<account, assignment>>
  BY DEF RotateAccountCredentials, PublishAccountRevisions
<1>2. Enabled(m) \in SUBSET Pairs /\ N \in SUBSET Nodes
  BY CredFacts DEF Enabled, NodesOf
<1>3. TypeOK
  BY DEF ControlInv
<1> HIDE DEF N
<1>4. Carried
  BY <1>1, <1>2, <1>3, PublishCarries
<1>5. \A c \in Creds : cred[c] # "none" => cred'[c] \in {cred[c], "revoked"}
  BY <1>1, <1>2, <1>3, ReissuedEffect
<1> QED BY <1>1, <1>4, <1>5, AccessSpares DEF Usable, Current

LEMMA CloseNodeSpares ==
    ASSUME ControlInv, NEW n \in Nodes, DisableNode(n) \/ RevokeNode(n)
    PROVE  Carried /\ Spares
<1> DEFINE P == {pair \in Pairs : pair[2] = n}
<1>1. PICK status, closed : CloseNode(n, status, closed)
  BY DEF DisableNode, RevokeNode
<1>2. cred' = Revoked(P) /\ account' = account /\ UNCHANGED publication
  BY <1>1 DEF CloseNode
<1>3. TypeOK /\ P \in SUBSET Pairs
  BY DEF ControlInv
<1>4. Carried
  BY <1>2, <1>3, NothingCarries
<1>5. ASSUME NEW c \in Creds
      PROVE  /\ cred'[c] \in {cred[c], "revoked"}
             /\ Usable(c)' => assignment'[c[1]] = assignment[c[1]]
  <2>1. c[1] \in Pairs
    BY CredFacts
  <2>2. /\ cred'[c] \in {cred[c], "revoked"}
        /\ c[1] \in P => cred'[c] \in {"none", "revoked"}
    BY <1>2, <1>3, RevokedEffect
  <2>3. c[1] \notin P => assignment'[c[1]] = assignment[c[1]]
    BY <1>1, <2>1 DEF CloseNode
  <2> QED BY <2>2, <2>3 DEF Usable, Current
<1> HIDE DEF P
<1> QED BY <1>2, <1>4, <1>5 DEF Spares, Entitled, Usable, Current

LEMMA RecordRevisionResultSpares ==
    ASSUME ControlInv, NEW n \in Nodes, NEW r \in Revs, NEW s \in ResultStates, NEW p \in Revs0,
           RecordRevisionResult(n, r, s, p)
    PROVE  Carried /\ Spares
<1>1. UNCHANGED <<account, assignment>> /\ UNCHANGED publication
  BY DEF RecordRevisionResult
<1>2. TypeOK
  BY DEF ControlInv
<1>3. Carried
  BY <1>1, <1>2, NothingCarries
<1>4. PICK a : cred' = IF s \in {"applied", "rolledBack"} THEN ReconcileApplied(n, a) ELSE cred
  BY DEF RecordRevisionResult
<1>5. \A c \in Creds : /\ cred[c] # "none" => cred'[c] # "none"
                       /\ Usable(c)' /\ cred[c] # "none" => Usable(c)
  BY <1>2, <1>4 DEF ReconcileApplied, Usable, Current, TypeOK
<1> QED BY <1>1, <1>3, <1>5, AccessSpares

LEMMA SnapshotsStep == ControlInv /\ SnapshotsFit /\ [Next]_controlVars => SnapshotsFit'
<1> SUFFICES ASSUME ControlInv, SnapshotsFit, [Next]_controlVars PROVE SnapshotsFit'
  OBVIOUS
<1>0. TypeOK
  BY DEF ControlInv
<1>1. CASE \E m \in Members, S \in SUBSET Nodes : ReplaceAccountNodes(m, S)
  BY <1>0, <1>1, ReplaceAccountNodesSpares, SnapshotsStay
<1>2. CASE \E m \in Members, status \in {"active", "disabled", "deleted"} : SetAccountStatus(m, status)
  BY <1>0, <1>2, SetAccountStatusSpares, SnapshotsStay
<1>3. CASE \E m \in Members : RotateAccountCredentials(m)
  BY <1>0, <1>3, RotateAccountCredentialsSpares, SnapshotsStay
<1>4. CASE \E n \in Nodes : DisableNode(n) \/ RevokeNode(n)
  BY <1>0, <1>4, CloseNodeSpares, SnapshotsStay
<1>5. CASE \E n \in Nodes, r \in Revs, s \in ResultStates :
             \E p \in IF s = "rolledBack" THEN Revs ELSE {0} : RecordRevisionResult(n, r, s, p)
  <2>1. PICK n \in Nodes, r \in Revs, s \in ResultStates :
             \E p \in IF s = "rolledBack" THEN Revs ELSE {0} : RecordRevisionResult(n, r, s, p)
    BY <1>5
  <2>2. PICK p \in IF s = "rolledBack" THEN Revs ELSE {0} : RecordRevisionResult(n, r, s, p)
    BY <2>1
  <2>3. p \in Revs0
    BY RevisionFacts
  <2> QED BY <1>0, <2>2, <2>3, RecordRevisionResultSpares, SnapshotsStay
<1>6. ASSUME UNCHANGED access, Carried PROVE SnapshotsFit'
  <2>1. UNCHANGED <<account, assignment>> /\ cred' = cred
    BY <1>6 DEF access
  <2>2. Spares
    BY <2>1, AccessSpares DEF Usable
  <2> QED BY <1>0, <1>6, <2>2, SnapshotsStay
<1>7. CASE \E n \in Nodes : PublishDesiredState(n)
  BY <1>0, <1>6, <1>7, PublishCarries DEF PublishDesiredState
<1>8. CASE \E n \in Nodes : ApproveNode(n)
  BY <1>0, <1>6, <1>8, NothingCarries DEF ApproveNode
<1>9. CASE \E n \in Nodes, d \in Revs0 :
             RecordHeartbeat(n, [desired |-> d, received |-> progress[n].received,
                                 validated |-> progress[n].validated,
                                 applied |-> progress[n].applied])
  BY <1>0, <1>6, <1>9, NothingCarries DEF RecordHeartbeat
<1>10. CASE UNCHANGED controlVars
  BY <1>0, <1>6, <1>10, NothingCarries DEF controlVars
<1> QED BY <1>1, <1>2, <1>3, <1>4, <1>5, <1>7, <1>8, <1>9, <1>10 DEF Next, AdminStep, NodeStep

LEMMA SnapshotsInit == Init => SnapshotsFit
  BY DEF Init, SnapshotsFit

-----------------------------------------------------------------------------
(* Theorems *)

\* The inductive invariant of the access, publication and progress tables: the properties
\* below hold together, and no node is asked for a revision that was never published to it,
\* whatever order the handlers of db.rs run in.
THEOREM ControlInvHolds == Spec => []ControlInv
  BY InitHolds, ControlStep, PTL DEF Spec

\* Whatever handlers run and in whatever order, the tables type, nothing is enabled that
\* could not be published and nobody has two credentials that are pending or active, for
\* every number of nodes, members, revisions and versions (db.rs).
THEOREM TablesSound == Spec => []TablesAreSound
<1>1. ControlInv => TablesAreSound
  BY DEF ControlInv, TablesAreSound
<1> QED BY <1>1, ControlInvHolds, PTL

\* The newest revision of an active node carries every credential that its entitled
\* members hold: no handler changes the entitlements without publishing.
THEOREM NobodyForgotten == Spec => []EntitledIsDesired
<1>1. ControlInv => EntitledIsDesired
  BY DEF ControlInv
<1> QED BY <1>1, ControlInvHolds, PTL

\* A credential that is active or retiring is in the snapshot of the revision that its
\* node last reported applied, rollbacks included (reconcile_applied_member_credentials).
THEOREM CredentialsFollowApplied == Spec => []ActiveIsApplied
<1>1. ControlInv => ActiveIsApplied
  BY DEF ControlInv
<1> QED BY <1>1, ControlInvHolds, PTL

\* The progress cache stays in lifecycle order and has the result it claims
\* (update_revision_progress_cache, validate_reported_progress).
THEOREM ProgressEvident == Spec => []ProgressHasEvidence
<1>1. ControlInv => ProgressHasEvidence
  BY DEF ControlInv
<1> QED BY <1>1, ControlInvHolds, PTL

\* No handler gives a credential back what an earlier one took: revoked is final, and a
\* retiring credential is only ever revoked.
THEOREM NeverRegained == Spec => AccessIsNeverRegained
<1> DEFINE Finality == \A c \in Creds :
         /\ cred[c] = "revoked" => cred'[c] = "revoked"
         /\ cred[c] = "retiring" => cred'[c] \in {"retiring", "revoked"}
         /\ cred[c] = "active" => cred'[c] # "pending"
<1>1. ASSUME ControlInv, Next PROVE Finality
  <2>0. TypeOK
    BY <1>1 DEF ControlInv
  <2>1. ASSUME NEW m \in Members, NEW S \in SUBSET Nodes, ReplaceAccountNodes(m, S)
        PROVE  Finality
    <3> DEFINE add == {pair \in Pairs : pair[1] = m /\ pair[2] \in S /\ assignment[pair] # "enabled"}
               drop == {pair \in Enabled(m) : pair[2] \notin S}
    <3>1. /\ cred' = Both(Retired(drop), add, Reissued(add))
          /\ add \in SUBSET Pairs /\ drop \in SUBSET Pairs
      BY <2>1 DEF ReplaceAccountNodes, Enabled
    <3> HIDE DEF add, drop
    <3>2. \A c \in Creds : cred'[c] = IF c[1] \in add THEN Reissued(add)[c] ELSE Retired(drop)[c]
      BY <3>1 DEF Both
    <3> QED BY <2>0, <3>1, <3>2, RetiredEffect, ReissuedEffect
  <2>2. ASSUME NEW m \in Members, cred' = Reissued(Enabled(m)) PROVE Finality
    <3>1. Enabled(m) \in SUBSET Pairs
      BY DEF Enabled
    <3> QED BY <2>0, <2>2, <3>1, ReissuedEffect
  <2>3. ASSUME NEW m \in Members, cred' = Retired(Enabled(m)) PROVE Finality
    <3>1. Enabled(m) \in SUBSET Pairs
      BY DEF Enabled
    <3> QED BY <2>0, <2>3, <3>1, RetiredEffect
  <2>4. ASSUME NEW P \in SUBSET Pairs, cred' = Revoked(P) PROVE Finality
    BY <2>0, <2>4, RevokedEffect
  <2>5. ASSUME NEW m \in Members, NEW status \in {"active", "disabled", "deleted"},
               SetAccountStatus(m, status)
        PROVE  Finality
    <3>1. \/ cred' = Reissued(Enabled(m)) \/ cred' = Retired(Enabled(m))
          \/ cred' = Revoked({pair \in Pairs : pair[1] = m})
      BY <2>5 DEF SetAccountStatus
    <3>2. {pair \in Pairs : pair[1] = m} \in SUBSET Pairs
      OBVIOUS
    <3> QED BY <2>2, <2>3, <2>4, <3>1, <3>2
  <2>6. ASSUME cred' = cred PROVE Finality
    BY <2>6
  <2>7. ASSUME NEW n \in Nodes, DisableNode(n) \/ RevokeNode(n) PROVE Finality
    <3>1. cred' = Revoked({pair \in Pairs : pair[2] = n})
      BY <2>7 DEF DisableNode, RevokeNode, CloseNode
    <3>2. {pair \in Pairs : pair[2] = n} \in SUBSET Pairs
      OBVIOUS
    <3> QED BY <2>4, <3>1, <3>2
  <2>8. ASSUME NEW n \in Nodes, NEW r \in Revs, NEW s \in ResultStates,
               NEW p \in IF s = "rolledBack" THEN Revs ELSE {0}, RecordRevisionResult(n, r, s, p)
        PROVE  Finality
    <3>1. cred' = IF s \in {"applied", "rolledBack"}
                  THEN ReconcileApplied(n, AppliedAfter(n, r, s, p)) ELSE cred
      BY <2>8 DEF RecordRevisionResult
    <3>2. progress[n].applied \in Revs0
      BY <2>0 DEF TypeOK
    <3>3. s \in {"applied", "rolledBack"} => AppliedAfter(n, r, s, p) \in Revs
      <4>1. s = "rolledBack" => AppliedAfter(n, r, s, p) \in Revs
        BY DEF AppliedAfter
      <4>2. Larger(progress[n].applied, r) \in Revs
        <5>1. PICK a : a = progress[n].applied
          OBVIOUS
        <5>2. a \in Int /\ r \in Int /\ 0 <= r
          BY <3>2, <5>1, RevisionFacts
        <5>3. a > r => a # 0
          BY <5>2
        <5> QED BY <3>2, <5>1, <5>3, RevisionFacts DEF Larger
      <4>3. s = "applied" => AppliedAfter(n, r, s, p) \in Revs
        BY <4>2 DEF AppliedAfter
      <4> QED BY <4>1, <4>3
    <3>4. CASE s \in {"applied", "rolledBack"}
      BY <2>0, <3>1, <3>3, <3>4, ReconcileAppliedEffect
    <3> QED BY <2>6, <3>1, <3>4
  <2>9. ASSUME NEW n \in Nodes, PublishDesiredState(n) \/ ApproveNode(n) PROVE Finality
    BY <2>6, <2>9 DEF PublishDesiredState, ApproveNode, access
  <2>10. ASSUME NEW n \in Nodes, NEW hb, RecordHeartbeat(n, hb) PROVE Finality
    BY <2>6, <2>10 DEF RecordHeartbeat, access
  <2>11. ASSUME NEW m \in Members, RotateAccountCredentials(m) PROVE Finality
    BY <2>2, <2>11 DEF RotateAccountCredentials
  <2> HIDE DEF Finality
  <2>12. AdminStep => Finality
    BY <2>1, <2>5, <2>7, <2>9, <2>11 DEF AdminStep
  <2>13. NodeStep => Finality
    BY <2>8, <2>10 DEF NodeStep
  <2> QED BY <1>1, <2>12, <2>13 DEF Next
<1>2. ControlInv /\ [Next]_controlVars => [Finality]_controlVars
  BY <1>1
<1> QED BY <1>2, ControlInvHolds, PTL DEF Spec, AccessIsNeverRegained

\* A credential that was published for a node and was not taken back since is in every later
\* revision of the node, so that a node may be ahead of its reports without cutting anyone
\* off (compile_desired_users against every handler that writes the tables it reads).
THEOREM PublishedStays == Spec => []SnapshotsFit
<1>1. ControlInv /\ SnapshotsFit /\ [Next]_controlVars => (ControlInv /\ SnapshotsFit)'
  BY ControlStep, SnapshotsStep
<1> QED BY <1>1, InitHolds, SnapshotsInit, PTL DEF Spec
=============================================================================
