------------------------------ MODULE NodeProofs ------------------------------
(***************************************************************************)
(* Proofs about how the Control Service knows its nodes, for every number  *)
(* of machines, invitations, routes, revisions and repetitions: who is     *)
(* behind a node's row (Enrollment) and where it can be reached            *)
(* (Endpoints).                                                            *)
(***************************************************************************)
EXTENDS Enrollment, Endpoints, FiniteSetTheorems, SequenceTheorems, WellFoundedInduction,
        TLAPS

-----------------------------------------------------------------------------
(* Enrollment: a command holds its machine's lock from the request to the  *)
(* answer, so the request on the wire describes the machine as it is when  *)
(* the answer is stored; and an invitation remembers the node it made.     *)

ReceiptRow == [code : Codes \cup {"none"}, mapping : BOOLEAN, stamp : Nat]
InstallRow == [identity : Nat, pairings : Nat, xray : BOOLEAN, mapping : BOOLEAN,
               receipt : ReceiptRow, node : Nat]
RequestRow == [machine : Machines, identity : Nat, xray : BOOLEAN,
               receipt : [code : Codes, mapping : BOOLEAN, stamp : Nat]]
NodeRow == [request : RequestRow, status : {"pending", "active", "revoked"}]
InvitationRow == [issued : BOOLEAN, automatic : BOOLEAN, expired : BOOLEAN, node : Nat]

EnrollmentTypeOK ==
    /\ invitation \in [Codes -> InvitationRow]
    /\ delivered \in SUBSET Codes
    /\ nodeRows \in Seq(NodeRow)
    /\ install \in [Machines -> InstallRow]
    /\ join \in [Machines -> [at : {"idle", "sent", "accepted"}, request : SUBSET RequestRow, node : Nat]]
    /\ overdue \in SUBSET RequestRow

\* An invitation names the one node that it made.
InvitationsMade ==
    /\ \A c \in Codes : invitation[c].node \in NodeIds \cup {0}
    /\ \A n \in NodeIds : invitation[nodeRows[n].request.receipt.code].node = n

RequestOf(h) == EnrollmentRequest(h, install[h], install[h].receipt)

JoinMatches(h) ==
    /\ join[h].at = "sent" => join[h].request = {RequestOf(h)}
    /\ join[h].at = "accepted" =>
          join[h].node \in NodeIds /\ nodeRows[join[h].node].request = RequestOf(h)
    /\ join[h].at # "idle" => install[h].identity # 0

RegistrationMatches(h) ==
    install[h].node # 0 =>
        /\ install[h].node \in NodeIds /\ install[h].identity # 0
        /\ LET q == nodeRows[install[h].node].request
           IN  /\ q.machine = h /\ q.identity = install[h].identity
               /\ q.receipt = install[h].receipt
               /\ q.xray => install[h].xray

EnrollmentInv ==
    /\ EnrollmentTypeOK /\ InvitationsMade
    /\ \A h \in Machines : JoinMatches(h) /\ RegistrationMatches(h)

LEMMA NodeIdFacts ==
    ASSUME EnrollmentTypeOK
    PROVE  /\ Len(nodeRows) \in Nat /\ NodeIds = 1 .. Len(nodeRows) /\ NodeIds \subseteq Nat \ {0}
           /\ \A n \in NodeIds : nodeRows[n] \in NodeRow /\ nodeRows[n].request \in RequestRow
                                 /\ nodeRows[n].request.receipt.code \in Codes
<1>1. Len(nodeRows) \in Nat /\ NodeIds = 1 .. Len(nodeRows)
  BY LenProperties DEF EnrollmentTypeOK, NodeIds
<1>2. \A n \in NodeIds : nodeRows[n] \in NodeRow
  BY <1>1, ElementOfSeq DEF EnrollmentTypeOK
<1> QED BY <1>1, <1>2 DEF NodeRow, RequestRow

\* Rows keep their requests; what stays of a machine's state keeps its match with them.
LEMMA MatchesKept ==
    ASSUME NEW h \in Machines, NodeIds \subseteq NodeIds',
           \A n \in NodeIds : nodeRows'[n].request = nodeRows[n].request,
           install'[h] = install[h]
    PROVE  /\ join'[h] = join[h] /\ JoinMatches(h) => JoinMatches(h)'
           /\ RegistrationMatches(h) => RegistrationMatches(h)'
<1>1. RequestOf(h)' = RequestOf(h)
  BY DEF RequestOf, EnrollmentRequest
<1>2. join'[h] = join[h] /\ JoinMatches(h) => JoinMatches(h)'
  BY <1>1 DEF JoinMatches
<1>3. RegistrationMatches(h) => RegistrationMatches(h)'
  BY DEF RegistrationMatches
<1> QED BY <1>2, <1>3

\* enroll_node makes a node for an unused invitation, or answers with the node that this
\* very request made, or refuses.
LEMMA EnrollNodeEffect ==
    ASSUME EnrollmentTypeOK, InvitationsMade, NEW q \in RequestRow, EnrollNode(q)
    PROVE  /\ nodeRows' \in Seq(NodeRow) /\ invitation' \in [Codes -> InvitationRow]
           /\ InvitationsMade'
           /\ NodeIds \subseteq NodeIds'
           /\ \A n \in NodeIds : nodeRows'[n].request = nodeRows[n].request
           /\ ValidateEnrollmentAttempt(q) \in Nat
           /\ ValidateEnrollmentAttempt(q) # 0 =>
                 /\ ValidateEnrollmentAttempt(q) \in NodeIds'
                 /\ nodeRows'[ValidateEnrollmentAttempt(q)].request = q
<1>0. PICK n, k, c : n = ValidateEnrollmentAttempt(q) /\ k = Len(nodeRows) + 1 /\ c = q.receipt.code
  OBVIOUS
<1>1. c \in Codes /\ Len(nodeRows) \in Nat /\ NodeIds = 1 .. Len(nodeRows) /\ k \in Nat /\ k \notin NodeIds
  BY <1>0, NodeIdFacts DEF RequestRow
<1>2. invitation[c].node \in NodeIds \cup {0} /\ invitation[c].node \in Nat /\ invitation[c].node # k
  BY <1>0, <1>1, NodeIdFacts DEF InvitationsMade
<1>3. CASE n = k
  <2>1. invitation[c].node = 0
    BY <1>0, <1>1, <1>2, <1>3 DEF ValidateEnrollmentAttempt
  <2>2. PICK new : new = [request |-> q, status |-> InvitationBootstrap(q)]
    OBVIOUS
  <2>3. new \in NodeRow /\ new.request = q
    BY <2>2 DEF NodeRow, InvitationBootstrap
  <2>4. /\ nodeRows' = Append(nodeRows, new)
        /\ invitation' = [invitation EXCEPT ![c].node = k]
    BY <1>0, <1>3, <2>2 DEF EnrollNode, InsertNodeRecords, ConsumeInvitation
  <2>5. /\ nodeRows' \in Seq(NodeRow) /\ Len(nodeRows') = k
        /\ \A m \in NodeIds : nodeRows'[m] = nodeRows[m]
        /\ nodeRows'[k] = new
    BY <1>0, <1>1, <2>3, <2>4 DEF EnrollmentTypeOK
  <2>6. NodeIds' = 1 .. k /\ NodeIds' = NodeIds \cup {k}
    BY <1>0, <1>1, <2>5 DEF NodeIds
  <2>7. /\ invitation' \in [Codes -> InvitationRow]
        /\ invitation'[c].node = k
        /\ \A d \in Codes : d # c => invitation'[d] = invitation[d]
    BY <1>1, <2>4 DEF EnrollmentTypeOK, InvitationRow
  <2>8. ASSUME NEW m \in NodeIds'
        PROVE  invitation'[nodeRows'[m].request.receipt.code].node = m
    <3>1. CASE m = k
      BY <1>0, <2>3, <2>5, <2>7, <3>1
    <3>2. CASE m \in NodeIds
      <4>1. /\ nodeRows'[m] = nodeRows[m] /\ nodeRows[m].request.receipt.code \in Codes
            /\ invitation[nodeRows[m].request.receipt.code].node = m
        BY <2>5, <3>2, NodeIdFacts DEF InvitationsMade
      <4>2. nodeRows[m].request.receipt.code # c
        BY <2>1, <3>2, <4>1, NodeIdFacts
      <4> QED BY <2>7, <4>1, <4>2
    <3> QED BY <2>6, <3>1, <3>2
  <2>9. \A d \in Codes : invitation'[d].node \in NodeIds' \cup {0}
    BY <2>6, <2>7 DEF InvitationsMade
  <2> QED BY <1>0, <1>1, <1>3, <2>3, <2>5, <2>6, <2>7, <2>8, <2>9 DEF InvitationsMade
<1>4. CASE n # k
  <2>1. nodeRows' = nodeRows /\ invitation' = invitation /\ NodeIds' = NodeIds
    BY <1>0, <1>4 DEF EnrollNode, NodeIds
  <2>2. n = 0 \/ (n = invitation[c].node /\ n # 0 /\ nodeRows[n].request = q)
    BY <1>0, <1>4 DEF ValidateEnrollmentAttempt, LoadExistingEnrollment
  <2>3. n \in Nat /\ (n # 0 => n \in NodeIds)
    BY <1>2, <2>2
  <2> QED BY <1>0, <2>1, <2>2, <2>3 DEF EnrollmentTypeOK, InvitationsMade
<1> QED BY <1>3, <1>4

JoinRow == [at : {"idle", "sent", "accepted"}, request : SUBSET RequestRow, node : Nat]

\* A command of machine h changes nothing that another machine's state is matched with.
LEMMA MachineStepHolds ==
    ASSUME EnrollmentInv, NEW h \in Machines, NEW i \in InstallRow, NEW j \in JoinRow,
           install' = [install EXCEPT ![h] = i], join' = [join EXCEPT ![h] = j],
           UNCHANGED <<invitation, delivered, nodeRows>>, overdue' \in SUBSET RequestRow,
           JoinMatches(h)', RegistrationMatches(h)'
    PROVE  EnrollmentInv'
<1>1. NodeIds' = NodeIds
  BY DEF NodeIds
<1>2. EnrollmentTypeOK'
  BY DEF EnrollmentInv, EnrollmentTypeOK, JoinRow
<1>3. InvitationsMade'
  BY <1>1 DEF EnrollmentInv, InvitationsMade
<1>4. ASSUME NEW k \in Machines, k # h PROVE JoinMatches(k)' /\ RegistrationMatches(k)'
  <2>1. install'[k] = install[k] /\ join'[k] = join[k]
    BY <1>4 DEF EnrollmentInv, EnrollmentTypeOK
  <2> QED BY <1>1, <2>1, MatchesKept DEF EnrollmentInv
<1> QED BY <1>2, <1>3, <1>4 DEF EnrollmentInv

\* LoadOrCreateIdentity makes an identity once and keeps it.
LEMMA IdentityFacts ==
    ASSUME NEW i \in InstallRow
    PROVE  LET k == LoadOrCreateIdentity(i)
           IN  /\ k \in InstallRow /\ k.identity # 0 /\ k.node = i.node
               /\ i.identity # 0 => k = i
<1> DEFINE k == [i EXCEPT !.identity = i.pairings + 1, !.pairings = @ + 1]
           d == [i EXCEPT !.identity = i.pairings + 1]
<1>1. d \in InstallRow /\ d.identity # 0 /\ d.node = i.node
  BY DEF InstallRow
<1>2. k = [d EXCEPT !.pairings = @ + 1]
  OBVIOUS
<1> HIDE DEF k, d
<1>3. k \in InstallRow /\ k.identity = d.identity /\ k.node = d.node
  BY <1>1, <1>2 DEF InstallRow
<1> QED BY <1>1, <1>3 DEF LoadOrCreateIdentity, k

LEMMA MachineFacts ==
    ASSUME EnrollmentInv, NEW h \in Machines
    PROVE  /\ install[h] \in InstallRow /\ join[h] \in JoinRow
           /\ JoinMatches(h) /\ RegistrationMatches(h)
           /\ join = [join EXCEPT ![h] = join[h]]
           /\ overdue \in SUBSET RequestRow
           /\ \A i : install' = [install EXCEPT ![h] = i] => install'[h] = i
           /\ \A j : join' = [join EXCEPT ![h] = j] => join'[h] = j
  BY DEF EnrollmentInv, EnrollmentTypeOK, JoinRow

LEMMA InitializeHolds ==
    ASSUME EnrollmentInv, NEW h \in Machines, Initialize(h)
    PROVE  EnrollmentInv'
<1>1. PICK i : i = LoadOrCreateIdentity(install[h])
  OBVIOUS
<1>2. /\ join[h].at = "idle" /\ install[h].identity = 0
      /\ install' = [install EXCEPT ![h] = i] /\ join' = [join EXCEPT ![h] = join[h]]
      /\ UNCHANGED <<invitation, delivered, nodeRows, overdue>>
  BY <1>1, MachineFacts DEF Initialize, Unlocked
<1>3. i \in InstallRow /\ i.node = install[h].node /\ install[h].node = 0
  BY <1>1, <1>2, MachineFacts, IdentityFacts DEF RegistrationMatches, InstallRow
<1>4. JoinMatches(h)' /\ RegistrationMatches(h)'
  BY <1>2, <1>3, MachineFacts DEF JoinMatches, RegistrationMatches
<1> QED BY <1>2, <1>3, <1>4, MachineFacts, MachineStepHolds

LEMMA ConfigureHolds ==
    ASSUME EnrollmentInv, NEW h \in Machines, NEW enabled \in BOOLEAN,
           ConfigureXray(h) \/ ConfigureBootstrapPolicy(h, enabled)
    PROVE  EnrollmentInv'
<1>1. PICK i : \/ i = [install[h] EXCEPT !.xray = TRUE] /\ ConfigureXray(h)
               \/ i = [install[h] EXCEPT !.mapping = enabled] /\ ConfigureBootstrapPolicy(h, enabled)
  OBVIOUS
<1>2. /\ join[h].at = "idle"
      /\ install' = [install EXCEPT ![h] = i] /\ join' = [join EXCEPT ![h] = join[h]]
      /\ UNCHANGED <<invitation, delivered, nodeRows, overdue>>
  BY <1>1, MachineFacts DEF ConfigureXray, ConfigureBootstrapPolicy, Unlocked
<1>3. /\ i \in InstallRow /\ i.node = install[h].node /\ i.identity = install[h].identity
      /\ i.receipt = install[h].receipt /\ (install[h].xray => i.xray)
  <2>1. install[h] \in InstallRow
    BY MachineFacts
  <2>2. CASE i = [install[h] EXCEPT !.xray = TRUE]
    BY <2>1, <2>2 DEF InstallRow
  <2>3. CASE i = [install[h] EXCEPT !.mapping = enabled]
    BY <2>1, <2>3 DEF InstallRow
  <2> QED BY <1>1, <2>2, <2>3
<1>4. JoinMatches(h)'
  BY <1>2, <1>3, MachineFacts DEF JoinMatches
<1>5. NodeIds' = NodeIds
  BY <1>2 DEF NodeIds
<1>6. RegistrationMatches(h)'
  BY <1>2, <1>3, <1>5, MachineFacts DEF RegistrationMatches
<1> QED BY <1>2, <1>3, <1>4, <1>6, MachineFacts, MachineStepHolds

\* The request on the wire is the machine's own, with the receipt that it stored first.
LEMMA JoinInvitationHolds ==
    ASSUME EnrollmentInv, NEW h \in Machines, NEW c \in Codes, JoinInvitation(h, c)
    PROVE  EnrollmentInv'
<1>1. PICK i : i = LoadOrCreateIdentity(install[h])
  OBVIOUS
<1>2. PICK receipt \in Receipts(i, c) :
        /\ install' = [install EXCEPT ![h] = [i EXCEPT !.receipt = receipt]]
        /\ join' = [join EXCEPT ![h] =
                      [at |-> "sent", request |-> {EnrollmentRequest(h, i, receipt)}, node |-> 0]]
        /\ UNCHANGED <<invitation, delivered, nodeRows, overdue>>
  BY <1>1 DEF JoinInvitation
<1>3. install[h].node = 0
  BY DEF JoinInvitation
<1>4. i \in InstallRow /\ i.identity # 0 /\ i.node = 0
  BY <1>1, <1>3, MachineFacts, IdentityFacts
<1>5. receipt \in [code : Codes, mapping : BOOLEAN, stamp : Nat] /\ receipt \in ReceiptRow
  <2>1. i.receipt \in ReceiptRow /\ i.mapping \in BOOLEAN /\ i.receipt.stamp \in Nat
    BY <1>4 DEF InstallRow, ReceiptRow
  <2>2. CASE i.receipt.code = c
    BY <1>2, <2>1, <2>2 DEF Receipts, ReceiptRow
  <2>3. CASE i.receipt.code # c
    <3>1. PICK s \in (IF i.receipt.stamp = 0 THEN 1 ELSE i.receipt.stamp) .. MaxStamp :
            receipt = [code |-> c, mapping |-> i.mapping, stamp |-> s]
      BY <1>2, <2>3 DEF Receipts
    <3>2. s \in Nat
      BY <2>1, <3>1, EnrollmentAssumption
    <3> QED BY <2>1, <3>1, <3>2 DEF ReceiptRow
  <2> QED BY <2>2, <2>3
<1>6. PICK k, q : k = [i EXCEPT !.receipt = receipt] /\ q = EnrollmentRequest(h, i, receipt)
  OBVIOUS
<1>7. /\ k \in InstallRow /\ k.identity = i.identity /\ k.node = 0 /\ k.receipt = receipt
      /\ k.xray = i.xray
  BY <1>4, <1>5, <1>6 DEF InstallRow
<1>8. q \in RequestRow /\ q = EnrollmentRequest(h, k, k.receipt)
  BY <1>4, <1>5, <1>6, <1>7 DEF EnrollmentRequest, RequestRow, InstallRow
<1>9. PICK j : j = [at |-> "sent", request |-> {q}, node |-> 0]
  OBVIOUS
<1>10. j \in JoinRow /\ j.at = "sent" /\ j.request = {q}
  BY <1>8, <1>9 DEF JoinRow
<1>11. install'[h] = k /\ join'[h] = j
  BY <1>2, <1>6, <1>9, MachineFacts
<1>12. RequestOf(h)' = q
  BY <1>8, <1>11 DEF RequestOf
<1>13. JoinMatches(h)' /\ RegistrationMatches(h)'
  BY <1>4, <1>7, <1>10, <1>11, <1>12 DEF JoinMatches, RegistrationMatches
<1> QED BY <1>2, <1>6, <1>7, <1>9, <1>10, <1>13, MachineFacts, MachineStepHolds

LEMMA NoJoinFacts == NoJoin \in JoinRow /\ NoJoin.at = "idle"
  BY DEF NoJoin, JoinRow

LEMMA PersistHolds ==
    ASSUME EnrollmentInv, NEW h \in Machines, PersistVerifiedRegistration(h)
    PROVE  EnrollmentInv'
<1>1. PICK k : k = [install[h] EXCEPT !.node = join[h].node]
  OBVIOUS
<1>2. /\ join[h].at = "accepted"
      /\ install' = [install EXCEPT ![h] = k] /\ join' = [join EXCEPT ![h] = NoJoin]
      /\ UNCHANGED <<invitation, delivered, nodeRows, overdue>>
  BY <1>1 DEF PersistVerifiedRegistration
<1>3. /\ join[h].node \in NodeIds /\ nodeRows[join[h].node].request = RequestOf(h)
      /\ install[h].identity # 0 /\ join[h].node \in Nat
  BY <1>2, MachineFacts DEF JoinMatches, JoinRow
<1>4. /\ k \in InstallRow /\ k.node = join[h].node /\ k.identity = install[h].identity
      /\ k.receipt = install[h].receipt /\ k.xray = install[h].xray
  BY <1>1, <1>3, MachineFacts DEF InstallRow
<1>5. JoinMatches(h)'
  BY <1>2, MachineFacts, NoJoinFacts DEF JoinMatches
<1>6. RegistrationMatches(h)'
  <2>1. install'[h] = k /\ NodeIds' = NodeIds /\ nodeRows' = nodeRows
    BY <1>2, MachineFacts DEF NodeIds
  <2> QED BY <1>3, <1>4, <2>1 DEF RegistrationMatches, RequestOf, EnrollmentRequest
<1> QED BY <1>2, <1>4, <1>5, <1>6, MachineFacts, NoJoinFacts, MachineStepHolds

LEMMA JoinFailsHolds ==
    ASSUME EnrollmentInv, NEW h \in Machines, JoinFails(h)
    PROVE  EnrollmentInv'
<1>1. /\ join' = [join EXCEPT ![h] = NoJoin] /\ install' = install
      /\ UNCHANGED <<invitation, delivered, nodeRows>>
  BY DEF JoinFails
<1>2. overdue' \in SUBSET RequestRow
  <2>1. join[h].request \in SUBSET RequestRow
    BY MachineFacts DEF JoinRow
  <2> QED BY <2>1, MachineFacts DEF JoinFails
<1>3. install' = [install EXCEPT ![h] = install[h]] /\ NodeIds' = NodeIds
  BY <1>1 DEF EnrollmentInv, EnrollmentTypeOK, NodeIds
<1>4. JoinMatches(h)' /\ RegistrationMatches(h)'
  BY <1>1, <1>3, MachineFacts, NoJoinFacts DEF JoinMatches, RegistrationMatches
<1> QED BY <1>1, <1>2, <1>3, <1>4, MachineFacts, NoJoinFacts, MachineStepHolds

LEMMA UninstallHolds ==
    ASSUME EnrollmentInv, NEW h \in Machines, UninstallLocal(h)
    PROVE  EnrollmentInv'
<1>1. PICK k : k = NotInstalled(install[h].pairings)
  OBVIOUS
<1>2. /\ join[h].at = "idle"
      /\ install' = [install EXCEPT ![h] = k] /\ join' = [join EXCEPT ![h] = join[h]]
      /\ UNCHANGED <<invitation, delivered, nodeRows, overdue>>
  BY <1>1, MachineFacts DEF UninstallLocal, Unlocked
<1>3. k \in InstallRow /\ k.node = 0
  BY <1>1, MachineFacts DEF NotInstalled, NoReceipt, InstallRow, ReceiptRow
<1>4. JoinMatches(h)' /\ RegistrationMatches(h)'
  BY <1>2, <1>3, MachineFacts DEF JoinMatches, RegistrationMatches
<1> QED BY <1>2, <1>3, <1>4, MachineFacts, MachineStepHolds

\* The answer to a request goes to the machine that the request describes.
LEMMA ServeJoinHolds ==
    ASSUME EnrollmentInv, NEW h \in Machines, ServeJoin(h)
    PROVE  EnrollmentInv'
<1>1. join[h].at = "sent" /\ join[h].request = {RequestOf(h)} /\ install[h].identity # 0
  BY MachineFacts DEF ServeJoin, JoinMatches
<1>2. PICK q \in join[h].request :
        /\ EnrollNode(q)
        /\ LET n == ValidateEnrollmentAttempt(q) IN
             join' = [join EXCEPT ![h] = IF n = 0 THEN NoJoin
                                         ELSE [at |-> "accepted", request |-> {}, node |-> n]]
        /\ UNCHANGED <<delivered, install, overdue>>
  BY DEF ServeJoin
<1>3. q = RequestOf(h) /\ q \in RequestRow
  BY <1>1, MachineFacts DEF JoinRow
<1>4. EnrollmentTypeOK /\ InvitationsMade
  BY DEF EnrollmentInv
<1>5. PICK n : n = ValidateEnrollmentAttempt(q)
  OBVIOUS
<1>6. /\ nodeRows' \in Seq(NodeRow) /\ invitation' \in [Codes -> InvitationRow]
      /\ InvitationsMade'
      /\ NodeIds \subseteq NodeIds'
      /\ \A m \in NodeIds : nodeRows'[m].request = nodeRows[m].request
      /\ n \in Nat /\ (n # 0 => n \in NodeIds' /\ nodeRows'[n].request = q)
  BY <1>2, <1>3, <1>4, <1>5, EnrollNodeEffect
<1>7. PICK j : j = IF n = 0 THEN NoJoin ELSE [at |-> "accepted", request |-> {}, node |-> n]
  OBVIOUS
<1>8. /\ j \in JoinRow /\ join' = [join EXCEPT ![h] = j]
      /\ n = 0 => j.at = "idle"
      /\ n # 0 => j.at = "accepted" /\ j.node = n
  BY <1>2, <1>5, <1>6, <1>7, NoJoinFacts DEF JoinRow
<1>9. EnrollmentTypeOK'
  BY <1>2, <1>4, <1>6, <1>8 DEF EnrollmentTypeOK, JoinRow
<1>10. ASSUME NEW k \in Machines PROVE RegistrationMatches(k)'
  BY <1>2, <1>6, MachineFacts, MatchesKept
<1>11. ASSUME NEW k \in Machines PROVE JoinMatches(k)'
  <2>1. CASE k # h
    <3>1. join'[k] = join[k] /\ install'[k] = install[k]
      BY <1>2, <1>4, <1>8, <2>1 DEF EnrollmentTypeOK
    <3> QED BY <1>6, <3>1, MachineFacts, MatchesKept
  <2>2. CASE k = h
    <3>1. join'[h] = j /\ RequestOf(h)' = q /\ install'[h] = install[h]
      BY <1>2, <1>3, <1>8, MachineFacts DEF RequestOf, EnrollmentRequest
    <3> QED BY <1>1, <1>6, <1>8, <2>2, <3>1 DEF JoinMatches
  <2> QED BY <2>1, <2>2
<1> QED BY <1>6, <1>9, <1>10, <1>11 DEF EnrollmentInv

LEMMA ServeOverdueHolds ==
    ASSUME EnrollmentInv, NEW q \in overdue, ServeOverdue(q)
    PROVE  EnrollmentInv'
<1>1. EnrollNode(q) /\ overdue' = overdue \ {q} /\ UNCHANGED <<delivered, install, join>>
  BY DEF ServeOverdue
<1>2. EnrollmentTypeOK /\ InvitationsMade /\ q \in RequestRow
  BY DEF EnrollmentInv, EnrollmentTypeOK
<1>3. /\ nodeRows' \in Seq(NodeRow) /\ invitation' \in [Codes -> InvitationRow]
      /\ InvitationsMade'
      /\ NodeIds \subseteq NodeIds'
      /\ \A m \in NodeIds : nodeRows'[m].request = nodeRows[m].request
  BY <1>1, <1>2, EnrollNodeEffect
<1>4. EnrollmentTypeOK'
  BY <1>1, <1>2, <1>3 DEF EnrollmentTypeOK
<1>5. ASSUME NEW k \in Machines PROVE JoinMatches(k)' /\ RegistrationMatches(k)'
  BY <1>1, <1>3, MachineFacts, MatchesKept
<1> QED BY <1>3, <1>4, <1>5 DEF EnrollmentInv

\* What the administrator does to invitations and rows leaves names and requests alone.
LEMMA AdministratorHolds ==
    ASSUME EnrollmentInv, UNCHANGED <<install, join, overdue>>, delivered' \in SUBSET Codes,
           invitation' \in [Codes -> InvitationRow], nodeRows' \in Seq(NodeRow),
           \A c \in Codes : invitation'[c].node = invitation[c].node,
           Len(nodeRows') = Len(nodeRows),
           \A n \in NodeIds : nodeRows'[n].request = nodeRows[n].request
    PROVE  EnrollmentInv'
<1>1. NodeIds' = NodeIds /\ EnrollmentTypeOK
  BY DEF NodeIds, EnrollmentInv
<1>2. InvitationsMade'
  BY <1>1, NodeIdFacts DEF EnrollmentInv, InvitationsMade
<1>3. EnrollmentTypeOK'
  BY <1>1 DEF EnrollmentTypeOK
<1>4. ASSUME NEW k \in Machines PROVE JoinMatches(k)' /\ RegistrationMatches(k)'
  BY <1>1, MachineFacts, MatchesKept
<1> QED BY <1>2, <1>3, <1>4 DEF EnrollmentInv

LEMMA EnrollmentStep == EnrollmentInv /\ [EnrollmentNext]_enrollmentVars => EnrollmentInv'
<1> SUFFICES ASSUME EnrollmentInv, [EnrollmentNext]_enrollmentVars PROVE EnrollmentInv'
  OBVIOUS
<1>0. EnrollmentTypeOK
  BY DEF EnrollmentInv
<1>1. ASSUME NEW c \in Codes, NEW automatic \in BOOLEAN, CreateNodeInvitation(c, automatic)
      PROVE  EnrollmentInv'
  <2>1. /\ UNCHANGED <<nodeRows, install, join, overdue>> /\ delivered' \in SUBSET Codes
        /\ invitation' \in {invitation, [invitation EXCEPT ![c].issued = TRUE, ![c].automatic = automatic]}
    BY <1>0, <1>1 DEF CreateNodeInvitation, LoadNodeInvitationReplay, DeliverInvitation, EnrollmentTypeOK
  <2> DEFINE first == [invitation EXCEPT ![c].issued = TRUE]
  <2>2. first \in [Codes -> InvitationRow] /\ \A d \in Codes : first[d].node = invitation[d].node
    BY <1>0 DEF EnrollmentTypeOK, InvitationRow
  <2>3. invitation' \in {invitation, [first EXCEPT ![c].automatic = automatic]}
    BY <2>1
  <2> HIDE DEF first
  <2>4. CASE invitation' = [first EXCEPT ![c].automatic = automatic]
    <3>1. /\ invitation' \in [Codes -> InvitationRow]
          /\ \A d \in Codes : invitation'[d].node = first[d].node
      BY <2>2, <2>4 DEF InvitationRow
    <3> QED BY <1>0, <2>1, <2>2, <3>1, AdministratorHolds DEF EnrollmentTypeOK
  <2>5. CASE invitation' = invitation
    BY <1>0, <2>1, <2>5, AdministratorHolds DEF EnrollmentTypeOK
  <2> QED BY <2>3, <2>4, <2>5
<1>2. ASSUME NEW c \in Codes, InvitationExpires(c) PROVE EnrollmentInv'
  <2>1. /\ UNCHANGED <<delivered, nodeRows, install, join, overdue>>
        /\ invitation' = [invitation EXCEPT ![c].expired = TRUE]
    BY <1>2 DEF InvitationExpires
  <2>2. /\ invitation' \in [Codes -> InvitationRow]
        /\ \A d \in Codes : invitation'[d].node = invitation[d].node
    BY <1>0, <2>1 DEF EnrollmentTypeOK, InvitationRow
  <2> QED BY <1>0, <2>1, <2>2, AdministratorHolds DEF EnrollmentTypeOK
<1>3. ASSUME NEW n \in NodeIds, RevokeEnrolled(n) PROVE EnrollmentInv'
  <2>1. PICK e : e = [nodeRows[n] EXCEPT !.status = "revoked"]
    OBVIOUS
  <2>2. /\ UNCHANGED <<invitation, delivered, install, join, overdue>>
        /\ nodeRows' = [nodeRows EXCEPT ![n] = e]
    BY <1>3, <2>1 DEF RevokeEnrolled
  <2>3. e \in NodeRow /\ e.request = nodeRows[n].request
    BY <1>0, <2>1, NodeIdFacts DEF NodeRow
  <2>4. /\ nodeRows' \in Seq(NodeRow) /\ Len(nodeRows') = Len(nodeRows)
        /\ \A m \in NodeIds : nodeRows'[m] = IF m = n THEN e ELSE nodeRows[m]
    BY <1>0, <2>2, <2>3, ExceptSeq DEF EnrollmentTypeOK, NodeIds
  <2>5. \A m \in NodeIds : nodeRows'[m].request = nodeRows[m].request
    BY <2>3, <2>4
  <2> QED BY <1>0, <2>2, <2>4, <2>5, AdministratorHolds DEF EnrollmentTypeOK
<1>4. CASE UNCHANGED enrollmentVars
  BY <1>0, <1>4, AdministratorHolds DEF enrollmentVars, EnrollmentTypeOK
<1> QED BY <1>1, <1>2, <1>3, <1>4, InitializeHolds, ConfigureHolds, JoinInvitationHolds, PersistHolds,
           JoinFailsHolds, UninstallHolds, ServeJoinHolds, ServeOverdueHolds
        DEF EnrollmentNext

\* A registered host is the machine that its node's row describes, and no invitation makes
\* two nodes, whatever is repeated, delayed, lost or typed into several machines: for every
\* number of machines, codes and pairings (enroll_node, load_existing_enrollment,
\* persist_verified_registration).
THEOREM EnrolledRight == EnrollmentSpec => []EnrolledAsRecorded
<1>1. EnrollmentInit => EnrollmentInv
  <2> SUFFICES ASSUME EnrollmentInit PROVE EnrollmentInv
    OBVIOUS
  <2>1. nodeRows = <<>> /\ NodeIds = {} /\ nodeRows \in Seq(NodeRow)
    BY EmptySeq DEF EnrollmentInit, EmptyEnrollmentTables, NodeIds
  <2>2. /\ invitation = [c \in Codes |-> NotIssued] /\ delivered = {} /\ overdue = {}
        /\ install = [h \in Machines |-> NotInstalled(0)] /\ join = [h \in Machines |-> NoJoin]
    BY DEF EnrollmentInit, EmptyEnrollmentTables
  <2>3. /\ NotIssued \in InvitationRow /\ NotIssued.node = 0
        /\ NotInstalled(0) \in InstallRow /\ NotInstalled(0).node = 0
    BY DEF NotIssued, InvitationRow, NotInstalled, NoReceipt, InstallRow, ReceiptRow
  <2>4. EnrollmentTypeOK
    BY <2>1, <2>2, <2>3, NoJoinFacts DEF EnrollmentTypeOK, JoinRow
  <2>5. InvitationsMade
    BY <2>1, <2>2, <2>3 DEF InvitationsMade
  <2>6. \A h \in Machines : JoinMatches(h) /\ RegistrationMatches(h)
    BY <2>2, <2>3, NoJoinFacts DEF JoinMatches, RegistrationMatches
  <2> QED BY <2>4, <2>5, <2>6 DEF EnrollmentInv
<1>2. EnrollmentInv => EnrolledAsRecorded
  BY NodeIdFacts DEF EnrollmentInv, InvitationsMade, RegistrationMatches, EnrolledAsRecorded
<1> QED BY <1>1, <1>2, EnrollmentStep, PTL DEF EnrollmentSpec

-----------------------------------------------------------------------------
(* Endpoints: attempts are used in order, an offer that comes back cancels *)
(* the claims on it, and so the TCP success a canary was claimed on is of  *)
(* the offer that it verifies.                                             *)

AttemptStates == {"none", "claimed", "overdue", "expired", "cancelled", "succeeded", "failed"}
AttemptRow == [phase : {"none", "tcp", "protocol"}, endpoint : EndpointIds \cup {<<>>},
               generation : Nat, canary : Nat, status : AttemptStates]
CandidateRow == [reported : Nat, since : Nat, withdrawn : BOOLEAN]
Verifications == {"none", "pending", "verified", "failed", "lapsed", "withdrawn"}

EndpointsTypeOK ==
    /\ snapshots \in Seq(Nat) /\ Len(snapshots) <= MaxRevision
    /\ canary \in Nat /\ (canary = 0 => Len(snapshots) = 0)
    /\ host \in [applied : Nat, generation : Nat] /\ host.applied <= Len(snapshots)
    /\ row \in [generation : Nat, applied : Nat, state : {"starting", "serving", "paused"}]
    /\ candidate \in [EndpointIds -> CandidateRow]
    /\ verification \in [EndpointIds -> Verifications]
    /\ attempt \in [Attempts -> AttemptRow]
    /\ running \in SUBSET Attempts

\* A generation is sent once, and every endpoint is of a published revision.
HeartbeatsSent ==
    /\ row.generation <= host.generation
    /\ \A h \in heartbeats :
          /\ h.generation \in Nat /\ h.generation # 0 /\ h.generation <= host.generation
          /\ h.state \in {"serving", "paused"}
          /\ \A e \in h.offered : e \in EndpointIds /\ e[1] <= Len(snapshots)
    /\ \A h, k \in heartbeats : h.generation = k.generation => h = k

NewestIsStored ==
    \A h \in heartbeats : h.generation = row.generation =>
        {e \in EndpointIds : Current(e)} = h.offered /\ row.state = h.state

CandidatesStored ==
    \A e \in EndpointIds :
        /\ Stored(e) => e[1] <= Len(snapshots)
        /\ candidate[e].since <= candidate[e].reported
        /\ candidate[e].reported <= row.generation
        /\ verification[e] = "withdrawn" <=> Stored(e) /\ ~ Current(e)

Pending(a) == attempt[a].status \in {"claimed", "overdue"}

\* Attempt t is a TCP success of the endpoint's present offer.
Reached(t, e) ==
    /\ attempt[t].phase = "tcp" /\ attempt[t].status = "succeeded" /\ attempt[t].endpoint = e
    /\ attempt[t].generation >= candidate[e].since

AttemptsMade ==
    /\ \A a, b \in Attempts : attempt[b].status # "none" /\ a < b => attempt[a].status # "none"
    /\ \A a, b \in Attempts : attempt[a].status = "claimed" /\ attempt[b].status = "claimed" => a = b
    /\ \A a \in Attempts : attempt[a].status # "none" =>
          attempt[a].endpoint \in EndpointIds /\ Stored(attempt[a].endpoint)
    /\ \A a \in Attempts : Pending(a) /\ attempt[a].phase = "protocol" =>
          \E t \in Attempts : t < a /\ Reached(t, attempt[a].endpoint)

VerifiedHasEvidence == \A e \in EndpointIds : verification[e] = "verified" => Evidenced(e)

EndpointsInv ==
    /\ EndpointsTypeOK /\ HeartbeatsSent /\ NewestIsStored /\ CandidatesStored
    /\ AttemptsMade /\ VerifiedHasEvidence

LEMMA EndpointIdFacts ==
    /\ \A e \in EndpointIds : e[1] \in Nat /\ e[1] # 0 /\ e[1] <= MaxRevision /\ e[2] \in Routes
                              /\ e = <<e[1], e[2]>>
    /\ \A r \in Nat, k \in Routes : r # 0 /\ r <= MaxRevision => <<r, k>> \in EndpointIds
    /\ Attempts \subseteq Nat /\ MaxRevision \in Nat
  BY EndpointsAssumption DEF EndpointIds, Attempts

\* The evidence of a verification, attempt by attempt.
LEMMA EvidenceIs ==
    ASSUME NEW e
    PROVE  Evidenced(e) <=>
             /\ Current(e) /\ snapshots[e[1]] = canary
             /\ \E p \in Attempts :
                   /\ attempt[p].phase = "protocol" /\ attempt[p].status = "succeeded"
                   /\ attempt[p].endpoint = e /\ attempt[p].generation >= candidate[e].since
                   /\ attempt[p].canary = canary
                   /\ \E t \in Attempts : t < p /\ Reached(t, e)
  BY DEF Evidenced, Succeeded, Reached

\* Successful attempts are never touched again; without a new offer they stay evidence.
LEMMA EvidenceKept ==
    ASSUME NEW e \in EndpointIds, Evidenced(e), Current(e)',
           candidate'[e].since = candidate[e].since, canary' = canary,
           snapshots'[e[1]] = snapshots[e[1]],
           \A a \in Attempts : attempt[a].status = "succeeded" => attempt'[a] = attempt[a]
    PROVE  Evidenced(e)'
<1>1. PICK p \in Attempts :
        /\ attempt[p].phase = "protocol" /\ attempt[p].status = "succeeded"
        /\ attempt[p].endpoint = e /\ attempt[p].generation >= candidate[e].since
        /\ attempt[p].canary = canary
        /\ \E t \in Attempts : t < p /\ Reached(t, e)
  BY EvidenceIs
<1>2. PICK t \in Attempts : t < p /\ Reached(t, e)
  BY <1>1
<1>3. attempt'[p] = attempt[p] /\ attempt'[t] = attempt[t]
  BY <1>1, <1>2 DEF Reached
<1>4. Reached(t, e)'
  BY <1>2, <1>3 DEF Reached
<1>5. snapshots[e[1]] = canary
  BY EvidenceIs
<1>6. /\ p \in Attempts' /\ t \in Attempts' /\ Attempts' = Attempts
  BY DEF Attempts
<1>7. /\ Current(e)' /\ snapshots'[e[1]] = canary'
      /\ \E q \in Attempts :
            /\ attempt'[q].phase = "protocol" /\ attempt'[q].status = "succeeded"
            /\ attempt'[q].endpoint = e /\ attempt'[q].generation >= candidate'[e].since
            /\ attempt'[q].canary = canary'
            /\ \E u \in Attempts : u < q /\ Reached(u, e)'
  BY <1>1, <1>2, <1>3, <1>4, <1>5
<1> QED BY <1>7 DEF Evidenced, Succeeded, Reached, Attempts

\* What only the node or the publication of a revision changes leaves the evidence alone.
LEMMA NodeMoves ==
    ASSUME EndpointsInv, UNCHANGED <<candidate, verification, attempt, running>>,
           EndpointsTypeOK', HeartbeatsSent', NewestIsStored', row'.generation = row.generation,
           canary' = canary \/ snapshots = <<>>, Len(snapshots) <= Len(snapshots'),
           \A r \in 1 .. Len(snapshots) : snapshots'[r] = snapshots[r]
    PROVE  EndpointsInv'
<1>1. /\ EndpointsTypeOK /\ CandidatesStored /\ AttemptsMade /\ VerifiedHasEvidence
      /\ EndpointIds' = EndpointIds /\ Attempts' = Attempts
  BY DEF EndpointsInv, EndpointIds, Attempts
<1>2. Len(snapshots) \in Nat /\ Len(snapshots') \in Nat
  BY <1>1 DEF EndpointsTypeOK
<1>3. CandidatesStored'
  <2> SUFFICES ASSUME NEW e \in EndpointIds
               PROVE  /\ Stored(e) => e[1] <= Len(snapshots')
                      /\ candidate[e].since <= candidate[e].reported
                      /\ candidate[e].reported <= row'.generation
                      /\ verification[e] = "withdrawn" <=> Stored(e) /\ ~ Current(e)
    BY <1>1 DEF CandidatesStored, Stored, Current
  <2>1. Stored(e) => e[1] <= Len(snapshots)
    BY <1>1 DEF CandidatesStored
  <2> QED BY <1>1, <1>2, <2>1, EndpointIdFacts DEF CandidatesStored
<1>4. AttemptsMade'
  BY <1>1 DEF AttemptsMade, Pending, Reached, Stored
<1>5. VerifiedHasEvidence'
  <2> SUFFICES ASSUME NEW e \in EndpointIds, verification[e] = "verified" PROVE Evidenced(e)'
    BY <1>1 DEF VerifiedHasEvidence
  <2>1. Evidenced(e) /\ Stored(e)
    BY <1>1 DEF VerifiedHasEvidence, Evidenced, Current
  <2>2. e[1] \in Nat /\ e[1] # 0 /\ e[1] <= Len(snapshots)
    BY <1>1, <2>1, EndpointIdFacts DEF CandidatesStored
  <2>3. e[1] \in 1 .. Len(snapshots)
    BY <1>2, <2>2
  <2>4. snapshots # <<>>
    BY <1>2, <2>2
  <2>5. Current(e)'
    BY <2>1 DEF Evidenced, Current, Stored
  <2> QED BY <2>1, <2>3, <2>4, <2>5, EvidenceKept
<1> QED BY <1>3, <1>4, <1>5 DEF EndpointsInv

LEMMA PublishForNodeHolds == ASSUME EndpointsInv, PublishForNode PROVE EndpointsInv'
<1>1. EndpointsTypeOK /\ HeartbeatsSent /\ NewestIsStored
  BY DEF EndpointsInv
<1>2. /\ canary' \in Nat /\ canary' # 0 /\ (canary' = canary \/ snapshots = <<>>)
  BY <1>1 DEF PublishForNode, EnsureEndpointCanaryCredential, EndpointsTypeOK
<1>3. /\ snapshots' \in Seq(Nat) /\ Len(snapshots') = Len(snapshots) + 1 /\ Len(snapshots) \in Nat
      /\ \A r \in 1 .. Len(snapshots) : snapshots'[r] = snapshots[r]
  BY <1>1, <1>2 DEF PublishForNode, EndpointsTypeOK
<1>4. Len(snapshots) < MaxRevision /\ UNCHANGED <<host, heartbeats, row, candidate, verification, attempt, running>>
  BY DEF PublishForNode
<1>5. EndpointsTypeOK'
  <2>1. Len(snapshots') <= MaxRevision /\ host.applied <= Len(snapshots')
    BY <1>1, <1>3, <1>4, EndpointIdFacts DEF EndpointsTypeOK
  <2> QED BY <1>1, <1>2, <1>3, <1>4, <2>1 DEF EndpointsTypeOK, EndpointIds, Attempts, CandidateRow, AttemptRow
<1>6. HeartbeatsSent'
  <2> SUFFICES ASSUME NEW h \in heartbeats, NEW e \in h.offered PROVE e \in EndpointIds /\ e[1] <= Len(snapshots')
    BY <1>1, <1>4 DEF HeartbeatsSent, EndpointIds
  <2>1. e \in EndpointIds /\ e[1] <= Len(snapshots)
    BY <1>1 DEF HeartbeatsSent
  <2> QED BY <1>3, <2>1, EndpointIdFacts
<1>7. NewestIsStored'
  BY <1>1, <1>4 DEF NewestIsStored, Current, Stored, EndpointIds
<1> QED BY <1>2, <1>3, <1>4, <1>5, <1>6, <1>7, NodeMoves

LEMMA NodeReportsHold ==
    ASSUME EndpointsInv
    PROVE  /\ \A r \in 1 .. Len(snapshots) : ApplyForNode(r) => EndpointsInv'
           /\ ReportApplied => EndpointsInv'
<1>1. EndpointsTypeOK /\ HeartbeatsSent /\ NewestIsStored
  BY DEF EndpointsInv
<1>2. ASSUME NEW r \in 1 .. Len(snapshots), ApplyForNode(r) PROVE EndpointsInv'
  <2>1. /\ host' = [host EXCEPT !.applied = r]
        /\ UNCHANGED <<snapshots, canary, heartbeats, row, candidate, verification, attempt, running>>
    BY <1>2 DEF ApplyForNode
  <2>2. host' \in [applied : Nat, generation : Nat] /\ host'.applied <= Len(snapshots) /\ host'.generation = host.generation
    BY <1>1, <2>1 DEF EndpointsTypeOK
  <2>3. EndpointsTypeOK'
    BY <1>1, <2>1, <2>2 DEF EndpointsTypeOK, EndpointIds, Attempts, CandidateRow, AttemptRow
  <2>4. HeartbeatsSent' /\ NewestIsStored'
    BY <1>1, <2>1, <2>2 DEF HeartbeatsSent, NewestIsStored, Current, Stored, EndpointIds
  <2>5. Len(snapshots) <= Len(snapshots')
    BY <1>1, <2>1 DEF EndpointsTypeOK
  <2> QED BY <2>1, <2>3, <2>4, <2>5, NodeMoves
<1>3. ASSUME ReportApplied PROVE EndpointsInv'
  <2>1. /\ row' = [row EXCEPT !.applied = host.applied]
        /\ UNCHANGED <<snapshots, canary, host, heartbeats, candidate, verification, attempt, running>>
    BY <1>3 DEF ReportApplied
  <2>2. /\ row' \in [generation : Nat, applied : Nat, state : {"starting", "serving", "paused"}]
        /\ row'.generation = row.generation /\ row'.state = row.state
    BY <1>1, <2>1 DEF EndpointsTypeOK
  <2>3. EndpointsTypeOK'
    BY <1>1, <2>1, <2>2 DEF EndpointsTypeOK, EndpointIds, Attempts, CandidateRow, AttemptRow
  <2>4. HeartbeatsSent' /\ NewestIsStored'
    BY <1>1, <2>1, <2>2 DEF HeartbeatsSent, NewestIsStored, Current, Stored, EndpointIds
  <2>5. Len(snapshots) <= Len(snapshots')
    BY <1>1, <2>1 DEF EndpointsTypeOK
  <2> QED BY <2>1, <2>2, <2>3, <2>4, <2>5, NodeMoves
<1> QED BY <1>2, <1>3

LEMMA SendHeartbeatHolds ==
    ASSUME EndpointsInv, NEW state \in {"serving", "paused"}, NEW offered \in SUBSET Routes,
           SendHeartbeat(state, offered)
    PROVE  EndpointsInv'
<1>1. EndpointsTypeOK /\ HeartbeatsSent /\ NewestIsStored
  BY DEF EndpointsInv
<1>2. PICK k : k = [generation |-> host.generation + 1, applied |-> host.applied, state |-> state,
                    offered |-> {host.applied} \X offered]
  OBVIOUS
<1>3. /\ host.applied # 0 /\ host' = [host EXCEPT !.generation = @ + 1] /\ heartbeats' = heartbeats \cup {k}
      /\ UNCHANGED <<snapshots, canary, row, candidate, verification, attempt, running>>
  BY <1>2 DEF SendHeartbeat
<1>4. /\ host' \in [applied : Nat, generation : Nat] /\ host'.applied = host.applied
      /\ host'.generation = host.generation + 1 /\ host.generation \in Nat
      /\ k.generation = host.generation + 1 /\ k.state = state /\ k.offered = {host.applied} \X offered
  BY <1>1, <1>2, <1>3 DEF EndpointsTypeOK
<1>5. EndpointsTypeOK'
  BY <1>1, <1>3, <1>4 DEF EndpointsTypeOK, EndpointIds, Attempts, CandidateRow, AttemptRow
<1>6. ASSUME NEW e \in k.offered PROVE e \in EndpointIds /\ e[1] <= Len(snapshots)
  <2>1. e[1] = host.applied /\ e[2] \in Routes /\ e = <<e[1], e[2]>>
    BY <1>4
  <2>2. host.applied \in Nat /\ host.applied <= Len(snapshots) /\ Len(snapshots) \in Nat /\ Len(snapshots) <= MaxRevision
    BY <1>1 DEF EndpointsTypeOK
  <2>3. host.applied <= MaxRevision
    BY <2>2, EndpointIdFacts
  <2> QED BY <1>3, <2>1, <2>2, <2>3, EndpointIdFacts
<1>7. \A h \in heartbeats : h.generation \in Nat /\ h.generation # 0 /\ h.generation <= host.generation
  BY <1>1 DEF HeartbeatsSent
<1>8. HeartbeatsSent'
  <2>1. row.generation \in Nat /\ row.generation <= host.generation
    BY <1>1 DEF HeartbeatsSent, EndpointsTypeOK
  <2>2. ASSUME NEW h \in heartbeats'
        PROVE  /\ h.generation \in Nat /\ h.generation # 0 /\ h.generation <= host'.generation
               /\ h.state \in {"serving", "paused"}
               /\ \A e \in h.offered : e \in EndpointIds /\ e[1] <= Len(snapshots)
    <3>1. CASE h = k
      BY <1>4, <1>6, <3>1
    <3>2. CASE h \in heartbeats
      <4>1. h.generation <= host'.generation
        BY <1>4, <1>7, <3>2
      <4> QED BY <1>1, <3>2, <4>1 DEF HeartbeatsSent
    <3> QED BY <1>3, <3>1, <3>2
  <2>3. ASSUME NEW h \in heartbeats', NEW g \in heartbeats', h.generation = g.generation PROVE h = g
    <3>1. \A i \in heartbeats : i.generation # k.generation
      BY <1>4, <1>7
    <3>2. \A i, j \in heartbeats : i.generation = j.generation => i = j
      BY <1>1 DEF HeartbeatsSent
    <3> QED BY <1>3, <2>3, <3>1, <3>2
  <2>4. row'.generation <= host'.generation
    BY <1>3, <1>4, <2>1
  <2>5. EndpointIds' = EndpointIds
    BY DEF EndpointIds
  <2> QED BY <1>3, <2>2, <2>3, <2>4, <2>5 DEF HeartbeatsSent
<1>9. NewestIsStored'
  <2>1. k.generation # row.generation
    BY <1>1, <1>4 DEF HeartbeatsSent, EndpointsTypeOK
  <2> QED BY <1>1, <1>3, <2>1 DEF NewestIsStored, Current, Stored, EndpointIds
<1>10. Len(snapshots) <= Len(snapshots') /\ row'.generation = row.generation
  BY <1>1, <1>3 DEF EndpointsTypeOK
<1> QED BY <1>3, <1>5, <1>8, <1>9, <1>10, NodeMoves

\* What a heartbeat makes of one endpoint: the offer decides whether it is live, and only
\* an endpoint that was not live starts anew.
LEMMA OfferEffect ==
    ASSUME EndpointsTypeOK, NEW h \in heartbeats, h.generation \in Nat, h.generation # 0,
           RecordEndpointCandidates(h), NEW e \in EndpointIds
    PROVE  /\ candidate'[e] \in CandidateRow /\ verification'[e] \in Verifications
           /\ Current(e)' <=> e \in h.offered
           /\ Stored(e)' <=> Stored(e) \/ e \in h.offered
           /\ candidate'[e].reported = IF e \in h.offered THEN h.generation ELSE candidate[e].reported
           /\ candidate'[e].since = IF e \in h.offered /\ ~ Current(e) THEN h.generation
                                                                    ELSE candidate[e].since
           /\ verification'[e] = VerificationAfter(e, h)
<1>1. candidate[e] \in CandidateRow /\ verification[e] \in Verifications
  BY DEF EndpointsTypeOK
<1>2. /\ candidate'[e] = IF e \in h.offered THEN Refreshed(e, h.generation) ELSE Withdrawn(e)
      /\ verification'[e] = VerificationAfter(e, h)
  BY DEF RecordEndpointCandidates
<1>3. verification'[e] \in Verifications
  BY <1>1, <1>2 DEF VerificationAfter, Verifications
<1>4. CASE e \in h.offered /\ Current(e)
  <2>1. candidate'[e] = [candidate[e] EXCEPT !.reported = h.generation]
    BY <1>2, <1>4 DEF Refreshed
  <2>2. /\ candidate'[e] \in CandidateRow /\ candidate'[e].reported = h.generation
        /\ candidate'[e].since = candidate[e].since /\ candidate'[e].withdrawn = candidate[e].withdrawn
    BY <1>1, <2>1 DEF CandidateRow
  <2> QED BY <1>2, <1>3, <1>4, <2>2 DEF Current, Stored
<1>5. CASE e \in h.offered /\ ~ Current(e)
  <2>1. candidate'[e] = Inserted(h.generation)
    BY <1>2, <1>5 DEF Refreshed
  <2>2. /\ candidate'[e] \in CandidateRow /\ candidate'[e].reported = h.generation
        /\ candidate'[e].since = h.generation /\ candidate'[e].withdrawn = FALSE
    BY <2>1 DEF CandidateRow, Inserted
  <2> QED BY <1>2, <1>3, <1>5, <2>2 DEF Current, Stored
<1>6. CASE e \notin h.offered
  <2>1. candidate'[e] = IF Current(e) THEN [candidate[e] EXCEPT !.withdrawn = TRUE] ELSE candidate[e]
    BY <1>2, <1>6 DEF Withdrawn
  <2>2. /\ candidate'[e] \in CandidateRow /\ candidate'[e].reported = candidate[e].reported
        /\ candidate'[e].since = candidate[e].since
        /\ candidate'[e].withdrawn = (Current(e) \/ candidate[e].withdrawn)
    BY <1>1, <2>1 DEF CandidateRow
  <2> QED BY <1>2, <1>3, <1>6, <2>2 DEF Current, Stored
<1> QED BY <1>4, <1>5, <1>6

LEMMA StoreHeartbeatHolds ==
    ASSUME EndpointsInv, NEW h \in heartbeats, StoreHeartbeat(h)
    PROVE  EndpointsInv'
<1>1. /\ EndpointsTypeOK /\ HeartbeatsSent /\ NewestIsStored /\ CandidatesStored /\ AttemptsMade
      /\ VerifiedHasEvidence
  BY DEF EndpointsInv
<1>2. /\ h.generation > row.generation /\ RecordEndpointCandidates(h)
      /\ row' = [row EXCEPT !.generation = h.generation, !.state = h.state]
      /\ UNCHANGED <<snapshots, canary, host, heartbeats, running>>
  BY DEF StoreHeartbeat, IsNewest
<1>3. /\ h.generation \in Nat /\ h.generation # 0 /\ h.generation <= host.generation
      /\ h.state \in {"serving", "paused"}
      /\ \A e \in h.offered : e \in EndpointIds /\ e[1] <= Len(snapshots)
      /\ \A k \in heartbeats : h.generation = k.generation => h = k
  BY <1>1 DEF HeartbeatsSent
<1>4. /\ row' \in [generation : Nat, applied : Nat, state : {"starting", "serving", "paused"}]
      /\ row'.generation = h.generation /\ row'.state = h.state /\ row.generation \in Nat
  BY <1>1, <1>2, <1>3 DEF EndpointsTypeOK
<1>5. EndpointIds' = EndpointIds /\ Attempts' = Attempts
  BY DEF EndpointIds, Attempts
<1>6. \A e \in EndpointIds :
           /\ candidate'[e] \in CandidateRow /\ verification'[e] \in Verifications
           /\ Current(e)' <=> e \in h.offered
           /\ Stored(e)' <=> Stored(e) \/ e \in h.offered
           /\ candidate'[e].reported = IF e \in h.offered THEN h.generation ELSE candidate[e].reported
           /\ candidate'[e].since = IF e \in h.offered /\ ~ Current(e) THEN h.generation
                                                                    ELSE candidate[e].since
           /\ verification'[e] = VerificationAfter(e, h)
  BY <1>1, <1>2, <1>3, OfferEffect
<1>7. \A a \in Attempts :
           /\ attempt'[a] = IF CancelledByReturn(a, h) THEN [attempt[a] EXCEPT !.status = "cancelled"] ELSE attempt[a]
           /\ attempt[a] \in AttemptRow
  BY <1>1, <1>2 DEF RecordEndpointCandidates, EndpointsTypeOK
<1>8. \A a \in Attempts :
           /\ attempt'[a] \in AttemptRow /\ attempt'[a].endpoint = attempt[a].endpoint
           /\ ~ CancelledByReturn(a, h) => attempt'[a] = attempt[a]
           /\ CancelledByReturn(a, h) => attempt'[a].status = "cancelled" /\ Pending(a)
  <2>1. SUFFICES ASSUME NEW a \in Attempts
                 PROVE  /\ attempt'[a] \in AttemptRow /\ attempt'[a].endpoint = attempt[a].endpoint
                        /\ ~ CancelledByReturn(a, h) => attempt'[a] = attempt[a]
                        /\ CancelledByReturn(a, h) => attempt'[a].status = "cancelled" /\ Pending(a)
    OBVIOUS
  <2>2. CASE CancelledByReturn(a, h)
    <3>1. PICK old : old = attempt[a]
      OBVIOUS
    <3>2. PICK new : new = [old EXCEPT !.status = "cancelled"]
      OBVIOUS
    <3>3. new \in AttemptRow /\ new.endpoint = old.endpoint /\ new.status = "cancelled"
      BY <1>7, <3>1, <3>2 DEF AttemptRow, AttemptStates
    <3>4. Pending(a)
      BY <2>2 DEF CancelledByReturn, Pending
    <3> QED BY <1>7, <2>2, <3>1, <3>2, <3>3, <3>4
  <2>3. CASE ~ CancelledByReturn(a, h)
    BY <1>7, <2>3
  <2> QED BY <2>2, <2>3
<1>9. EndpointsTypeOK'
  <2>1. /\ candidate' \in [EndpointIds -> CandidateRow] /\ verification' \in [EndpointIds -> Verifications]
    BY <1>2, <1>6 DEF RecordEndpointCandidates
  <2>2. attempt' \in [Attempts -> AttemptRow]
    BY <1>2, <1>8 DEF RecordEndpointCandidates
  <2>3. CandidateRow' = CandidateRow /\ Verifications' = Verifications /\ AttemptRow' = AttemptRow
    BY <1>5 DEF CandidateRow, Verifications, AttemptRow, AttemptStates
  <2> QED BY <1>1, <1>2, <1>4, <1>5, <2>1, <2>2, <2>3 DEF EndpointsTypeOK
<1>10. HeartbeatsSent'
  BY <1>1, <1>2, <1>3, <1>4, <1>5 DEF HeartbeatsSent
<1>11. NewestIsStored'
  <2>1. {e \in EndpointIds : Current(e)'} = h.offered
    BY <1>3, <1>6
  <2>2. ASSUME NEW k \in heartbeats, k.generation = row'.generation PROVE k = h
    BY <1>3, <1>4, <2>2
  <2> QED BY <1>2, <1>4, <1>5, <2>1, <2>2 DEF NewestIsStored
<1>12. CandidatesStored'
  <2> SUFFICES ASSUME NEW e \in EndpointIds
               PROVE  /\ Stored(e)' => e[1] <= Len(snapshots)
                      /\ candidate'[e].since <= candidate'[e].reported
                      /\ candidate'[e].reported <= h.generation
                      /\ verification'[e] = "withdrawn" <=> Stored(e)' /\ ~ Current(e)'
    BY <1>2, <1>4, <1>5 DEF CandidatesStored
  <2>1. /\ Stored(e) => e[1] <= Len(snapshots)
        /\ candidate[e].since <= candidate[e].reported /\ candidate[e].reported <= row.generation
        /\ verification[e] = "withdrawn" <=> Stored(e) /\ ~ Current(e)
    BY <1>1 DEF CandidatesStored
  <2>2. candidate[e].since \in Nat /\ candidate[e].reported \in Nat
    BY <1>1 DEF EndpointsTypeOK, CandidateRow
  <2>3. candidate[e].since <= h.generation /\ candidate[e].reported <= h.generation
    BY <1>2, <1>3, <1>4, <2>1, <2>2
  <2>4. candidate'[e].since <= candidate'[e].reported /\ candidate'[e].reported <= h.generation
    BY <1>3, <1>6, <2>1, <2>2, <2>3
  <2>5. verification'[e] = "withdrawn" <=> Stored(e)' /\ ~ Current(e)'
    BY <1>6, <2>1 DEF VerificationAfter, Current
  <2>6. Stored(e)' => e[1] <= Len(snapshots)
    BY <1>3, <1>6, <2>1
  <2> QED BY <2>4, <2>5, <2>6
<1>13. AttemptsMade'
  <2>1. \A a \in Attempts : attempt'[a].status = "none" <=> attempt[a].status = "none"
    BY <1>8 DEF Pending
  <2>2. \A a \in Attempts : attempt'[a].status = "claimed" => attempt[a].status = "claimed"
    BY <1>8
  <2>3. ASSUME NEW a \in Attempts, attempt'[a].status # "none"
        PROVE  attempt'[a].endpoint \in EndpointIds /\ Stored(attempt[a].endpoint)'
    <3>1. attempt[a].endpoint \in EndpointIds /\ Stored(attempt[a].endpoint)
      BY <1>1, <2>1, <2>3 DEF AttemptsMade
    <3> QED BY <1>6, <1>8, <3>1 DEF Stored
  <2>4. ASSUME NEW a \in Attempts, attempt'[a].status \in {"claimed", "overdue"}, attempt'[a].phase = "protocol"
        PROVE  \E t \in Attempts : t < a /\ Reached(t, attempt[a].endpoint)'
    <3>1. attempt'[a] = attempt[a] /\ ~ CancelledByReturn(a, h)
      BY <1>8, <2>4
    <3>2. PICK e : e = attempt[a].endpoint
      OBVIOUS
    <3>3. /\ e \in EndpointIds /\ Stored(e) /\ \E t \in Attempts : t < a /\ Reached(t, e)
      BY <1>1, <2>4, <3>1, <3>2 DEF AttemptsMade, Pending
    <3>4. ~ (e \in h.offered /\ ~ Current(e))
      BY <2>4, <3>1, <3>2, <3>3 DEF CancelledByReturn
    <3>5. candidate'[e].since = candidate[e].since
      BY <1>6, <3>3, <3>4
    <3>6. PICK t \in Attempts : t < a /\ Reached(t, e)
      BY <3>3
    <3>7. attempt'[t] = attempt[t]
      BY <1>8, <3>6 DEF Reached, Pending
    <3>8. Reached(t, e)'
      BY <3>5, <3>6, <3>7 DEF Reached
    <3> QED BY <3>1, <3>2, <3>6, <3>8 DEF Reached
  <2>5. \A a, b \in Attempts : attempt'[b].status # "none" /\ a < b => attempt'[a].status # "none"
    BY <1>1, <2>1 DEF AttemptsMade
  <2>6. \A a, b \in Attempts : attempt'[a].status = "claimed" /\ attempt'[b].status = "claimed" => a = b
    BY <1>1, <2>2 DEF AttemptsMade
  <2> QED BY <1>5, <2>3, <2>4, <2>5, <2>6 DEF AttemptsMade, Pending
<1>14. VerifiedHasEvidence'
  <2> SUFFICES ASSUME NEW e \in EndpointIds, verification'[e] = "verified" PROVE Evidenced(e)'
    BY <1>5 DEF VerifiedHasEvidence
  <2>1. verification[e] = "verified" /\ (e \in h.offered => Current(e)) /\ (e \in h.offered \/ ~ Stored(e))
    BY <1>6 DEF VerificationAfter
  <2>2. Evidenced(e) /\ Current(e)
    BY <1>1, <2>1 DEF VerifiedHasEvidence, Evidenced
  <2>3. e \in h.offered
    BY <2>1, <2>2 DEF Current
  <2>4. Current(e)' /\ candidate'[e].since = candidate[e].since
    BY <1>6, <2>2, <2>3
  <2>5. \A a \in Attempts : attempt[a].status = "succeeded" => attempt'[a] = attempt[a]
    BY <1>8 DEF Pending
  <2> QED BY <1>2, <2>2, <2>4, <2>5, EvidenceKept
<1> QED BY <1>9, <1>10, <1>11, <1>12, <1>13, <1>14 DEF EndpointsInv

\* What probes and canaries change is their attempts and the verifications these decide.
LEMMA ProbesMove ==
    ASSUME EndpointsInv, UNCHANGED <<snapshots, canary, host, heartbeats, row, candidate>>,
           attempt' \in [Attempts -> AttemptRow], running' \in SUBSET Attempts,
           verification' \in [EndpointIds -> Verifications],
           \A e \in EndpointIds : Stored(e) =>
               (verification'[e] = "withdrawn" <=> verification[e] = "withdrawn"),
           \A e \in EndpointIds : ~ Stored(e) => verification'[e] = verification[e],
           AttemptsMade', VerifiedHasEvidence'
    PROVE  EndpointsInv'
<1>1. EndpointsTypeOK /\ HeartbeatsSent /\ NewestIsStored /\ CandidatesStored
  BY DEF EndpointsInv
<1>2. EndpointsTypeOK'
  BY <1>1 DEF EndpointsTypeOK, EndpointIds, Attempts, CandidateRow, AttemptRow, AttemptStates, Verifications
<1>3. HeartbeatsSent' /\ NewestIsStored'
  BY <1>1 DEF HeartbeatsSent, NewestIsStored, Current, Stored, EndpointIds
<1>4. \A e \in EndpointIds : verification'[e] = "withdrawn" <=> Stored(e) /\ ~ Current(e)
  BY <1>1 DEF CandidatesStored
<1>5. CandidatesStored'
  BY <1>1, <1>4 DEF CandidatesStored, Current, Stored, EndpointIds
<1> QED BY <1>2, <1>3, <1>5 DEF EndpointsInv

\* A set of numbers that is not empty has a least one.
LEMMA LeastOfNumbers ==
    ASSUME NEW S, S \subseteq Nat, S # {}
    PROVE  \E a \in S : \A b \in S : a <= b
<1> DEFINE R == OpToRel(<, Nat)
<1>1. \E x \in S : \A y \in S : ~ (<<y, x>> \in R)
  BY NatLessThanWellFounded, WFMin
<1>2. \A x, y \in Nat : x < y => <<x, y>> \in R
  BY DEF OpToRel
<1> HIDE DEF R
<1>3. PICK x \in S : \A y \in S : ~ (<<y, x>> \in R)
  BY <1>1
<1>4. \A y \in S : ~ (y < x)
  BY <1>2, <1>3
<1> QED BY <1>4

\* A claim is for an endpoint that is stored; a canary's follows a TCP success of its offer.
LEMMA ClaimIs ==
    ASSUME EndpointsInv, NEW phase \in {"tcp", "protocol"}, NEW e \in EndpointIds, NEW j,
           IF phase = "tcp" THEN MayProbe(e) ELSE MayRunCanary(e),
           j = IF phase = "tcp" THEN TcpClaim(e) ELSE CanaryClaim(e)
    PROVE  /\ j \in AttemptRow /\ j.status = "claimed" /\ j.endpoint = e /\ j.phase = phase /\ Stored(e)
           /\ phase = "protocol" => \E t \in Attempts : Reached(t, e)
<1>1. EndpointsTypeOK /\ CandidatesStored
  BY DEF EndpointsInv
<1>2. MayProbe(e) /\ Stored(e) /\ candidate[e].reported \in Nat
  BY <1>1 DEF MayRunCanary, MayProbe, Current, EndpointsTypeOK, CandidateRow
<1>3. e[1] \in Nat /\ e[1] # 0 /\ e[1] <= Len(snapshots) /\ Len(snapshots) \in Nat
  BY <1>1, <1>2, EndpointIdFacts DEF CandidatesStored, EndpointsTypeOK
<1>4. snapshots[e[1]] \in Nat
  BY <1>1, <1>3 DEF EndpointsTypeOK
<1>5. /\ TcpClaim(e) \in AttemptRow /\ TcpClaim(e).status = "claimed" /\ TcpClaim(e).endpoint = e
      /\ TcpClaim(e).phase = "tcp"
  BY <1>2 DEF TcpClaim, AttemptRow, AttemptStates
<1>6. CASE phase = "tcp"
  BY <1>2, <1>5, <1>6
<1>7. CASE phase = "protocol"
  <2>1. PICK x : x = TcpClaim(e)
    OBVIOUS
  <2>2. PICK d : d = [x EXCEPT !.phase = "protocol"]
    OBVIOUS
  <2>3. j = [d EXCEPT !.canary = snapshots[e[1]]]
    BY <1>5, <1>7, <2>1, <2>2 DEF CanaryClaim, AttemptRow
  <2>4. d \in AttemptRow /\ d.status = "claimed" /\ d.endpoint = e /\ d.phase = "protocol"
    BY <1>5, <2>1, <2>2 DEF AttemptRow
  <2>5. j \in AttemptRow /\ j.status = "claimed" /\ j.endpoint = e /\ j.phase = "protocol"
    BY <1>4, <2>3, <2>4 DEF AttemptRow
  <2>6. \E t \in Attempts : Reached(t, e)
    BY <1>7 DEF MayRunCanary, Succeeded, Reached
  <2> QED BY <1>2, <1>7, <2>5, <2>6
<1> QED BY <1>6, <1>7

LEMMA ClaimHolds ==
    ASSUME EndpointsInv, NEW phase \in {"tcp", "protocol"}, NEW e \in EndpointIds, Claim(phase, e)
    PROVE  EndpointsInv'
<1>1. EndpointsTypeOK /\ AttemptsMade /\ VerifiedHasEvidence /\ CandidatesStored
  BY DEF EndpointsInv
<1>2. PICK a : a = CHOOSE b \in Unclaimed : \A c \in Unclaimed : b <= c
  OBVIOUS
<1>3. PICK j : j = IF phase = "tcp" THEN TcpClaim(e) ELSE CanaryClaim(e)
  OBVIOUS
<1>4. /\ Unclaimed # {} /\ \A b \in Attempts : attempt[b].status # "claimed"
      /\ IF phase = "tcp" THEN MayProbe(e) ELSE MayRunCanary(e)
      /\ attempt' = [ExpireStale EXCEPT ![a] = j] /\ running' = running \cup {a}
      /\ UNCHANGED <<snapshots, canary, host, heartbeats, row, candidate, verification>>
  BY <1>2, <1>3 DEF Claim
<1>5. a \in Unclaimed /\ \A b \in Unclaimed : a <= b
  <2>1. Unclaimed \subseteq Nat
    BY EndpointIdFacts DEF Unclaimed
  <2>2. \E b \in Unclaimed : \A c \in Unclaimed : b <= c
    BY <1>4, <2>1, LeastOfNumbers
  <2> QED BY <1>2, <2>2
<1>6. /\ j \in AttemptRow /\ j.status = "claimed" /\ j.endpoint = e /\ j.phase = phase /\ Stored(e)
      /\ phase = "protocol" => \E t \in Attempts : Reached(t, e)
  BY <1>3, <1>4, ClaimIs
<1>7. a \in Attempts /\ attempt[a].status = "none" /\ Attempts \subseteq Nat
  BY <1>5, EndpointIdFacts DEF Unclaimed
<1>8. \A b \in Attempts :
          attempt'[b] = IF b = a THEN j
                        ELSE IF attempt[b].status = "overdue" THEN [attempt[b] EXCEPT !.status = "expired"]
                        ELSE attempt[b]
  BY <1>4 DEF ExpireStale
<1>9. \A b \in Attempts : attempt[b] \in AttemptRow
  BY <1>1 DEF EndpointsTypeOK
<1>10. \A b \in Attempts :
          /\ attempt'[b] \in AttemptRow
          /\ b = a => attempt'[b] = j
          /\ b # a => /\ attempt'[b].endpoint = attempt[b].endpoint
                      /\ attempt'[b].status \notin {"claimed", "overdue"}
                      /\ attempt'[b].status = "none" <=> attempt[b].status = "none"
          /\ attempt[b].status = "succeeded" => attempt'[b] = attempt[b]
  <2> SUFFICES ASSUME NEW b \in Attempts
               PROVE  /\ attempt'[b] \in AttemptRow
                      /\ b = a => attempt'[b] = j
                      /\ b # a => /\ attempt'[b].endpoint = attempt[b].endpoint
                                  /\ attempt'[b].status \notin {"claimed", "overdue"}
                                  /\ attempt'[b].status = "none" <=> attempt[b].status = "none"
                      /\ attempt[b].status = "succeeded" => attempt'[b] = attempt[b]
    OBVIOUS
  <2>1. CASE b = a
    BY <1>6, <1>7, <1>8, <2>1
  <2>2. CASE b # a /\ attempt[b].status = "overdue"
    <3>1. attempt'[b] = [attempt[b] EXCEPT !.status = "expired"]
      BY <1>8, <2>2
    <3> QED BY <1>9, <2>2, <3>1 DEF AttemptRow, AttemptStates
  <2>3. CASE b # a /\ attempt[b].status # "overdue"
    BY <1>4, <1>8, <1>9, <2>3
  <2> QED BY <2>1, <2>2, <2>3
<1>11. attempt' \in [Attempts -> AttemptRow] /\ running' \in SUBSET Attempts
  BY <1>1, <1>4, <1>7, <1>10 DEF ExpireStale, EndpointsTypeOK
<1>12. EndpointIds' = EndpointIds /\ Attempts' = Attempts
  BY DEF EndpointIds, Attempts
<1>13. \A b \in Attempts : b < a => attempt[b].status # "none"
  BY <1>5, <1>7 DEF Unclaimed
<1>14. \A b \in Attempts : attempt[b].status # "none" => b < a
  BY <1>1, <1>7 DEF AttemptsMade
<1>15. AttemptsMade'
  <2>1. ASSUME NEW b \in Attempts, NEW c \in Attempts, attempt'[c].status # "none", b < c
        PROVE  attempt'[b].status # "none"
    <3>1. CASE c = a
      BY <1>10, <1>13, <2>1, <3>1, <1>7
    <3>2. CASE c # a
      <4>1. attempt[b].status # "none"
        BY <1>1, <1>10, <2>1, <3>2 DEF AttemptsMade
      <4> QED BY <1>6, <1>10, <4>1
    <3> QED BY <3>1, <3>2
  <2>2. \A b, c \in Attempts : attempt'[b].status = "claimed" /\ attempt'[c].status = "claimed" => b = c
    BY <1>10
  <2>3. ASSUME NEW b \in Attempts, attempt'[b].status # "none"
        PROVE  attempt'[b].endpoint \in EndpointIds /\ Stored(attempt[b].endpoint)'
    BY <1>1, <1>4, <1>6, <1>10, <2>3 DEF AttemptsMade, Stored
  <2>4. ASSUME NEW b \in Attempts, attempt'[b].status \in {"claimed", "overdue"}, attempt'[b].phase = "protocol"
        PROVE  \E t \in Attempts : t < b /\ Reached(t, attempt[b].endpoint)'
    <3>1. b = a /\ attempt'[b] = j /\ phase = "protocol"
      BY <1>6, <1>10, <2>4
    <3>2. PICK t \in Attempts : Reached(t, e)
      BY <1>6, <3>1
    <3>3. t < a /\ attempt'[t] = attempt[t]
      BY <1>10, <1>14, <3>2 DEF Reached
    <3>4. Reached(t, attempt[b].endpoint)'
      BY <1>4, <1>6, <3>1, <3>2, <3>3 DEF Reached
    <3> QED BY <3>1, <3>3, <3>4
  <2> QED BY <1>12, <2>1, <2>2, <2>3, <2>4 DEF AttemptsMade, Pending
<1>16. VerifiedHasEvidence'
  <2> SUFFICES ASSUME NEW x \in EndpointIds, verification[x] = "verified" PROVE Evidenced(x)'
    BY <1>4, <1>12 DEF VerifiedHasEvidence
  <2>1. Evidenced(x) /\ Current(x)
    BY <1>1 DEF VerifiedHasEvidence, Evidenced
  <2>2. Current(x)'
    BY <1>4, <2>1 DEF Current, Stored
  <2> QED BY <1>4, <1>10, <2>1, <2>2, EvidenceKept
<1> QED BY <1>1, <1>4, <1>11, <1>15, <1>16, ProbesMove DEF EndpointsTypeOK

\* An attempt that changes its status, and nothing else, keeps what attempts rest on.
LEMMA StatusMoves ==
    ASSUME EndpointsInv, NEW a \in Attempts, NEW s \in AttemptStates \ {"none"},
           attempt[a].status \notin {"none", "succeeded"} \/ s = attempt[a].status,
           s = "claimed" => attempt[a].status = "claimed",
           s = "overdue" => Pending(a),
           attempt' = [attempt EXCEPT ![a].status = s], UNCHANGED candidate
    PROVE  /\ attempt' \in [Attempts -> AttemptRow] /\ AttemptsMade'
           /\ \A b \in Attempts : attempt[b].status = "succeeded" => attempt'[b] = attempt[b]
           /\ \A b \in Attempts \ {a} : attempt'[b] = attempt[b]
           /\ attempt'[a].phase = attempt[a].phase /\ attempt'[a].endpoint = attempt[a].endpoint
           /\ attempt'[a].generation = attempt[a].generation /\ attempt'[a].canary = attempt[a].canary
           /\ attempt'[a].status = s
<1>1. EndpointsTypeOK /\ AttemptsMade /\ attempt \in [Attempts -> AttemptRow]
  BY DEF EndpointsInv, EndpointsTypeOK
<1>2. attempt'[a] = [attempt[a] EXCEPT !.status = s] /\ attempt[a] \in AttemptRow
  BY <1>1
<1>3. /\ attempt'[a] \in AttemptRow
      /\ attempt'[a].phase = attempt[a].phase /\ attempt'[a].endpoint = attempt[a].endpoint
      /\ attempt'[a].generation = attempt[a].generation /\ attempt'[a].canary = attempt[a].canary
      /\ attempt'[a].status = s
  BY <1>2 DEF AttemptRow
<1>4. \A b \in Attempts \ {a} : attempt'[b] = attempt[b]
  BY <1>1
<1>5. attempt' \in [Attempts -> AttemptRow]
  BY <1>1, <1>3, <1>4
<1>6. s = attempt[a].status => attempt'[a] = attempt[a]
  BY <1>2 DEF AttemptRow
<1>7. \A b \in Attempts : attempt[b].status = "succeeded" => attempt'[b] = attempt[b]
  BY <1>4, <1>6
<1>8. \A b \in Attempts : /\ attempt'[b].status = "none" <=> attempt[b].status = "none"
                          /\ attempt'[b].status = "claimed" => attempt[b].status = "claimed"
                          /\ attempt'[b].status \in {"claimed", "overdue"} => Pending(b)
                          /\ attempt'[b].phase = attempt[b].phase
                          /\ attempt'[b].endpoint = attempt[b].endpoint
  BY <1>3, <1>4 DEF Pending
<1>9. EndpointIds' = EndpointIds /\ Attempts' = Attempts
  BY DEF EndpointIds, Attempts
<1>10. AttemptsMade'
  <2>1. \A b, c \in Attempts : attempt'[c].status # "none" /\ b < c => attempt'[b].status # "none"
    BY <1>1, <1>8 DEF AttemptsMade
  <2>2. \A b, c \in Attempts : attempt'[b].status = "claimed" /\ attempt'[c].status = "claimed" => b = c
    BY <1>1, <1>8 DEF AttemptsMade
  <2>3. ASSUME NEW b \in Attempts, attempt'[b].status # "none"
        PROVE  attempt'[b].endpoint \in EndpointIds /\ Stored(attempt[b].endpoint)'
    BY <1>1, <1>8, <2>3 DEF AttemptsMade, Stored
  <2>4. ASSUME NEW b \in Attempts, attempt'[b].status \in {"claimed", "overdue"}, attempt'[b].phase = "protocol"
        PROVE  \E t \in Attempts : t < b /\ Reached(t, attempt[b].endpoint)'
    <3>1. PICK t \in Attempts : t < b /\ Reached(t, attempt[b].endpoint)
      BY <1>1, <1>8, <2>4 DEF AttemptsMade
    <3>2. attempt'[t] = attempt[t] /\ attempt'[b].endpoint = attempt[b].endpoint
      BY <1>7, <1>8, <3>1 DEF Reached
    <3> QED BY <3>1, <3>2 DEF Reached
  <2> QED BY <1>9, <2>1, <2>2, <2>3, <2>4 DEF AttemptsMade, Pending
<1> QED BY <1>3, <1>4, <1>5, <1>7, <1>10

\* Without a verification, a step that leaves successful attempts alone leaves the evidence.
LEMMA EvidenceStays ==
    ASSUME EndpointsInv, UNCHANGED <<snapshots, canary, candidate>>,
           \A a \in Attempts : attempt[a].status = "succeeded" => attempt'[a] = attempt[a],
           \A e \in EndpointIds : verification'[e] = "verified" => verification[e] = "verified"
    PROVE  VerifiedHasEvidence'
<1> SUFFICES ASSUME NEW e \in EndpointIds, verification'[e] = "verified" PROVE Evidenced(e)'
  BY DEF VerifiedHasEvidence, EndpointIds
<1>1. Evidenced(e) /\ Current(e)
  BY DEF EndpointsInv, VerifiedHasEvidence, Evidenced
<1>2. Current(e)'
  BY <1>1 DEF Current, Stored
<1> QED BY <1>1, <1>2, EvidenceKept

LEMMA ResultsAre == \A phase : Results(phase) \subseteq {"succeeded", "failed"}
  BY DEF Results, RemoteResults, LocalResults, CanaryResults

LEMMA CompleteHolds ==
    ASSUME EndpointsInv, NEW a \in Attempts, NEW result \in Results(attempt[a].phase), Complete(a, result)
    PROVE  EndpointsInv'
<1>1. EndpointsTypeOK /\ AttemptsMade /\ VerifiedHasEvidence /\ CandidatesStored
  BY DEF EndpointsInv
<1>2. PICK s : s = Outcome(attempt[a], result)
  OBVIOUS
<1>3. /\ running' \in SUBSET Attempts /\ attempt' = [attempt EXCEPT ![a].status = s]
      /\ verification' = IF attempt[a].phase = "protocol" /\ attempt[a].status = "claimed" /\ s = result
                         THEN VerificationBy(attempt[a].endpoint, result) ELSE verification
      /\ UNCHANGED <<snapshots, canary, host, heartbeats, row, candidate>>
  BY <1>1, <1>2 DEF Complete, EndpointsTypeOK
<1>4. result \in {"succeeded", "failed"} /\ attempt \in [Attempts -> AttemptRow]
      /\ verification \in [EndpointIds -> Verifications]
  BY <1>1, ResultsAre DEF EndpointsTypeOK
<1>5. CASE ~ Pending(a)
  <2>1. s = attempt[a].status /\ verification' = verification
    BY <1>2, <1>3, <1>5 DEF Outcome, Pending
  <2>2. [attempt[a] EXCEPT !.status = attempt[a].status] = attempt[a]
    BY <1>4 DEF AttemptRow
  <2>3. attempt' = attempt
    BY <1>3, <1>4, <2>1, <2>2
  <2>4. AttemptsMade' /\ VerifiedHasEvidence'
    <3>1. AttemptsMade' <=> AttemptsMade
      <4>1. candidate' = candidate
        BY <1>3
      <4> QED BY <2>3, <4>1, Zenon DEF AttemptsMade, Pending, Reached, Stored, EndpointIds, Attempts
    <3> QED BY <1>1, <1>3, <2>1, <2>3, <3>1, EvidenceStays
  <2> QED BY <1>3, <1>4, <2>1, <2>3, <2>4, ProbesMove
<1>6. CASE Pending(a)
  <2>1. /\ s \in {"expired", "cancelled", result}
        /\ attempt[a].status = "claimed" /\ s = result =>
               CandidateIsCurrent(attempt[a]) /\ CredentialIsCurrent(attempt[a])
        /\ attempt[a].status # "claimed" => s = "expired"
    BY <1>2, <1>4, <1>6 DEF Outcome, Pending
  <2>2. s \in AttemptStates \ {"none"} /\ s # "claimed" /\ s # "overdue"
        /\ attempt[a].status \notin {"none", "succeeded"}
    BY <1>4, <1>6, <2>1 DEF AttemptStates, Pending
  <2>3. /\ attempt' \in [Attempts -> AttemptRow] /\ AttemptsMade'
        /\ \A b \in Attempts : attempt[b].status = "succeeded" => attempt'[b] = attempt[b]
        /\ attempt'[a].phase = attempt[a].phase /\ attempt'[a].endpoint = attempt[a].endpoint
        /\ attempt'[a].generation = attempt[a].generation /\ attempt'[a].canary = attempt[a].canary
        /\ attempt'[a].status = s
    BY <1>3, <2>2, StatusMoves
  <2>4. CASE verification' = verification
    <3>1. VerifiedHasEvidence'
      BY <1>3, <2>3, <2>4, EvidenceStays
    <3> QED BY <1>3, <1>4, <2>3, <2>4, <3>1, ProbesMove
  <2>5. CASE verification' # verification
    <3>1. /\ attempt[a].phase = "protocol" /\ attempt[a].status = "claimed" /\ s = result
          /\ verification' = VerificationBy(attempt[a].endpoint, result)
      BY <1>3, <2>5
    <3>2. PICK e : e = attempt[a].endpoint
      OBVIOUS
    <3>3. /\ e \in EndpointIds /\ Stored(e) /\ \E t \in Attempts : t < a /\ Reached(t, e)
      BY <1>1, <1>6, <3>1, <3>2 DEF AttemptsMade, Pending
    <3>4. /\ Current(e) /\ candidate[e].reported = attempt[a].generation
          /\ snapshots[e[1]] = canary /\ attempt[a].canary = canary
      BY <2>1, <3>1, <3>2 DEF CandidateIsCurrent, MayProbe, CredentialIsCurrent
    <3>5. verification' = [verification EXCEPT ![e] = IF result = "succeeded" THEN "verified" ELSE "failed"]
      BY <3>1, <3>2 DEF VerificationBy
    <3>6. /\ verification' \in [EndpointIds -> Verifications]
          /\ verification'[e] \in {"verified", "failed"}
          /\ \A x \in EndpointIds \ {e} : verification'[x] = verification[x]
          /\ verification'[e] = "verified" => result = "succeeded"
      BY <1>4, <3>3, <3>5 DEF Verifications
    <3>7. verification[e] # "withdrawn"
      BY <1>1, <3>3, <3>4 DEF CandidatesStored
    <3>8. ASSUME NEW x \in EndpointIds, verification'[x] = "verified" PROVE Evidenced(x)'
      <4>1. CASE x # e
        <5>1. Evidenced(x) /\ Current(x)
          BY <1>1, <3>6, <3>8, <4>1 DEF VerifiedHasEvidence, Evidenced
        <5>2. Current(x)'
          BY <1>3, <5>1 DEF Current, Stored
        <5> QED BY <1>3, <2>3, <5>1, <5>2, EvidenceKept
      <4>2. CASE x = e
        <5>1. PICK t \in Attempts : t < a /\ Reached(t, e)
          BY <3>3
        <5>2. attempt'[t] = attempt[t]
          BY <2>3, <5>1 DEF Reached
        <5>3. Reached(t, e)'
          BY <1>3, <5>1, <5>2 DEF Reached
        <5>4. candidate[e].reported \in Nat /\ candidate[e].since \in Nat /\ candidate[e].since <= candidate[e].reported
          BY <1>1, <3>3 DEF CandidatesStored, EndpointsTypeOK, CandidateRow
        <5>5. attempt'[a].generation >= candidate'[e].since
          BY <1>3, <2>3, <3>4, <5>4
        <5>6. /\ attempt'[a].phase = "protocol" /\ attempt'[a].status = "succeeded"
              /\ attempt'[a].endpoint = e /\ attempt'[a].canary = canary'
          BY <1>3, <2>3, <3>1, <3>2, <3>4, <3>6, <3>8, <4>2
        <5>7. /\ Current(e)' /\ snapshots'[e[1]] = canary'
          BY <1>3, <3>4 DEF Current, Stored
        <5>8. t \in Attempts' /\ a \in Attempts'
          BY DEF Attempts
        <5> QED BY <4>2, <5>1, <5>3, <5>5, <5>6, <5>7, <5>8 DEF Evidenced, Succeeded, Reached
      <4> QED BY <4>1, <4>2
    <3>9. VerifiedHasEvidence'
      BY <3>8 DEF VerifiedHasEvidence, EndpointIds
    <3>10. /\ \A x \in EndpointIds : Stored(x) => (verification'[x] = "withdrawn" <=> verification[x] = "withdrawn")
           /\ \A x \in EndpointIds : ~ Stored(x) => verification'[x] = verification[x]
      BY <3>3, <3>6, <3>7
    <3> QED BY <1>3, <2>3, <3>6, <3>9, <3>10, ProbesMove
  <2> QED BY <2>4, <2>5
<1> QED BY <1>5, <1>6

LEMMA LapsesHold ==
    ASSUME EndpointsInv
    PROVE  /\ \A a \in Attempts : RunnerDies(a) \/ ClaimLapses(a) => EndpointsInv'
           /\ \A e \in EndpointIds : VerificationLapses(e) => EndpointsInv'
<1>1. /\ EndpointsTypeOK /\ AttemptsMade /\ CandidatesStored /\ VerifiedHasEvidence
      /\ attempt \in [Attempts -> AttemptRow] /\ running \in SUBSET Attempts
      /\ verification \in [EndpointIds -> Verifications]
  BY DEF EndpointsInv, EndpointsTypeOK
<1>2. UNCHANGED <<candidate, attempt>> => AttemptsMade'
  BY <1>1 DEF AttemptsMade, Pending, Reached, Stored, EndpointIds, Attempts
<1>3. ASSUME NEW a \in Attempts, RunnerDies(a) PROVE EndpointsInv'
  <2>1. /\ running' \in SUBSET Attempts
        /\ UNCHANGED <<snapshots, canary, host, heartbeats, row, candidate, verification, attempt>>
    BY <1>1, <1>3 DEF RunnerDies
  <2>2. VerifiedHasEvidence'
    BY <2>1, EvidenceStays
  <2> QED BY <1>1, <1>2, <2>1, <2>2, ProbesMove
<1>4. ASSUME NEW a \in Attempts, ClaimLapses(a) PROVE EndpointsInv'
  <2>1. /\ attempt[a].status = "claimed" /\ attempt' = [attempt EXCEPT ![a].status = "overdue"]
        /\ UNCHANGED <<snapshots, canary, host, heartbeats, row, candidate, verification, running>>
    BY <1>4 DEF ClaimLapses
  <2>2. /\ attempt' \in [Attempts -> AttemptRow] /\ AttemptsMade'
        /\ \A b \in Attempts : attempt[b].status = "succeeded" => attempt'[b] = attempt[b]
    BY <2>1, StatusMoves DEF AttemptStates, Pending
  <2>3. VerifiedHasEvidence'
    BY <2>1, <2>2, EvidenceStays
  <2> QED BY <1>1, <2>1, <2>2, <2>3, ProbesMove
<1>5. ASSUME NEW e \in EndpointIds, VerificationLapses(e) PROVE EndpointsInv'
  <2>1. /\ verification[e] = "verified" /\ verification' = [verification EXCEPT ![e] = "lapsed"]
        /\ UNCHANGED <<snapshots, canary, host, heartbeats, row, candidate, attempt, running>>
    BY <1>5 DEF VerificationLapses
  <2>2. Stored(e)
    BY <1>1, <2>1 DEF VerifiedHasEvidence, Evidenced, Current
  <2>3. /\ verification' \in [EndpointIds -> Verifications]
        /\ \A x \in EndpointIds : verification'[x] = IF x = e THEN "lapsed" ELSE verification[x]
    BY <1>1, <2>1 DEF Verifications
  <2>4. VerifiedHasEvidence'
    BY <2>1, <2>3, EvidenceStays
  <2> QED BY <1>1, <1>2, <2>1, <2>2, <2>3, <2>4, ProbesMove
<1> QED BY <1>3, <1>4, <1>5

\* A rotation leaves nothing verified.
LEMMA RotateCanaryHolds == ASSUME EndpointsInv, RotateCanary PROVE EndpointsInv'
<1>1. /\ EndpointsTypeOK /\ HeartbeatsSent /\ NewestIsStored /\ CandidatesStored /\ AttemptsMade
      /\ VerifiedHasEvidence
  BY DEF EndpointsInv
<1>2. /\ canary' = canary + 1 /\ snapshots' = Append(snapshots, canary + 1) /\ Len(snapshots) < MaxRevision
      /\ verification' = [e \in EndpointIds |->
             IF Stored(e) /\ verification[e] # "withdrawn" THEN "pending" ELSE verification[e]]
      /\ UNCHANGED <<host, heartbeats, row, candidate, attempt, running>>
  BY DEF RotateCanary
<1>3. canary' \in Nat /\ canary' # 0 /\ canary + 1 \in Nat
  BY <1>1, <1>2 DEF EndpointsTypeOK
<1>4. /\ snapshots' \in Seq(Nat) /\ Len(snapshots') = Len(snapshots) + 1 /\ Len(snapshots) \in Nat
  BY <1>1, <1>2, <1>3 DEF EndpointsTypeOK
<1>5. EndpointIds' = EndpointIds /\ Attempts' = Attempts
  BY DEF EndpointIds, Attempts
<1>6. /\ verification' \in [EndpointIds -> Verifications]
      /\ \A e \in EndpointIds : verification'[e] =
             IF Stored(e) /\ verification[e] # "withdrawn" THEN "pending" ELSE verification[e]
  BY <1>1, <1>2 DEF EndpointsTypeOK, Verifications
<1>7. EndpointsTypeOK'
  <2>1. Len(snapshots') <= MaxRevision /\ host.applied <= Len(snapshots')
    BY <1>1, <1>2, <1>4, EndpointIdFacts DEF EndpointsTypeOK
  <2> QED BY <1>1, <1>2, <1>3, <1>4, <1>6, <2>1
          DEF EndpointsTypeOK, EndpointIds, Attempts, CandidateRow, AttemptRow, Verifications
<1>8. HeartbeatsSent'
  <2> SUFFICES ASSUME NEW h \in heartbeats, NEW e \in h.offered PROVE e \in EndpointIds /\ e[1] <= Len(snapshots')
    BY <1>1, <1>2, <1>5 DEF HeartbeatsSent
  <2>1. e \in EndpointIds /\ e[1] <= Len(snapshots)
    BY <1>1 DEF HeartbeatsSent
  <2> QED BY <1>4, <2>1, EndpointIdFacts
<1>9. NewestIsStored'
  BY <1>1, <1>2 DEF NewestIsStored, Current, Stored, EndpointIds
<1>10. CandidatesStored'
  <2> SUFFICES ASSUME NEW e \in EndpointIds
               PROVE  /\ Stored(e) => e[1] <= Len(snapshots')
                      /\ candidate[e].since <= candidate[e].reported
                      /\ candidate[e].reported <= row.generation
                      /\ verification'[e] = "withdrawn" <=> Stored(e) /\ ~ Current(e)
    BY <1>2, <1>5 DEF CandidatesStored, Stored, Current
  <2>1. /\ Stored(e) => e[1] <= Len(snapshots)
        /\ candidate[e].since <= candidate[e].reported
        /\ candidate[e].reported <= row.generation
        /\ verification[e] = "withdrawn" <=> Stored(e) /\ ~ Current(e)
    BY <1>1 DEF CandidatesStored
  <2>2. Stored(e) => e[1] <= Len(snapshots')
    BY <1>4, <2>1, EndpointIdFacts
  <2> QED BY <1>6, <2>1, <2>2
<1>11. AttemptsMade'
  BY <1>1, <1>2 DEF AttemptsMade, Pending, Reached, Stored, EndpointIds, Attempts
<1>12. \A e \in EndpointIds : verification'[e] # "verified"
  <2> SUFFICES ASSUME NEW e \in EndpointIds, verification'[e] = "verified" PROVE FALSE
    OBVIOUS
  <2>1. verification[e] = "verified" /\ ~ Stored(e)
    BY <1>6
  <2> QED BY <1>1, <2>1 DEF VerifiedHasEvidence, Evidenced, Current
<1>13. VerifiedHasEvidence'
  BY <1>5, <1>12 DEF VerifiedHasEvidence
<1> QED BY <1>7, <1>8, <1>9, <1>10, <1>11, <1>13 DEF EndpointsInv

LEMMA EndpointsStep == EndpointsInv /\ [EndpointsNext]_endpointVars => EndpointsInv'
<1> SUFFICES ASSUME EndpointsInv, [EndpointsNext]_endpointVars PROVE EndpointsInv'
  OBVIOUS
<1>1. CASE UNCHANGED endpointVars
  BY <1>1 DEF endpointVars, EndpointsInv, EndpointsTypeOK, HeartbeatsSent, NewestIsStored, CandidatesStored,
              AttemptsMade, VerifiedHasEvidence, Evidenced, Succeeded, Current, Stored, Pending, Reached,
              EndpointIds, Attempts, AttemptRow, CandidateRow
<1>2. CASE EndpointsNext
  BY <1>2, PublishForNodeHolds, RotateCanaryHolds, NodeReportsHold, SendHeartbeatHolds, StoreHeartbeatHolds,
     ClaimHolds, CompleteHolds, LapsesHold DEF EndpointsNext
<1> QED BY <1>1, <1>2

LEMMA EndpointsFollow == EndpointsInv => EndpointsAreTrue
<1> SUFFICES ASSUME EndpointsInv PROVE EndpointsAreTrue
  OBVIOUS
<1>1. /\ EndpointsTypeOK /\ NewestIsStored /\ CandidatesStored /\ AttemptsMade /\ VerifiedHasEvidence
  BY DEF EndpointsInv
<1>2. ASSUME NEW e \in EndpointIds, Readiness(e) = "verified" PROVE Evidenced(e)
  <2>1. verification[e] = "verified"
    BY <1>2 DEF Readiness
  <2> QED BY <1>1, <2>1 DEF VerifiedHasEvidence
<1>3. ASSUME Onboarding = "ready" PROVE \E r \in Routes : Evidenced(<<Len(snapshots), r>>)
  <2>1. PICK e \in EndpointIds : /\ Current(e) /\ e[1] = row.applied /\ verification[e] = "verified"
                                 /\ row.applied = Len(snapshots)
    BY <1>3 DEF Onboarding
  <2>2. e = <<Len(snapshots), e[2]>> /\ e[2] \in Routes
    BY <2>1, EndpointIdFacts
  <2>3. Evidenced(e)
    BY <1>1, <2>1 DEF VerifiedHasEvidence
  <2> QED BY <2>2, <2>3
<1>4. Cardinality({a \in Attempts : attempt[a].status = "claimed"}) <= 1
  <2> DEFINE S == {a \in Attempts : attempt[a].status = "claimed"}
  <2>1. CASE S = {}
    BY <2>1, FS_EmptySet
  <2>2. CASE S # {}
    <3>1. PICK a \in S : TRUE
      BY <2>2
    <3>2. S = {a}
      BY <1>1, <3>1 DEF AttemptsMade
    <3>3. Cardinality(S) = 1
      BY <3>2, FS_Singleton
    <3> QED BY <3>3
  <2> QED BY <2>1, <2>2
<1>5. StoredIsNewest
  BY <1>1, <1>4 DEF StoredIsNewest, NewestIsStored, CandidatesStored
<1> QED BY <1>2, <1>3, <1>5 DEF EndpointsAreTrue, VerifiedIsEvidenced

\* Whatever order heartbeats arrive in and however late probes answer, an endpoint that is
\* called verified was reached with the active canary since it was last offered, and a node
\* called ready was reached on its newest revision: for every number of routes, revisions,
\* heartbeats and attempts (record_heartbeat, complete_protocol_canary, rotate_protocol_canary).
THEOREM EndpointsTrue == EndpointsSpec => []EndpointsAreTrue
<1>1. EndpointsInit => EndpointsInv
  <2> SUFFICES ASSUME EndpointsInit PROVE EndpointsInv
    OBVIOUS
  <2>1. /\ snapshots = <<>> /\ canary = 0 /\ heartbeats = {} /\ running = {}
        /\ host = [applied |-> 0, generation |-> 0]
        /\ row = [generation |-> 0, applied |-> 0, state |-> "starting"]
        /\ candidate = [e \in EndpointIds |-> NoCandidate]
        /\ verification = [e \in EndpointIds |-> "none"]
        /\ attempt = [a \in Attempts |-> NoAttempt]
    BY DEF EndpointsInit, EmptyEndpointTables
  <2>2. /\ NoCandidate \in CandidateRow /\ NoCandidate.reported = 0 /\ NoCandidate.since = 0
        /\ NoAttempt \in AttemptRow /\ NoAttempt.status = "none" /\ "none" \in Verifications
    BY DEF NoCandidate, CandidateRow, NoAttempt, AttemptRow, AttemptStates, Verifications
  <2>3. EndpointsTypeOK
    BY <2>1, <2>2, EndpointIdFacts DEF EndpointsTypeOK
  <2>4. HeartbeatsSent /\ NewestIsStored
    BY <2>1 DEF HeartbeatsSent, NewestIsStored
  <2>5. CandidatesStored
    BY <2>1, <2>2 DEF CandidatesStored, Stored, Current
  <2>6. AttemptsMade /\ VerifiedHasEvidence
    BY <2>1, <2>2 DEF AttemptsMade, VerifiedHasEvidence, Pending
  <2> QED BY <2>3, <2>4, <2>5, <2>6 DEF EndpointsInv
<1> QED BY <1>1, EndpointsStep, EndpointsFollow, PTL DEF EndpointsSpec

=============================================================================
