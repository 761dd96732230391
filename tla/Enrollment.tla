------------------------------ MODULE Enrollment ------------------------------
(***************************************************************************)
(* How a Node Host becomes a node: an administrator issues a one-time      *)
(* invitation, a host joins with it, and both ends keep a record           *)
(* (create_node_invitation and enroll_node of control-server/src/db.rs,    *)
(* node-host/src/enrollment.rs and bootstrap.rs).  A code may be typed     *)
(* into several machines; requests may be late, answers lost, and a host   *)
(* may die anywhere in between and try again.                              *)
(***************************************************************************)
EXTENDS Naturals, Sequences, FiniteSets

CONSTANTS
    Machines,     \* installations of the Node Host
    Codes,        \* invitations an administrator may issue, by idempotency key
    MaxNode,      \* bound: rows of nodes
    MaxStamp,     \* bound: the seconds at which an owner accepts the consent
    MaxIdentity,  \* bound: identities an installation has, one per pairing
    MaxOverdue    \* bound: requests that are on their way although their sender gave up

ASSUME EnrollmentAssumption ==
    /\ IsFiniteSet(Machines) /\ IsFiniteSet(Codes)
    /\ {MaxNode, MaxStamp, MaxIdentity} \subseteq Nat \ {0}
    /\ MaxOverdue \in Nat

VARIABLES
    invitation,  \* node_invitations
    delivered,   \* invitations whose answer reached the administrator
    nodeRows,    \* nodes and node_auth_credentials, in the order of enrollment
    install,     \* each machine's durable state
    join,        \* each machine's join_invitation in progress
    overdue      \* requests whose sender gave up

enrollmentVars == <<invitation, delivered, nodeRows, install, join, overdue>>

NotIssued == [issued |-> FALSE, automatic |-> FALSE, expired |-> FALSE, node |-> 0]
NoReceipt == [code |-> "none", mapping |-> FALSE, stamp |-> 0]
NotInstalled(generation) ==
    [identity |-> 0, pairings |-> generation, xray |-> FALSE, mapping |-> FALSE,
     receipt |-> NoReceipt, node |-> 0]
NoJoin == [at |-> "idle", request |-> {}, node |-> 0]

NodeIds == 1 .. Len(nodeRows)

-----------------------------------------------------------------------------
(* The administrator *)

\* The secret is derived from the key and the request, so a retry is answered from the
\* row; the same key with another request is refused.
LoadNodeInvitationReplay(c, automatic) ==
    /\ invitation[c].automatic = automatic
    /\ c \notin delivered
    /\ delivered' = delivered \cup {c}
    /\ UNCHANGED invitation

\* The answer with the code reaches the administrator, or is lost.
DeliverInvitation(c) == delivered' \in {delivered, delivered \cup {c}}

CreateNodeInvitation(c, automatic) ==
    /\ IF invitation[c].issued
         THEN LoadNodeInvitationReplay(c, automatic)
         ELSE /\ invitation' = [invitation EXCEPT ![c].issued = TRUE, ![c].automatic = automatic]
              /\ DeliverInvitation(c)
    /\ UNCHANGED <<nodeRows, install, join, overdue>>

InvitationExpires(c) ==
    /\ invitation[c].issued /\ ~ invitation[c].expired
    /\ invitation' = [invitation EXCEPT ![c].expired = TRUE]
    /\ UNCHANGED <<delivered, nodeRows, install, join, overdue>>

RevokeEnrolled(n) ==
    /\ nodeRows[n].status # "revoked"
    /\ nodeRows' = [nodeRows EXCEPT ![n].status = "revoked"]
    /\ UNCHANGED <<invitation, delivered, install, join, overdue>>

-----------------------------------------------------------------------------
(* The machine: every command holds the data directory's lock *)

Unlocked(h) == join[h].at = "idle"

\* Seeds that are bound to the database are only ever loaded again.
LoadOrCreateIdentity(i) ==
    IF i.identity # 0 THEN i ELSE [i EXCEPT !.identity = i.pairings + 1, !.pairings = @ + 1]

Initialize(h) ==
    /\ Unlocked(h)
    /\ install[h].identity = 0 /\ install[h].pairings < MaxIdentity
    /\ install' = [install EXCEPT ![h] = LoadOrCreateIdentity(@)]
    /\ UNCHANGED <<invitation, delivered, nodeRows, join, overdue>>

\* The REALITY seed is made with the first runtime and never changes.
ConfigureXray(h) ==
    /\ Unlocked(h)
    /\ install[h].identity # 0 /\ ~ install[h].xray
    /\ install' = [install EXCEPT ![h].xray = TRUE]
    /\ UNCHANGED <<invitation, delivered, nodeRows, join, overdue>>

ConfigureBootstrapPolicy(h, enabled) ==
    /\ Unlocked(h)
    /\ install[h].identity # 0 /\ install[h].mapping # enabled
    /\ install' = [install EXCEPT ![h].mapping = enabled]
    /\ UNCHANGED <<invitation, delivered, nodeRows, join, overdue>>

\* The consent is written down before the first request and used again by every retry.
Receipts(i, c) ==
    IF i.receipt.code = c
      THEN IF i.receipt.mapping = i.mapping THEN {i.receipt} ELSE {}
      ELSE {[code |-> c, mapping |-> i.mapping, stamp |-> s] :
               s \in (IF i.receipt.stamp = 0 THEN 1 ELSE i.receipt.stamp) .. MaxStamp}

EnrollmentRequest(h, i, receipt) ==
    [machine |-> h, identity |-> i.identity, xray |-> i.xray, receipt |-> receipt]

JoinInvitation(h, c) ==
    /\ Unlocked(h) /\ c \in delivered
    /\ install[h].identity # 0 \/ install[h].pairings < MaxIdentity
    /\ install[h].node = 0
    /\ LET i == LoadOrCreateIdentity(install[h]) IN
         \E receipt \in Receipts(i, c) :
            /\ install' = [install EXCEPT ![h] = [i EXCEPT !.receipt = receipt]]
            /\ join' = [join EXCEPT ![h] =
                          [at |-> "sent", request |-> {EnrollmentRequest(h, i, receipt)}, node |-> 0]]
    /\ UNCHANGED <<invitation, delivered, nodeRows, overdue>>

\* persist_verified_registration, after the pinned controller's proof over this request.
PersistVerifiedRegistration(h) ==
    /\ join[h].at = "accepted"
    /\ install' = [install EXCEPT ![h].node = join[h].node]
    /\ join' = [join EXCEPT ![h] = NoJoin]
    /\ UNCHANGED <<invitation, delivered, nodeRows, overdue>>

\* The answer is lost, late or a refusal, or the process dies.
JoinFails(h) ==
    /\ ~ Unlocked(h)
    /\ join' = [join EXCEPT ![h] = NoJoin]
    /\ overdue' \in {overdue} \cup
         (IF join[h].at = "sent" /\ Cardinality(overdue) < MaxOverdue
            THEN {overdue \cup join[h].request} ELSE {})
    /\ UNCHANGED <<invitation, delivered, nodeRows, install>>

\* uninstall_local: only an enrolled host, and with it the identity.
UninstallLocal(h) ==
    /\ Unlocked(h)
    /\ install[h].node # 0
    /\ install' = [install EXCEPT ![h] = NotInstalled(@.pairings)]
    /\ UNCHANGED <<invitation, delivered, nodeRows, join, overdue>>

-----------------------------------------------------------------------------
(* The Control Service *)

\* Mutant: any request of the machine is taken for the repeated one.
LoadExistingEnrollmentOfMachine(n, q) ==
    /\ nodeRows[n].request.machine = q.machine
    /\ nodeRows[n].status # "revoked"

\* The row repeats every field of the request that names the machine and its consent.
LoadExistingEnrollment(n, q) ==
    /\ nodeRows[n].request = q
    /\ nodeRows[n].status # "revoked"

ValidateInvitationState(v) == v.node = 0 => ~ v.expired

\* The node that answers the request; 0 refuses it.
ValidateEnrollmentAttempt(q) ==
    LET v == invitation[q.receipt.code]
    IN  IF ~ ValidateInvitationState(v) \/ (v.automatic /\ ~ q.xray) THEN 0
        ELSE IF v.node = 0 THEN Len(nodeRows) + 1
        ELSE IF LoadExistingEnrollment(v.node, q) THEN v.node ELSE 0

\* apply_invitation_bootstrap: an automatic invitation approves and publishes at once.
InvitationBootstrap(q) == IF invitation[q.receipt.code].automatic THEN "active" ELSE "pending"

InsertNodeRecords(q) == Append(nodeRows, [request |-> q, status |-> InvitationBootstrap(q)])

ConsumeInvitation(q) ==
    invitation' = [invitation EXCEPT ![q.receipt.code].node = Len(nodeRows) + 1]

EnrollNode(q) ==
    LET n == ValidateEnrollmentAttempt(q)
    IN  IF n = Len(nodeRows) + 1
          THEN /\ Len(nodeRows) < MaxNode
               /\ nodeRows' = InsertNodeRecords(q)
               /\ ConsumeInvitation(q)
          ELSE UNCHANGED <<nodeRows, invitation>>

ServeJoin(h) ==
    /\ join[h].at = "sent"
    /\ \E q \in join[h].request :
         /\ EnrollNode(q)
         /\ LET n == ValidateEnrollmentAttempt(q) IN
              join' = [join EXCEPT ![h] = IF n = 0 THEN NoJoin
                                          ELSE [at |-> "accepted", request |-> {}, node |-> n]]
    /\ UNCHANGED <<delivered, install, overdue>>

\* The request arrives after its sender gave up: nobody hears the answer.
ServeOverdue(q) ==
    /\ EnrollNode(q)
    /\ overdue' = overdue \ {q}
    /\ UNCHANGED <<delivered, install, join>>

-----------------------------------------------------------------------------

\* node_invitations and nodes.
EmptyEnrollmentTables == invitation = [c \in Codes |-> NotIssued] /\ nodeRows = <<>>

EnrollmentInit ==
    /\ EmptyEnrollmentTables
    /\ delivered = {}
    /\ install = [h \in Machines |-> NotInstalled(0)]
    /\ join = [h \in Machines |-> NoJoin]
    /\ overdue = {}

EnrollmentNext ==
    \/ \E c \in Codes, automatic \in BOOLEAN : CreateNodeInvitation(c, automatic)
    \/ \E c \in Codes : InvitationExpires(c)
    \/ \E n \in NodeIds : RevokeEnrolled(n)
    \/ \E h \in Machines : Initialize(h)
    \/ \E h \in Machines : ConfigureXray(h)
    \/ \E h \in Machines, enabled \in BOOLEAN : ConfigureBootstrapPolicy(h, enabled)
    \/ \E h \in Machines, c \in Codes : JoinInvitation(h, c)
    \/ \E h \in Machines : PersistVerifiedRegistration(h)
    \/ \E h \in Machines : JoinFails(h)
    \/ \E h \in Machines : UninstallLocal(h)
    \/ \E h \in Machines : ServeJoin(h)
    \/ \E q \in overdue : ServeOverdue(q)

EnrollmentSpec == EnrollmentInit /\ [][EnrollmentNext]_enrollmentVars

-----------------------------------------------------------------------------

\* A host that holds a registration is the machine its node's row describes: the keys the
\* Control Service encrypts to, the REALITY material it published and the consent on
\* record are this host's, whatever requests were repeated, delayed or sent by another
\* machine with the same code; and no invitation ever made two nodes
\* (load_existing_enrollment, consume_invitation, load_or_create_provider_consent).
EnrolledAsRecorded ==
    /\ \A h \in Machines : install[h].node # 0 =>
         LET q == nodeRows[install[h].node].request
         IN  /\ q.machine = h /\ q.identity = install[h].identity
             /\ q.receipt = install[h].receipt
             /\ q.xray => install[h].xray
    /\ \A m, n \in NodeIds : nodeRows[m].request.receipt.code = nodeRows[n].request.receipt.code => m = n

==============================================================================
