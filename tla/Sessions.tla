------------------------------ MODULE Sessions ------------------------------
(***************************************************************************)
(* A member's device sessions: how the Control Service issues, rotates and *)
(* ends them (control-server/src/db.rs) and how Connect obtains, keeps and *)
(* gives them up (client/src-tauri/src/session.rs, vault.rs), with answers *)
(* that are lost, requests that arrive late, failing vault writes and      *)
(* crashes of Connect.  Every session has a device of its own, so a        *)
(* session number stands for both.  A credential is the pair of its        *)
(* generation and the idempotency key of the rotation that derived it; the *)
(* service derives it again from these (derive_refresh_credentials), and   *)
(* the access token of a generation goes with its refresh credential.      *)
(***************************************************************************)
EXTENDS Naturals, FiniteSets

CONSTANTS
    Setups,        \* device activations that were delivered to the member
    MaxSession,    \* bound: sessions issued
    MaxGeneration, \* bound: rotations of one session
    MaxFresh,      \* bound: keys and device identities Connect draws
    MaxLate,       \* bound: requests Connect gave up on that are still under way
    MaxReset       \* bound: administrative resets

ASSUME SessionsAssumption ==
    /\ IsFiniteSet(Setups) /\ Setups # {} /\ "login" \notin Setups
    /\ MaxSession \in Nat \ {0} /\ MaxGeneration \in Nat \ {0}
    /\ MaxFresh \in Nat /\ MaxLate \in Nat /\ MaxReset \in Nat

VARIABLES
    accountRow, \* users.status and users.credential_version
    sessions,   \* refresh_sessions joined with devices, for the sessions issued so far
    records,    \* refresh_idempotency_records: <<session, source generation, key>>
    created,    \* device_activations and login_idempotency_records: who made which session
    vault,      \* what Connect holds durably
    memory,     \* AccountSessionManager's SessionState
    pc,         \* where the operation that holds the session lock is
    sent,       \* the request or the answer of that operation
    late,       \* requests of abandoned operations that may still arrive
    fresh,      \* keys and identities drawn so far
    discarded   \* history: sessions whose local credentials Connect gave up

serverVars == <<accountRow, sessions, records, created>>
connectVars == <<vault, memory, pc, sent, fresh, discarded>>
sessionsVars == <<accountRow, sessions, records, created, vault, memory, pc, sent, late, fresh, discarded>>

Ids == 1 .. MaxSession
Fresh == 1 .. MaxFresh
Credentials == (0 .. MaxGeneration) \X (0 .. MaxFresh)
Operations == Setups \cup {"login"}
None == [none |-> TRUE]

NoCredential == <<0, MaxFresh + 1>>

-----------------------------------------------------------------------------
(* The Control Service *)

\* What authenticate_member, member_profile_bundle and refresh_member_session require.
Live(s) ==
    /\ s \in DOMAIN sessions
    /\ sessions[s].ended = "no"
    /\ accountRow.status = "active" /\ sessions[s].version = accountRow.version

\* Whether the access token of credential t opens session s.
Authenticates(s, t) == Live(s) /\ t = sessions[s].current

\* The answer that carries credential t of session s, or the refusal.
Granted(s, t) == [kind |-> "granted", session |-> s, credential |-> t]
Refused == [kind |-> "refused"]

\* What the service may answer: a credential it grants derives from the request's own key.
Answers(q) ==
    {Refused, [kind |-> "done"]}
      \cup {Granted(s, <<g, IF q.kind = "refresh" THEN q.key ELSE 0>>) :
                s \in Ids, g \in 0 .. MaxGeneration}

\* insert_device and issue_initial_session.
IssueInitialSession(s) ==
    sessions' = [i \in DOMAIN sessions \cup {s} |->
        IF i = s THEN [generation |-> 0, current |-> <<0, 0>>, previous |-> NoCredential,
                       version |-> accountRow.version, ended |-> "no"]
                 ELSE sessions[i]]

\* consume_device_activation and create_member_session: the same request is answered with
\* the session it made before (replay_initial_session, replay_member_login), whatever became of
\* that session; another request for a consumed activation is refused.
CreateReplays(q) == q \in DOMAIN created
CreateRefused(q) ==
    /\ ~CreateReplays(q)
    /\ \/ accountRow.status # "active"
       \/ q.operation # "login" /\ \E p \in DOMAIN created : p.operation = q.operation

CreateSession(q, answer) ==
    \/ /\ CreateReplays(q)
       /\ answer = Granted(created[q], <<0, 0>>)
       /\ UNCHANGED serverVars
    \/ /\ CreateRefused(q)
       /\ answer = Refused
       /\ UNCHANGED serverVars
    \/ /\ ~CreateReplays(q) /\ ~CreateRefused(q)
       /\ \E s \in Ids : /\ s = Cardinality(DOMAIN sessions) + 1
                         /\ IssueInitialSession(s)
                         /\ created' = [p \in DOMAIN created \cup {q} |->
                                            IF p = q THEN s ELSE created[p]]
                         /\ answer = Granted(s, <<0, 0>>)
       /\ UNCHANGED <<accountRow, records>>

\* refresh_member_session: the generation the presented credential belongs to.
PresentsCurrent(q) == q.credential = sessions[q.session].current
PresentsPrevious(q) ==
    sessions[q.session].generation > 0 /\ q.credential = sessions[q.session].previous

SourceGeneration(q) ==
    IF PresentsCurrent(q) THEN sessions[q.session].generation
                          ELSE sessions[q.session].generation - 1

Replays(q) == <<q.session, SourceGeneration(q), q.key>> \in records

RefreshReplay(q, answer) ==
    /\ PresentsCurrent(q) \/ PresentsPrevious(q)
    /\ Replays(q)
    /\ answer = Granted(q.session, <<SourceGeneration(q) + 1, q.key>>)
    /\ UNCHANGED serverVars

RefreshReuse(q, answer) ==
    /\ PresentsPrevious(q) /\ ~PresentsCurrent(q) /\ ~Replays(q)
    /\ sessions' = [sessions EXCEPT ![q.session].ended =
                        IF @ = "no" THEN "refresh-reuse" ELSE @]
    /\ answer = Refused
    /\ UNCHANGED <<accountRow, records, created>>

RefreshRotates(q, answer) ==
    /\ PresentsCurrent(q) /\ ~Replays(q) /\ Live(q.session)
    /\ sessions[q.session].generation < MaxGeneration
    /\ LET next == <<sessions[q.session].generation + 1, q.key>>
       IN  /\ sessions' = [sessions EXCEPT ![q.session].generation = @ + 1,
                               ![q.session].previous = sessions[q.session].current,
                               ![q.session].current = next]
           /\ answer = Granted(q.session, next)
    /\ records' = records \cup {<<q.session, sessions[q.session].generation, q.key>>}
    /\ UNCHANGED <<accountRow, created>>

RefreshRefused(q, answer) ==
    /\ ~Replays(q)
    /\ IF PresentsCurrent(q) THEN ~Live(q.session) ELSE ~PresentsPrevious(q)
    /\ answer = Refused
    /\ UNCHANGED serverVars

\* authenticate_member and revoke_member_session.
RevokeMemberSession(q, answer) ==
    /\ IF Authenticates(q.session, q.credential)
         THEN /\ sessions' = [sessions EXCEPT ![q.session].ended = "revoked"]
              /\ answer = [kind |-> "done"]
         ELSE /\ UNCHANGED sessions
              /\ answer = Refused
    /\ UNCHANGED <<accountRow, records, created>>

Handle(q, answer) ==
    \/ q.kind = "create" /\ CreateSession(q, answer)
    \/ q.kind = "refresh" /\ (\/ RefreshReplay(q, answer) \/ RefreshReuse(q, answer)
                              \/ RefreshRotates(q, answer) \/ RefreshRefused(q, answer))
    \/ q.kind = "logout" /\ RevokeMemberSession(q, answer)

\* revoke_user_sessions.
RevokeUserSessions ==
    [s \in DOMAIN sessions |->
        [sessions[s] EXCEPT !.ended = IF @ = "no" THEN "revoked" ELSE @]]

Reset(status) ==
    /\ accountRow.version < MaxReset
    /\ accountRow' = [status |-> status, version |-> accountRow.version + 1]
    /\ sessions' = RevokeUserSessions
    /\ UNCHANGED <<records, created, connectVars, late>>

\* set_account_password, consume_account_reset_token and reset_account_sessions, which also
\* revokes the devices.
ResetAccountSessions == accountRow.status # "deleted" /\ Reset(accountRow.status)

\* apply_account_status_transition.
DisableAccount ==
    /\ accountRow.status = "active"
    /\ Reset("disabled")

DeleteAccount ==
    /\ accountRow.status # "deleted"
    /\ Reset("deleted")

ReactivateAccount ==
    /\ accountRow.status = "disabled"
    /\ accountRow' = [accountRow EXCEPT !.status = "active"]
    /\ UNCHANGED <<sessions, records, created, connectVars, late>>

\* revoke_member_device and revoke_member_session from another client; refresh_sessions.expires_at
\* passing has the same effect.
RevokeMemberDevice(s) ==
    /\ s \in DOMAIN sessions /\ sessions[s].ended = "no"
    /\ sessions' = [sessions EXCEPT ![s].ended = "revoked"]
    /\ UNCHANGED <<accountRow, records, created, connectVars, late>>

-----------------------------------------------------------------------------
(* Connect's vault *)

\* load_refresh: the highest rotation of the two slots, with its slot.
StoredSlots(s) == {i \in {0, 1} : vault.refresh[s][i] # None}
LoadRefresh(s) ==
    IF StoredSlots(s) = {} THEN None
    ELSE LET i == CHOOSE i \in StoredSlots(s) :
                    \A j \in StoredSlots(s) :
                        vault.refresh[s][j].rotation <= vault.refresh[s][i].rotation
         IN  [slot |-> i, record |-> vault.refresh[s][i]]

WriteSlot(s, i, record) == vault' = [vault EXCEPT !.refresh[s][i] = record]

\* delete_device and delete_installed_account_if.
WithoutDevice(v, s) ==
    [v EXCEPT !.device[s] = 0, !.refresh[s] = [i \in {0, 1} |-> None]]

WithoutInstalled(v, s) == [v EXCEPT !.installed = IF @ = s THEN 0 ELSE @]

-----------------------------------------------------------------------------
(* Connect's session manager.  Its lock is held from the first step of an   *)
(* operation to the last, so there is one operation at a time.              *)

SignedOut == [bound |-> 0, refresh |-> None, access |-> FALSE]
EndsOperation == pc' = "idle" /\ sent' = None

\* lazy_restore and AccountSessionManager::restore.
Restore ==
    /\ pc = "idle" /\ memory.bound = 0 /\ vault.installed # 0
    /\ LoadRefresh(vault.installed) # None
    /\ memory' = [SignedOut EXCEPT !.bound = vault.installed,
                                   !.refresh = LoadRefresh(vault.installed)]
    /\ UNCHANGED <<serverVars, vault, pc, sent, late, fresh, discarded>>

\* load_or_create_activation_keys and load_or_create_login_operation: the identity of an
\* unfinished operation is kept until its session is committed.
LoadOrCreatePending(o) ==
    IF vault.pending[o] # 0
      THEN UNCHANGED <<vault, fresh>>
      ELSE /\ fresh < MaxFresh
           /\ fresh' = fresh + 1
           /\ vault' = [vault EXCEPT !.pending[o] = fresh + 1]

\* activate and login.
BeginCreate(o) ==
    /\ pc = "idle" /\ memory.bound = 0 /\ vault.installed = 0
    /\ LoadOrCreatePending(o)
    /\ pc' = "creating"
    /\ sent' = [kind |-> "create", operation |-> o, identity |-> vault'.pending[o]]
    /\ UNCHANGED <<serverVars, memory, late, discarded>>

\* Mutant: a retry draws a new key.
PrepareRefreshAnew ==
    /\ pc = "idle" /\ memory.bound # 0 /\ memory.refresh # None /\ fresh < MaxFresh
    /\ LET stored == memory.refresh
           record == [stored.record EXCEPT !.key = fresh + 1]
       IN  /\ fresh' = fresh + 1
           /\ vault' = [vault EXCEPT !.refresh[memory.bound][stored.slot] = record]
           /\ memory' = [memory EXCEPT !.refresh.record = record]
           /\ sent' = [kind |-> "refresh", session |-> memory.bound,
                       credential |-> record.credential, key |-> record.key]
    /\ pc' = "refreshing"
    /\ UNCHANGED <<serverVars, late, discarded>>

\* rotate_locked up to the request: prepare_refresh_operation stores the key first.
PrepareRefresh ==
    /\ pc = "idle" /\ memory.bound # 0 /\ memory.refresh # None
    /\ LET stored == memory.refresh
           key == IF stored.record.key = 0 THEN fresh + 1 ELSE stored.record.key
           record == [stored.record EXCEPT !.key = key]
       IN  /\ key \in Fresh
           /\ fresh' = IF stored.record.key = 0 THEN fresh + 1 ELSE fresh
           /\ vault' = [vault EXCEPT !.refresh[memory.bound][stored.slot] = record]
           /\ memory' = [memory EXCEPT !.refresh.record = record]
           /\ sent' = [kind |-> "refresh", session |-> memory.bound,
                       credential |-> record.credential, key |-> key]
    /\ pc' = "refreshing"
    /\ UNCHANGED <<serverVars, late, discarded>>

\* ConnectService::logout: the request needs a current access token ...
BeginLogout ==
    /\ pc = "idle" /\ memory.bound # 0 /\ memory.access
    /\ pc' = "leaving"
    /\ sent' = [kind |-> "logout", session |-> memory.bound, 
             credential |-> memory.refresh.record.credential]
    /\ UNCHANGED <<serverVars, vault, memory, late, fresh, discarded>>

\* ... and without one, or when the service cannot be reached, discard_local follows.
DiscardLocal ==
    /\ pc = "idle" /\ memory.bound # 0
    /\ pc' = "forgetting" /\ sent' = None
    /\ UNCHANGED <<serverVars, vault, memory, late, fresh, discarded>>

Requesting == pc \in {"creating", "refreshing", "leaving"}
\* A late logout needs no place here: it does what RevokeMemberDevice does at any time.
MayBeLate == sent # None /\ sent.kind \in {"create", "refresh"}
IsRequest(m) == m # None /\ m.kind \in {"create", "refresh", "logout"}

\* The service handles the request of the current operation, and the answer arrives ...
Serve ==
    /\ Requesting /\ IsRequest(sent)
    /\ \E answer \in Answers(sent) : Handle(sent, answer) /\ sent' = answer
    /\ UNCHANGED <<vault, memory, pc, late, fresh, discarded>>

\* ... or Connect gives up waiting while the request is still under way.
GiveUpWaiting ==
    /\ Requesting
    /\ late' \in IF MayBeLate /\ Cardinality(late) < MaxLate
                 THEN {late, late \cup {sent}} ELSE {late}
    /\ sent' = None
    /\ pc' = IF pc = "leaving" THEN "forgetting" ELSE "idle"
    /\ UNCHANGED <<serverVars, vault, memory, fresh, discarded>>

LateArrives ==
    /\ \E q \in late : /\ late' = late \ {q}
                       /\ \E answer \in Answers(q) : Handle(q, answer)
    /\ UNCHANGED connectVars

AnswerRefused ==
    /\ Requesting /\ sent = Refused
    /\ pc' = IF pc = "leaving" THEN "forgetting" ELSE "idle"
    /\ sent' = None
    /\ UNCHANGED <<serverVars, vault, memory, late, fresh, discarded>>

\* commit_new_session, one vault write at a time.
CommitKeys ==
    /\ pc = "creating" /\ sent # None /\ sent.kind = "granted"
    /\ \E q \in DOMAIN created :
          /\ created[q] = sent.session
          /\ vault' = [vault EXCEPT !.device[sent.session] = q.identity]
    /\ pc' = "commit refresh"
    /\ UNCHANGED <<serverVars, memory, sent, late, fresh, discarded>>

CommitRefresh ==
    /\ pc = "commit refresh"
    /\ WriteSlot(sent.session, 0, [credential |-> sent.credential, rotation |-> 1, key |-> 0])
    /\ pc' = "commit installed"
    /\ UNCHANGED <<serverVars, memory, sent, late, fresh, discarded>>

CommitInstalled ==
    /\ pc = "commit installed" /\ vault.installed \in {0, sent.session}
    /\ vault' = [vault EXCEPT !.installed = sent.session]
    /\ pc' = "commit cleanup"
    /\ UNCHANGED <<serverVars, memory, sent, late, fresh, discarded>>

CommitCleanup ==
    /\ pc = "commit cleanup"
    /\ vault' = [vault EXCEPT !.pending = [o \in Operations |->
                    IF @[o] = vault.device[sent.session] THEN 0 ELSE @[o]]]
    /\ memory' = [bound |-> sent.session, access |-> TRUE,
                  refresh |-> LoadRefresh(sent.session)]
    /\ EndsOperation
    /\ UNCHANGED <<serverVars, late, fresh, discarded>>

\* A vault write fails: what was written before the installed record is taken back, and a
\* failed cleanup leaves the installed account to the next lazy_restore.
CommitFails ==
    /\ pc \in {"commit refresh", "commit installed", "commit cleanup"}
    /\ vault' = IF pc = "commit cleanup" THEN vault
                ELSE WithoutDevice(WithoutInstalled(vault, sent.session), sent.session)
    /\ EndsOperation
    /\ UNCHANGED <<serverVars, memory, late, fresh, discarded>>

\* Mutant: the old slot is emptied before its successor is written.
RotateRefreshDeleteFirst ==
    /\ pc = "refreshing" /\ sent # None /\ sent.kind = "granted"
    /\ WriteSlot(memory.bound, memory.refresh.slot, None)
    /\ pc' = "rotated"
    /\ UNCHANGED <<serverVars, memory, sent, late, fresh, discarded>>

\* rotate_refresh: the successor goes to the other slot, then the old slot is deleted.
RotateRefresh ==
    /\ pc = "refreshing" /\ sent # None /\ sent.kind = "granted"
    /\ WriteSlot(memory.bound, 1 - memory.refresh.slot,
                 [credential |-> sent.credential,
                  rotation |-> memory.refresh.record.rotation + 1, key |-> 0])
    /\ pc' = "rotated"
    /\ UNCHANGED <<serverVars, memory, sent, late, fresh, discarded>>

\* The deletion may fail: a stale slot is harmless because reads take the higher rotation.
DropOldSlot ==
    /\ pc = "rotated"
    /\ \/ WriteSlot(memory.bound, memory.refresh.slot, None)
       \/ UNCHANGED vault
    /\ memory' = [memory EXCEPT
           !.refresh = [slot |-> 1 - @.slot,
                        record |-> vault.refresh[memory.bound][1 - @.slot]],
           !.access = TRUE]
    /\ EndsOperation
    /\ UNCHANGED <<serverVars, late, fresh, discarded>>

\* The local half of logout and discard_local: the installed record goes first.
Forget ==
    /\ (pc = "leaving" /\ sent = [kind |-> "done"]) \/ pc = "forgetting"
    /\ vault' = WithoutInstalled(vault, memory.bound)
    /\ pc' = "forgotten" /\ sent' = None
    /\ discarded' = discarded \cup {memory.bound}
    /\ UNCHANGED <<serverVars, memory, late, fresh>>

ForgetDevice ==
    /\ pc = "forgotten"
    /\ vault' = WithoutDevice(vault, memory.bound)
    /\ memory' = SignedOut
    /\ EndsOperation
    /\ UNCHANGED <<serverVars, late, fresh, discarded>>

\* Connect exits at any point; what it asked for may still be under way.
CrashConnect ==
    /\ late' \in IF MayBeLate /\ Cardinality(late) < MaxLate
                 THEN {late, late \cup {sent}} ELSE {late}
    /\ memory' = SignedOut
    /\ EndsOperation
    /\ UNCHANGED <<serverVars, vault, fresh, discarded>>

\* users, devices, refresh_sessions and the records of repeated requests.
EmptySessionTables ==
    /\ accountRow = [status |-> "active", version |-> 0]
    /\ sessions = [s \in {} |-> None]
    /\ records = {}
    /\ created = [q \in {} |-> 0]

\* InstalledAccountRecord, the pending keys, and two RefreshRecord slots a session.
EmptyVault ==
    [installed |-> 0, pending |-> [o \in Operations |-> 0], device |-> [s \in Ids |-> 0],
     refresh |-> [s \in Ids |-> [i \in {0, 1} |-> None]]]

SessionsInit ==
    /\ EmptySessionTables
    /\ vault = EmptyVault
    /\ memory = SignedOut
    /\ pc = "idle" /\ sent = None /\ late = {} /\ fresh = 0 /\ discarded = {}

AdminNext ==
    \/ ResetAccountSessions \/ DisableAccount \/ ReactivateAccount \/ DeleteAccount
    \/ \E s \in Ids : RevokeMemberDevice(s)

ConnectNext ==
    \/ Restore \/ PrepareRefresh \/ BeginLogout \/ DiscardLocal
    \/ \E o \in Operations : BeginCreate(o)
    \/ CommitKeys \/ CommitRefresh \/ CommitInstalled \/ CommitCleanup \/ CommitFails
    \/ RotateRefresh \/ DropOldSlot \/ Forget \/ ForgetDevice
    \/ AnswerRefused \/ GiveUpWaiting \/ CrashConnect

SessionsNext == AdminNext \/ ConnectNext \/ Serve \/ LateArrives

SessionsSpec == SessionsInit /\ [][SessionsNext]_sessionsVars

-----------------------------------------------------------------------------
(* Correctness *)

\* The credential kept in the vault of an installed account opens the session as long as the
\* service has not ended it: wherever Connect, the network or the vault failed, the stored
\* credential is the current one, or the previous one with the key of the rotation that
\* replaced it (session.rs rotate_locked, vault.rs rotate_refresh, db.rs refresh_member_session).
InstalledCanRefresh ==
    LET s == vault.installed
    IN  s # 0 =>
        LET stored == LoadRefresh(s)
        IN  /\ stored # None /\ vault.device[s] # 0
            /\ Live(s) /\ s \notin discarded =>
                \/ stored.record.credential = sessions[s].current
                \/ /\ stored.record.credential = sessions[s].previous
                   /\ <<s, sessions[s].generation - 1, stored.record.key>> \in records

\* Connect's own retries are never taken for the reuse of a stolen credential, not even when a
\* request of an abandoned operation arrives after its successors (db.rs refresh_member_session).
RetriesAreNotReuse ==
    \A s \in DOMAIN sessions \ discarded : sessions[s].ended # "refresh-reuse"

\* One activation or one login attempt makes one device, however often its request is
\* repeated (db.rs consume_device_activation, create_member_session).
OneDevicePerRequest ==
    /\ \A s \in DOMAIN sessions : \E q \in DOMAIN created : created[q] = s
    /\ \A q, p \in DOMAIN created :
          /\ created[q] = created[p] => q = p
          /\ q.operation = p.operation /\ q.operation # "login" => q = p

\* A session that no longer opens anything never does again, nor is it rotated: ended,
\* expired, revoked with its device, or cut off by a new credential version or the account's
\* status, also when the account is enabled again (db.rs apply_account_status_transition).
EndedSessionsStayEnded ==
    [][\A s \in DOMAIN sessions :
           ~Live(s) => ~Live(s)' /\ sessions'[s].generation = sessions[s].generation]_sessionsVars

\* The server's tables and Connect's vault together: no retry is taken for the reuse of a
\* stolen credential, no request makes two devices, and what has ended stays so (db.rs
\* refresh_member_session and create_member_session against vault.rs rotate_refresh).
SessionsAreSound == [](RetriesAreNotReuse /\ OneDevicePerRequest) /\ EndedSessionsStayEnded
=============================================================================
