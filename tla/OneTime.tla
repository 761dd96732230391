------------------------------- MODULE OneTime -------------------------------
(***************************************************************************)
(* Administrative requests that carry an idempotency key, and the one-time *)
(* secrets they hand out (control-server/src/db.rs): create_account, the   *)
(* issue and the consumption of account reset tokens, and the issue of     *)
(* device activations, whose consumption is in module Sessions.  Answers   *)
(* are lost and any request may be repeated, under its key or another, and *)
(* with the same contents or others.                                       *)
(***************************************************************************)
EXTENDS Naturals, FiniteSets

CONSTANTS
    Keys,      \* idempotency keys
    Contents,  \* request bodies: lifetimes, display names, new passwords
    MaxToken,  \* bound: tokens that are issued
    MaxChange  \* bound: changes the administrator makes

ASSUME OneTimeAssumption ==
    IsFiniteSet(Keys) /\ IsFiniteSet(Contents) /\ {MaxToken, MaxChange} \subseteq Nat

NoUse == [key |-> "none", contents |-> "none", version |-> 0]

VARIABLES
    idempotency,  \* idempotency_records of the create-account route
    tokens,   \* account_reset_tokens and device_activations
    member,   \* the account the tokens are for: users.status, password, credential_version
    family,   \* the credential version the live refresh families were opened under
    changes,  \* times the administrator has ended the member's sessions so far
    answers   \* every successful answer that was ever given

oneTimeVars == <<idempotency, tokens, member, family, changes, answers>>

Issued == DOMAIN tokens
Answer(route, key, contents, result) ==
    answers' = answers \cup {[route |-> route, key |-> key, contents |-> contents, result |-> result]}

-----------------------------------------------------------------------------
(* create_account *)

RecordsOf(key) == {r \in idempotency : r.key = key}

\* load_create_account_replay: another request under the key is a conflict.
ReplayCreateAccount(key, contents) ==
    /\ \E r \in RecordsOf(key) :
         r.contents = contents /\ Answer(<<"create", 0>>, key, contents, r.account)
    /\ UNCHANGED <<idempotency, tokens, member, family, changes>>

CreateAccount(key, contents) ==
    /\ RecordsOf(key) = {}
    /\ idempotency' = idempotency \cup {[key |-> key, contents |-> contents, account |-> Cardinality(idempotency) + 1]}
    /\ Answer(<<"create", 0>>, key, contents, Cardinality(idempotency) + 1)
    /\ UNCHANGED <<tokens, member, family, changes>>

-----------------------------------------------------------------------------
(* issue_account_reset_token and create_device_activation *)

IssuedUnder(kind, key) == {t \in Issued : tokens[t].kind = kind /\ tokens[t].issue.key = key}

\* The secret is derived again from the row, used, expired or not.
RepeatToken(kind, key, contents) ==
    /\ \E t \in IssuedUnder(kind, key) :
         tokens[t].issue.contents = contents /\ Answer(<<kind, 0>>, key, contents, t)
    /\ UNCHANGED <<idempotency, tokens, member, family, changes>>

NewToken(kind, key, contents) ==
    [kind |-> kind, issue |-> [key |-> key, contents |-> contents], state |-> "open", use |-> NoUse]

Insert(kind, key, contents) ==
    /\ IssuedUnder(kind, key) = {}
    /\ member.status = "active"
    /\ Cardinality(Issued) < MaxToken
    /\ LET new == Cardinality(Issued) + 1
       IN  /\ tokens' = [t \in Issued \cup {new} |->
                            IF t = new THEN NewToken(kind, key, contents) ELSE tokens[t]]
           /\ Answer(<<kind, 0>>, key, contents, new)
    /\ UNCHANGED <<idempotency, member, family, changes>>

ReplayResetToken(key, contents) == RepeatToken("reset", key, contents)
IssueAccountResetToken(key, contents) == Insert("reset", key, contents)
ReplayActivation(key, contents) == RepeatToken("activation", key, contents)
CreateDeviceActivation(key, contents) == Insert("activation", key, contents)

-----------------------------------------------------------------------------
(* consume_account_reset_token *)

\* The row keeps the key, the request and the answer of its one consumption.
ReplayConsume(t, key, contents) ==
    /\ tokens[t].state = "consumed"
    /\ tokens[t].use.key = key /\ tokens[t].use.contents = contents
    /\ Answer(<<"consume", t>>, key, contents, tokens[t].use.version)
    /\ UNCHANGED <<idempotency, tokens, member, family, changes>>

\* Mutant: the consumption is not looked up before the expiry.
ConsumableAgain(t) == tokens[t].state \in {"open", "consumed"}

\* Neither consumed nor expired.
Consumable(t) == tokens[t].state = "open"

\* The password, the version and the refresh families change in one transaction; the
\* node credentials and revisions that change with them are in module Control.
Replaced(contents) ==
    /\ member' = [member EXCEPT !.password = contents, !.version = @ + 1]
    /\ family' = 0

ConsumeAccountResetToken(t, key, contents) ==
    /\ tokens[t].kind = "reset" /\ Consumable(t)
    /\ member.status = "active"
    /\ Replaced(contents)
    /\ tokens' = [tokens EXCEPT ![t].state = "consumed",
                                ![t].use = [key |-> key, contents |-> contents, version |-> member'.version]]
    /\ Answer(<<"consume", t>>, key, contents, member'.version)
    /\ UNCHANGED <<idempotency, changes>>

\* A deadline, or the consumption of an activation (module Sessions).
TokenEnds(t) ==
    /\ tokens[t].state = "open"
    /\ tokens' = [tokens EXCEPT ![t].state = "expired"]
    /\ UNCHANGED <<idempotency, member, family, changes, answers>>

-----------------------------------------------------------------------------
(* The account meanwhile *)

\* What the administrator does has no key: every repetition is a change of its own, and each
\* takes the next credential version and ends the sessions of the earlier ones.
Administer(status, password) ==
    /\ member.status # "deleted" /\ changes < MaxChange
    /\ changes' = changes + 1
    /\ member' = [status |-> status, password |-> password, version |-> member.version + 1]
    /\ family' = 0
    /\ UNCHANGED <<idempotency, tokens, answers>>

SetAccountPassword(contents) == Administer(member.status, contents)
ResetAccountSessions == Administer(member.status, member.password)
DisableAccount == member.status = "active" /\ Administer("disabled", member.password)
DeleteAccount == Administer("deleted", member.password)

\* A device signs in.
OpenFamily ==
    /\ member.status = "active" /\ member.password # "none" /\ family # member.version
    /\ family' = member.version
    /\ UNCHANGED <<idempotency, tokens, member, changes, answers>>

ReactivateAccount ==
    /\ member.status = "disabled"
    /\ member' = [member EXCEPT !.status = "active"]
    /\ UNCHANGED <<idempotency, tokens, family, changes, answers>>

-----------------------------------------------------------------------------

\* idempotency_records and account_reset_tokens.
NoRecords == idempotency = {}
NoTokens == tokens = [t \in {} |-> NoUse]

OneTimeInit ==
    /\ NoRecords /\ NoTokens
    /\ member = [status |-> "active", password |-> "none", version |-> 1]
    /\ family = 0 /\ changes = 0 /\ answers = {}

OneTimeNext ==
    \/ \E key \in Keys, contents \in Contents :
          \/ ReplayCreateAccount(key, contents) \/ CreateAccount(key, contents)
          \/ ReplayResetToken(key, contents) \/ IssueAccountResetToken(key, contents)
          \/ ReplayActivation(key, contents) \/ CreateDeviceActivation(key, contents)
          \/ \E t \in Issued :
                ReplayConsume(t, key, contents) \/ ConsumeAccountResetToken(t, key, contents)
    \/ \E t \in Issued : TokenEnds(t)
    \/ \E contents \in Contents : SetAccountPassword(contents)
    \/ ResetAccountSessions \/ DisableAccount \/ DeleteAccount
    \/ OpenFamily \/ ReactivateAccount

OneTimeSpec == OneTimeInit /\ [][OneTimeNext]_oneTimeVars

-----------------------------------------------------------------------------

\* A repeated request does nothing twice.  Whoever uses one key of one route hears one
\* answer for ever, and only for the request the key was first used with; every reset token
\* has replaced the password once or never, so that the credential version counts the used
\* tokens and the administrator's changes (passwords, disabling, deleting, session resets);
\* and no refresh family survives any of these, whichever token or administrator it came from.
RepeatsChangeNothing ==
    /\ \A a, b \in answers : a.route = b.route /\ a.key = b.key => a = b
    /\ member.version = 1 + changes + Cardinality({t \in Issued : tokens[t].state = "consumed"})
    /\ family \in {0, member.version}

==============================================================================
