------------------------------ MODULE ConfigStore ------------------------------
(***************************************************************************)
(* The operator console's compatibility mode (src-tauri/src/lib.rs and     *)
(* config_store.rs): commands that change the local Xray configuration and *)
(* the file with the users' labels and notes as one pair, and the          *)
(* commands that start, stop and restart Xray.  Editors outside the        *)
(* console change either file at any time, any file operation may fail,    *)
(* and the console may die between any two of them.                        *)
(***************************************************************************)
EXTENDS Naturals, FiniteSets

CONSTANTS
    UserIds,     \* UUIDs of clients
    Labels,      \* user labels; one may be the email of a user
    MaxEdit,     \* bound: edits of each file by hand
    MaxSetting,  \* bound: changes of port, target or server name
    MaxMishap,  \* bound: failures and deaths
    MaxPid       \* bound: Xray processes

ASSUME ConfigStoreAssumption ==
    /\ IsFiniteSet(UserIds) /\ IsFiniteSet(Labels) /\ "none" \notin Labels \cup UserIds
    /\ {MaxEdit, MaxSetting, MaxMishap, MaxPid} \subseteq Nat

VARIABLES
    config,     \* the Xray configuration file
    metadata,   \* private-network.users.json
    saving,     \* the command that holds CONFIG_WRITE_LOCK
    brewed,     \* the Homebrew service: its process, what it runs, what it was asked to do
    minted,     \* UUIDs given to users so far
    truth,      \* the pair that the commands and editors so far should have left
    mishaps    \* failures so far

configVars == <<config, metadata, saving, brewed, minted, truth, mishaps>>

Configs == [clients : SUBSET UserIds, setting : 0..MaxSetting, edit : 0..MaxEdit]
Metadata == [exists : BOOLEAN, label : [UserIds -> Labels \cup {"none"}], noted : SUBSET UserIds,
             edit : 0..MaxEdit]

NoMetadata == [exists |-> FALSE, label |-> [u \in UserIds |-> "none"], noted |-> {}, edit |-> 0]
FirstConfig == [clients |-> {}, setting |-> 0, edit |-> 0]

\* What a command asks for; "service" commands carry the action as their label.
NoCommand == [kind |-> "none", user |-> "none", label |-> "none"]
Unlocked == [at |-> "idle", request |-> NoCommand, config |-> FirstConfig, metadata |-> NoMetadata,
             newConfig |-> FirstConfig, newMetadata |-> NoMetadata, backup |-> NoMetadata,
             pid |-> 0, raced |-> FALSE]

ConfigInit ==
    /\ config = FirstConfig /\ metadata = NoMetadata
    /\ saving = Unlocked
    /\ brewed = [pid |-> 0, runs |-> FirstConfig, wanted |-> "none", spawned |-> 0]
    /\ minted = {}
    /\ truth = [config |-> FirstConfig, metadata |-> NoMetadata]
    /\ mishaps = 0

-----------------------------------------------------------------------------
(* The users a pair shows, and the pair a command makes of it *)

\* collect_users: a client without a label is shown by its email, which stands for the client.
LabelOf(u, m) == IF m.label[u] = "none" THEN u ELSE m.label[u]

EnsureLabelUnique(c, m, label, except) == \A u \in c.clients \ except : LabelOf(u, m) # label

\* validate_user_label and next_user_label: an absent label becomes the first friend-N that is free.
CreateUser(c, m, u, label) ==
    [config |-> [c EXCEPT !.clients = @ \cup {u}],
     metadata |-> [m EXCEPT !.exists = TRUE, !.label[u] = label]]

UpdateLabel(c, m, u, label) ==
    [config |-> c, metadata |-> [m EXCEPT !.exists = TRUE, !.label[u] = label]]

\* A note is set, or cleared by an empty one.
UpdateNote(c, m, u) ==
    [config |-> c,
     metadata |-> [m EXCEPT !.exists = TRUE,
                            !.noted = IF u \in @ THEN @ \ {u} ELSE @ \cup {u}]]

UpdateConfig(c, m) ==
    [config |-> [c EXCEPT !.setting = @ + 1], metadata |-> [m EXCEPT !.exists = TRUE]]

DeleteUser(c, m, u) ==
    [config |-> [c EXCEPT !.clients = @ \ {u}],
     metadata |-> [m EXCEPT !.exists = TRUE, !.label[u] = "none", !.noted = @ \ {u}]]

\* The early returns of the five commands.
Accepts(r, c, m) ==
    CASE r.kind = "create" -> r.user \notin minted /\ EnsureLabelUnique(c, m, r.label, {})
      [] r.kind = "label"  -> r.user \in c.clients /\ EnsureLabelUnique(c, m, r.label, {r.user})
      [] r.kind = "note"   -> r.user \in c.clients
      [] r.kind = "update" -> c.setting < MaxSetting
      [] r.kind = "delete" -> r.user \in c.clients

Candidate(r, c, m) ==
    CASE r.kind = "create" -> CreateUser(c, m, r.user, r.label)
      [] r.kind = "label"  -> UpdateLabel(c, m, r.user, r.label)
      [] r.kind = "note"   -> UpdateNote(c, m, r.user)
      [] r.kind = "update" -> UpdateConfig(c, m)
      [] r.kind = "delete" -> DeleteUser(c, m, r.user)

Requests ==
    [kind : {"create", "label"}, user : UserIds, label : Labels]
      \cup [kind : {"note", "delete"}, user : UserIds, label : {"none"}]
      \cup {[kind |-> "update", user |-> "none", label |-> "none"]}

-----------------------------------------------------------------------------
(* Ends of a command *)

\* After a race that no check can see, or half a save, the files as they are become the reference.
Releases(trusted) ==
    /\ saving' = Unlocked
    /\ truth' = IF trusted /\ ~saving.raced THEN truth ELSE [config |-> config', metadata |-> metadata']

Mishap == mishaps < MaxMishap /\ mishaps' = mishaps + 1

\* The staged files are temporary and vanish with the command.
Refused == UNCHANGED <<config, metadata, brewed, minted>> /\ Releases(TRUE)

ConsoleDies ==
    /\ saving.at # "idle"
    /\ Mishap
    /\ UNCHANGED <<config, metadata, brewed, minted>>
    /\ Releases(saving.at \notin {"config", "rollback"})

-----------------------------------------------------------------------------
(* load_config_with_ip and persist_validated_pair *)

LockConfigWrites == saving.at = "idle"

ReadConfig(r) ==
    /\ LockConfigWrites
    /\ saving' = [Unlocked EXCEPT !.at = "read", !.request = r, !.config = config]
    /\ UNCHANGED <<config, metadata, brewed, minted, truth, mishaps>>

ReadMetadata ==
    /\ saving.at = "read"
    /\ \/ /\ Accepts(saving.request, saving.config, metadata)
          /\ LET pair == Candidate(saving.request, saving.config, metadata)
             IN  saving' = [saving EXCEPT !.at = "staged", !.metadata = metadata,
                                          !.newConfig = pair.config, !.newMetadata = pair.metadata]
          /\ minted' = IF saving.request.kind = "create" THEN minted \cup {saving.request.user} ELSE minted
          /\ UNCHANGED <<config, metadata, brewed, truth, mishaps>>
       \/ /\ ~Accepts(saving.request, saving.config, metadata)
          /\ Refused /\ UNCHANGED mishaps

\* stage_file, or `xray run -test` on the staged configuration, fails.
StagingFails ==
    /\ saving.at = "staged"
    /\ Mishap
    /\ Refused

EnsureUnchanged == config = saving.config /\ metadata = saving.metadata

FirstCheck ==
    /\ saving.at = "staged"
    /\ \/ /\ EnsureUnchanged
          /\ saving' = [saving EXCEPT !.at = "backup"]
          /\ UNCHANGED <<config, metadata, brewed, minted, truth>>
       \/ ~EnsureUnchanged /\ Refused
    /\ UNCHANGED mishaps

\* The backups are copies of what the files hold by now.
CreateBackup ==
    /\ saving.at = "backup"
    /\ \/ /\ saving' = [saving EXCEPT !.at = "check", !.backup = metadata]
          /\ UNCHANGED <<config, metadata, brewed, minted, truth, mishaps>>
       \/ Mishap /\ Refused

SecondCheck ==
    /\ saving.at = "check"
    /\ \/ /\ EnsureUnchanged
          /\ saving' = [saving EXCEPT !.at = "metadata"]
          /\ UNCHANGED <<config, metadata, brewed, minted, truth>>
       \/ ~EnsureUnchanged /\ Refused
    /\ UNCHANGED mishaps

PersistMetadata ==
    /\ saving.at = "metadata"
    /\ \/ /\ metadata' = saving.newMetadata
          /\ saving' = [saving EXCEPT !.at = "config"]
          /\ UNCHANGED <<config, brewed, minted, truth, mishaps>>
       \/ Mishap /\ Refused

PersistConfig ==
    /\ saving.at = "config"
    /\ \/ /\ config' = saving.newConfig
          /\ saving' = [saving EXCEPT !.at = "saved"]
          /\ truth' = [config |-> saving.newConfig, metadata |-> saving.newMetadata]
          /\ UNCHANGED <<metadata, brewed, minted, mishaps>>
       \/ /\ Mishap
          /\ saving' = [saving EXCEPT !.at = "rollback"]
          /\ UNCHANGED <<config, metadata, brewed, minted, truth>>

\* Mutant: a configuration that cannot be replaced leaves the new metadata behind.
RestoreNoBackup ==
    /\ saving.at = "rollback"
    /\ Refused /\ UNCHANGED mishaps

RestoreOptionalBackup ==
    /\ saving.at = "rollback"
    /\ UNCHANGED <<config, brewed, minted>>
    /\ \/ metadata' = saving.backup /\ Releases(TRUE) /\ UNCHANGED mishaps
       \/ UNCHANGED metadata /\ Releases(FALSE) /\ Mishap

\* Backups are pruned and the list is read back; if that fails the save still stands.
AnswersCommand ==
    /\ saving.at = "saved"
    /\ Refused /\ UNCHANGED mishaps

\* Someone else writes a file; between the second check and the rename nobody can notice.
\* An edit of the configuration may add and remove clients, one of the metadata may give a
\* user any label or none.
EditConfig(clients) ==
    /\ config.edit < MaxEdit
    /\ config' = [config EXCEPT !.edit = @ + 1, !.clients = clients]
    /\ truth' = [truth EXCEPT !.config.edit = @ + 1, !.config.clients = clients]
    /\ saving' = [saving EXCEPT !.raced = @ \/ saving.at \in {"metadata", "config"}]
    /\ minted' = minted \cup clients
    /\ UNCHANGED <<metadata, brewed, mishaps>>

EditMetadata(u, label) ==
    /\ metadata.edit < MaxEdit /\ metadata.exists
    /\ metadata' = [metadata EXCEPT !.edit = @ + 1, !.label[u] = label]
    /\ truth' = [truth EXCEPT !.metadata.edit = @ + 1, !.metadata.label[u] = label]
    /\ saving' = [saving EXCEPT !.raced = @ \/ saving.at \in {"metadata", "config", "rollback"}]
    /\ UNCHANGED <<config, brewed, minted, mishaps>>

-----------------------------------------------------------------------------
(* service_action and the Homebrew service *)

\* homebrew_xray_service_state finds no process when its query fails; 0 is no process.
SeenPid(known) == IF known THEN brewed.pid ELSE 0

\* The state before, then `brew services`; launchd does its part in its own time.
ServiceAction(action) ==
    /\ LockConfigWrites
    /\ saving' = [Unlocked EXCEPT !.at = "polling", !.pid = SeenPid(TRUE), !.config = config,
                                  !.request = [kind |-> "service", user |-> "none", label |-> action]]
    /\ brewed' = [brewed EXCEPT !.wanted = action]
    /\ UNCHANGED <<config, metadata, minted, truth, mishaps>>

ServiceActionBlind(action) ==
    /\ LockConfigWrites
    /\ Mishap
    /\ saving' = [Unlocked EXCEPT !.at = "blind", !.pid = SeenPid(FALSE), !.config = config,
                                  !.request = [kind |-> "service", user |-> "none", label |-> action]]
    /\ brewed' = [brewed EXCEPT !.wanted = action]
    /\ UNCHANGED <<config, metadata, minted, truth>>

XrayStops ==
    /\ brewed.pid # 0 /\ brewed.wanted \in {"stop", "restart"}
    /\ brewed' = [brewed EXCEPT !.pid = 0, !.runs = FirstConfig, !.wanted = IF @ = "stop" THEN "none" ELSE "start"]
    /\ UNCHANGED <<config, metadata, saving, minted, truth, mishaps>>

XrayStarts ==
    /\ brewed.pid = 0 /\ brewed.wanted \in {"start", "restart"} /\ brewed.spawned < MaxPid
    /\ brewed' = [pid |-> brewed.spawned + 1, runs |-> config, wanted |-> "none", spawned |-> brewed.spawned + 1]
    /\ UNCHANGED <<config, metadata, saving, minted, truth, mishaps>>

Restarted ==
    \/ saving.request.label # "restart"
    \/ saving.pid = 0
    \/ brewed.pid # 0 /\ brewed.pid # saving.pid

ExpectedRunning == (brewed.pid # 0) = (saving.request.label # "stop")

PollSucceeds ==
    /\ saving.at \in {"polling", "blind"}
    /\ ExpectedRunning /\ Restarted
    /\ saving' = [saving EXCEPT !.at = IF @ = "blind" THEN "saved" ELSE "served"]
    /\ UNCHANGED <<config, metadata, brewed, minted, truth, mishaps>>

\* brew failed, or thirty polls went by.
ServiceActionFails ==
    /\ saving.at \in {"polling", "blind"}
    /\ Mishap /\ Refused

AnswersService ==
    /\ saving.at = "served"
    /\ Refused /\ UNCHANGED mishaps

-----------------------------------------------------------------------------

ConfigNext ==
    \/ \E r \in Requests : ReadConfig(r)
    \/ ReadMetadata \/ StagingFails \/ FirstCheck \/ CreateBackup \/ SecondCheck
    \/ PersistMetadata \/ PersistConfig \/ RestoreOptionalBackup \/ AnswersCommand
    \/ \E clients \in SUBSET UserIds : EditConfig(clients)
    \/ \E u \in UserIds, label \in Labels \cup {"none"} : EditMetadata(u, label)
    \/ ConsoleDies
    \/ \E action \in {"start", "stop", "restart"} : ServiceAction(action) \/ ServiceActionBlind(action)
    \/ XrayStops \/ XrayStarts \/ PollSucceeds \/ ServiceActionFails \/ AnswersService

ConfigSpec == ConfigInit /\ [][ConfigNext]_configVars

(***************************************************************************)
(* Between two commands the pair of files is exactly what the commands     *)
(* that replaced the configuration and the editors outside left: a command *)
(* that was refused or failed changed neither file, and none replaced an   *)
(* edit made before its last check.  Excepted are a death or a failed      *)
(* rollback between the two renames and an edit in the very gap between    *)
(* check and rename.  A label that a command has just given is shown for   *)
(* no other user, until somebody edits a file.                             *)
(***************************************************************************)
SavedPairIsWhole ==
    /\ saving.at = "idle" => config = truth.config /\ metadata = truth.metadata
    /\ /\ saving.at = "saved" /\ saving.request.kind \in {"create", "label"}
       /\ config.edit = saving.newConfig.edit /\ metadata.edit = saving.newMetadata.edit
       => \A u \in config.clients \ {saving.request.user} : LabelOf(u, metadata) # saving.request.label

(***************************************************************************)
(* A restart that was answered with ok, and knew the process it replaced,  *)
(* is of an Xray that runs every change saved before it: the configuration *)
(* as it was then, or a later edit of it.                                  *)
(***************************************************************************)
RestartRunsSaved ==
    saving.at = "served" /\ saving.request.label = "restart" =>
        \/ brewed.runs = saving.config
        \/ brewed.runs.edit > saving.config.edit

\* The console's files and the Xray it restarts are what its commands said (config_store.rs,
\* lib.rs).
ConsoleKeepsItsWord == SavedPairIsWhole /\ RestartRunsSaved
===============================================================================
