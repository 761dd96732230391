# Verification of reality-console

TLA+ models, TLC runs and TLAPS proofs for the programs of this repository: the
Control Service, the Node Host, Connect, the Relay and the Reality Console. The core
is **which configuration a volunteer's node runs, who is admitted to it, and what the
Control Service believes about it**; around it are the parts through which nodes
enrol, are reached, are accounted for and are torn down, and through which members
obtain and keep their access. Every definition is translated from the source;
`PROJECT.json` gives the lines (`map`), the runs, the mutants, the hazards and the
theorems.

## 1. The system

| Part | State it keeps | Operations | Interacts with |
| --- | --- | --- | --- |
| Control Service (`control-server/src`) | one SQLite database: users, assignments, member credentials, nodes, invitations, published revisions with their targets and member snapshots, revision results, progress cursors, endpoint candidates, probe claims, sessions, nonces, one-time tokens, telemetry cursors, relay grants and their outbox; backup artifacts | HTTP handlers, each one IMMEDIATE transaction; background loops for probes, canaries and relay reconciliation; backup and restore commands | administrators, nodes (signed requests), Connect, the Relay's directory, probe workers |
| Node Host (`node-host/src`) | one SQLite database: enrollment, desired cursor, artifacts, validated configurations, local results, active pointer, activation journal, router leases, relay assignments, telemetry spool, provider policy; in memory the Xray child, the admission gate, `running_revision`, connectors | `run` (a loop of cycles), `sync-once`, provider commands, the packaged daemon with its setup sessions, the user service | Control by synchronization, Xray by process control, the router, the Relay, launchd |
| Connect (`client/src-tauri/src`) | vault (device keys, refresh credential with its pending operation), bundle cache, system-proxy journal, selector, Xray child | set up, log in, refresh, fetch bundle, select, connect, stop, restore | Control, the operating system's proxy settings |
| Relay server (`relay-server/src`) | managed routes, one tunnel per route, streams with credit windows, monthly quota file | reload, node and member connections, heartbeats | documents in a shared directory, Node Host connectors, members |
| Reality Console (`src-tauri/src`) | the local Xray configuration with its labels, a usage database, the offset into the access log | edit, save, restart, refresh, pull | Xray, editors outside the Console |
| Probe worker, desktop shells, packaging | none, or user interface state | | |

What is hard about it:

* The node switches between two external processes and four tables, and may die
  between any two of those steps. The journal must always say what to undo.
* The node and Control keep separate ledgers of the same revisions and talk over
  requests that can be lost, repeated or late; a conflict is refused for ever.
* Synchronization runs inside the service cycle *and*, when no service runs, as
  `sync-once`, which can move the cursor while an activation journal is open.
* Other processes act between the steps of a cycle: the provider pauses or replaces
  the policy, configures an endpoint, reconfigures Xray, unpairs the machine.
* Member credentials change state in three ways (an administrator, a node report,
  a node closing), each of which republishes, promotes or revokes.
* Nearly every answer may be lost, so nearly every request may be repeated: refresh
  rotations, enrollments, telemetry batches, resets, rollbacks, relay documents.
* Several parts keep durable promises across a power loss: the quota file, the lease
  journal, the vault, the proxy journal, the pair of configuration files.
* The Relay and Connect are concurrent programs: locks released across an `await`,
  credit notifications, cancellation, monitors of a child process.

Properties that make the parts correct, in the order of section 2:

* *activation*: one open journal whose predecessor is the active revision; journal,
  results and active pointer agree; members are admitted to the committed revision
  only; history is final; a pending revision is settled; a pause withdraws;
* *Control*: every entitled member is in the newest revision with one credential; a
  credential is usable only where the node applied it; access is never regained;
  progress has evidence; accounts can always be changed; what is verified was probed;
  a request is handled once; nothing that was seen is forgotten by a restore;
* *rollout*: the ledgers agree; an owed report is always acceptable; heartbeats are
  accepted; a switch is authorized; what bundles hand out is served;
* *Connect*: no failure makes an account unusable, and no crash leaves the user's
  proxy settings behind;
* *Node Host*: what is validated loads, what is offered is forwarded, what is counted
  is counted once, what the provider forbids is refused, what is unpaired is gone;
* *Relay*: a grant's row and outbox agree with the disk, a live tunnel is reachable, credit is neither
  overrun nor lost, the monthly budget survives power losses.

## 2. Modules

The core, and what is proved about it:

| Module | Models |
| --- | --- |
| `Revisions` | revision numbers, result states and their ranks (`control-protocol/src/node.rs`) |
| `Activation` | `activation.rs` inside the cycle of `service.rs` |
| `ActivationProofs` | theorems about `Activation` (1362 obligations) |
| `Control` | the Control Service's access, publication and progress tables, one action per handler |
| `Rollout` | `Activation` and `Control` joined by the real exchange of `sync.rs` |
| `RolloutProofs` | theorems about `Rollout` (2068 obligations) |
| `ControlProofs` | theorems about `Control` (1396 obligations) |

The other parts:

| Module | Models | Faults and races it contains |
| --- | --- | --- |
| `Endpoints` | `record_heartbeat`, candidates, TCP probes and protocol canaries with their claims (`db.rs`, `probe.rs`, `protocol_canary.rs`) | heartbeats lost, repeated, overtaken; runners late or dead |
| `Enrollment` | invitations, `enroll_node`, and the host's side (`enrollment.rs`, `bootstrap.rs`) | one code in several machines, late requests, lost answers, crashes |
| `Requests` | `authenticate_node_request`: skew window, nonces, purge | repeated requests, clocks that disagree |
| `OneTime` | idempotency keys, reset tokens, device activations | repetition under the same or another key or body; an administrator sets the password, resets the sessions, disables, deletes or reactivates the account meanwhile |
| `Rollbacks` | `operator_rollback` over a cohort | credentials, results and agents that change meanwhile; nodes disabled and approved again |
| `Backup` | snapshot, verification, restore, activation of a generation (`backup.rs`) | damaged artifacts, commands that die, restores without local history, which lock and compare nothing |
| `Sessions` | member sessions at Control against `session.rs` and `vault.rs` | lost and late answers, failing vault writes, crashes |
| `MemberSetup` | setup codes, confirmation, the pending and the installed runtime (`member_setup.rs`, `runtime.rs`) | lost answers, failing steps, expiry, exits |
| `Connect` | bundles, selection, Xray, system proxy (`bundle.rs`, `selection.rs`, `process.rs`, `system_proxy.rs`, `connect_service.rs`, `runtime.rs`) | every step may fail, an install, a restore or a purge of the cache also part way; the child exits at any time, the process dies |
| `Candidates` | pinning, identity, validation, loading (`xray.rs`) | death between file and row, an exchanged binary, reconfiguration |
| `Subprocess` | bounded Xray commands (`xray-runtime/src/process.rs`) | full pipes, descendants that outlive the child, a child killed from outside, the deadline |
| `Policy` | pause, schedule, cap, session limit, admission gate (`policy.rs`, `service.rs`, `admission.rs`) | provider commands between steps, a clock set back |
| `Manual` | the provider's own forwarding, from configuration to heartbeat | revisions applied between read and write |
| `Mapping` | the lease journal and its supervisor (`mapping.rs`, `router_protocol.rs`) | death around every router call, networks that change |
| `Telemetry` | counters, spool, upload, the provider's monthly usage, `ingest_telemetry` | children restarted under a new or the same generation, failing queries, months that end, lost, late and repeated batches |
| `Setup` | the packaged daemon: setup sessions, executor, supervisor, unpairing (`system_setup_macos.rs`, `setup_session.rs`, `operations.rs`) | commands left queued, the daemon dies |
| `Background` | the user service and launchd (`background_macos.rs`) | calls that fail with or without their effect |
| `Relay` | grants, outbox, documents, loading, the node's two slots | overlapping reconciliations, file operations that fail with or without their effect, expiry, nodes that Control refuses (401, 403) |
| `Tunnels` | registration and replacement of tunnels under reconfiguration (`relay.rs`) | tasks between two locks |
| `Streams` | one logical stream with its pumps and credit (`relay.rs`, `node.rs`, `flow.rs`) | check-then-wait, queues at their limit, resets |
| `Quota` | the monthly quota (`quota.rs`) | power loss between write, sync and rename; clock set back |
| `ConfigStore` | the Console's configuration pair and restarts (`config_store.rs`, `lib.rs`) | outside editors that change clients and labels, failing renames, death |
| `Usage`, `AccessLog` | the Console's usage database and log import (`db.rs`) | counter resets, overlapping refreshes and pulls, half lines |

The theorems about them:

| Module | Proves about | Obligations |
| --- | --- | --- |
| `ServiceProofs` | `Requests`, `Backup`, `OneTime`, `Rollbacks` | 1262 |
| `NodeProofs` | `Enrollment`, `Endpoints` | 1602 |
| `ClientProofs` | `MemberSetup`, `Connect`, `Sessions` | 4571 |
| `HostProofs` | `Background`, `Setup`, `Candidates`, `Manual`, `Mapping`, `Policy`, `Usage`, `AccessLog`, `Telemetry`, `ConfigStore`, `Subprocess` | 5530 |
| `RelayProofs` | `Tunnels`, `Relay`, `Quota`, `Streams` | 4993 |

`MCControl`, `MCClient`, `MCHost` and `MCRelay` put several of these into one
specification. The components share no variable, so a variable `focus` chooses one at
the start; only that component moves and the others rest in their initial states.
The state spaces are added, not multiplied, and each component shows all it can do
alone. Where components do interact they are one module (`Rollout`, `Sessions`,
`Telemetry`, `Relay`, `Enrollment` model both ends). `MCRollout` restricts `Rollout`
by a variable `story`: a behaviour has late reports and pauses of the provider, or
changes of credentials, not both, because each multiplies the state space. For the same
reason a connection of `MCClient` meets damaged files or selection modes other than the
automatic one; the Console of `MCHost` meets editors of one of its files or acts on its
service, and its telemetry has at most two batches under way, one once the child was
restarted, and none where a month ends; and a behaviour of `MCRelay`'s grants has one
failing file operation or one document written late, with refusals of Control only before
either. The theorems are proved without these restrictions.

### Activation

Durable variables are columns: `cursor`, `rows`/`reported`/`rollbackTo`
(`local_revision_results`), `active` (`xray_active_state`), `journal`
(`xray_activation_journal`). Volatile ones are what a process death destroys:
`pc`, `ret`, `cand` (the position of the service task), `child`, `alive`, `gate`,
`marked` (`running_revision`). One action performs at most one durable transaction,
so `Crash` between actions covers all crash points. `reconcile` is cut at exactly
those points: `begin` (journal), `switch` (stop and spawn), `journal` (stabilizing),
`prove` (health and gate), `commit`, or `failing` and `rollback`. A helper that may
end in several ways (`stop_runtime`, `start_proven_candidate`) has one operator for
success and one for all the states a failure can leave behind.

The policy is evaluated at the start of a cycle, before synchronization and after
it; `PolicyChanges` may happen at any point between. Synchronization appears only
as what it may do to the tables (`ReceiveDesired`, `ValidateDesired`,
`ReportResult`), allowed while the service is in its `sync` position or down.

`Gated` are revisions whose document signs a public port; others are served on
loopback only and have no admission gate.

### Control

One action per handler. A refused request changes nothing that is modelled. Node
requests are taken from *any* authenticated node, in any order, as far as the
handler accepts them, so the properties do not depend on nodes behaving. Several
nodes of one account are published in one transaction, in any order of the
numbers. `publish_desired_state`, `reconcile_node_desired_state`,
`rotate_protocol_canary`, `operator_rollback` and the invitation bootstrap differ in
the document they build and not in what is modelled here; they are one action,
`PublishDesiredState`. `Rollbacks` looks at the documents of the fourth.

### Rollout

`EXTENDS Activation` and instantiates `Control` for one node. `step` is the position
in `sync_once_locked_with_runtime_snapshot`: report `received`, `validate`, report
the `revision`, report `all`, `heartbeat`, `fetch`, and once more through the
reports for what was fetched. The first error abandons the synchronization. A
request and its answer are one step: the node does nothing else in between, and
Control handles it in one transaction. A timed-out report moves to `late`, from
where Control may still receive it at any time, once (the request nonce; `Requests`
is about that).
`sync-once` is the same exchange with `pc = "down"`; the data directory lock keeps
it apart from the service. The specification of `Activation` is the property
`NodeImplementsActivation`.

### Conventions of the other modules

* A handler of the Control Service is one step, because it is one IMMEDIATE
  transaction. A client, a supervisor or a worker has a position (`pc`, `at`,
  `step`), and every durable write, external call and lock release is a step of its
  own, so a crash or another actor can come between any two.
* A call that may fail with or without effect has an action for each outcome.
* Requests that may be late or repeated are kept in a set and may be delivered at
  any time as long as the code accepts them.
* Time is a counter (`Requests`: seconds; `Quota`: months; `Policy`: minutes of a
  scaled week). A timeout is an outcome, except in `Requests`, where the boundary
  is the point, and in `Endpoints`, `Mapping` and `MemberSetup`, where an expiry is
  an event of its own.
* History variables (what was carried, forwarded, handled or observed) exist for the
  properties and their bounds; they guard nothing the code does not guard.

## 3. Runs

| Run | Shows | Distinct states |
| --- | --- | --- |
| `activation` | the journal's invariants and action properties, and under fairness `PendingSettles` and `PauseWithdraws`; 3 revisions, two of them with a gate, 4 faults | 957,878 |
| `control` | seven parts of the Control Service: `Control` with 2 nodes, 1 member, 3 revisions, 2 credential versions; `Enrollment`, `Endpoints`, `Requests`, `Backup`, `OneTime`, `Rollbacks` | 2,324,267 |
| `rollout` | the exchange, with 3 revisions, 1 fault, 1 late request or 1 member whose credential is issued twice: ledgers, authorization, acceptable reports, heartbeats, refinement | 1,632,233 |
| `client` | `MemberSetup`, `Connect`, `Sessions` | 5,106,591 |
| `host` | `Candidates`, `Subprocess`, `Policy`, `Manual`, `Mapping`, `Telemetry`, `Setup`, `Background`, and the Console's `ConfigStore`, `Usage`, `AccessLog` | 4,089,835 |
| `relay` | `Relay`, `Streams`, `Tunnels`, `Quota` | 6,078,999 |
| `activation_retries`, `activation_recovery`, `control_deny`, `rollout_rollback`, `connect_start`, `relay_rotation` | the findings of section 6 | violated |

### What the properties say

`activation`: `ServedIsCommitted` (members are admitted to the committed revision
only), `ActivationInv` (journal, results, active pointer and runtime agree in every
state, all crash points included), `ActiveMovesForward`, `HistoryIsFinal`,
`PendingSettles`, `PauseWithdraws`.

`control`:

* `TablesAreSound`: nothing is enabled that could not be published, nobody has two
  current credentials; otherwise an account could never be changed again.
* `EntitledIsDesired`, `ActiveIsApplied`, `ProgressHasEvidence`,
  `AccessIsNeverRegained`: access follows from publication and from what the nodes
  reported, in whatever order reports, rotations and closings come.
* `EnrolledAsRecorded`: a host with a registration is the machine its row describes,
  and no invitation made two nodes.
* `EndpointsAreTrue`: what is told of an endpoint rests on the newest heartbeat and on
  probes of exactly what it offered, although claims expire and results are late.
* `HandledOnce`: a nonce outlives its timestamp's window, to the second.
* `NothingSeenIsForgotten`: a service that runs, restored or not, is never behind what
  nodes and devices have seen of it. A restore with `--no-local-history` waives that for
  what was seen beyond its backup, and for nothing after it.
* `RepeatsChangeNothing`: one key has one answer for ever, a reset token replaces the
  password at most once, no refresh family survives that or a change by an administrator.
* `RollbackKeepsFences`: a rollback brings back a configuration and no credential: no
  revision of a node carries older credentials than an earlier one, and a desired revision
  carries today's, except on a node that was disabled since (finding 4).

`rollout`: `SwitchIsAuthorized`, `ReportsAreWelcome`, `HeartbeatAgrees`, `RolloutInv`
(with `LedgersAgree`), `ActiveIsServed`, and the refinement
`NodeImplementsActivation`.

`client`:

* `SetupIsKept`: an activation that Control gave is never lost by a failed, repeated or
  interrupted confirmation.
* `ConnectionIsSafe`: the proxy journal holds the user's own settings, disconnected
  means untouched, connected means a node of the bundle in force; what is installed is that
  bundle or a newer one whose install failed late, never an older one unless a purge was
  cut short.
* `InstalledCanRefresh`: the stored credential is the current one, or the previous one
  with the key of the rotation that replaced it.
* `SessionsAreSound`: no retry is taken for the reuse of a stolen credential, no
  request makes two devices, what has ended stays so.

`host`:

* `CandidatesStayValid`: a validated revision can be loaded at every later start, and an
  interrupted validation can be repeated.
* `CommandsEndWhole`: after its deadline a command is never left waiting, and an answer
  with output is the whole output and the status the child ended with, never that of the
  runner's own kill.
* `OffersAreOwned`: a mapping in the journal as released is gone from the router, an
  offered one fits network and revision; a manual endpoint names the port its revision
  listened on, under an identity of its own.
* `CountedOnce`: every counted byte is in Control's totals, in the spool behind the
  cursor, or pending, exactly once, and none was not carried, also when the child was
  restarted under the same generation and its counters went back.
* `PolicyHolds`: the provider's limits hold at the gate, and a month's account only grows.
* `UnpairBarrier`: the data plane never runs over state that is being removed, and a
  complete marker tells the truth.
* `AnswersTellTheState`: what an install or remove command answers is what it left.
* `ConsoleKeepsItsWord`: between two commands both files are what the commands that
  succeeded and the editors outside left, a label that a command gives is shown for no
  other user, and a restarted Xray runs what was saved.
* `UsageIsTrue`: no byte is charged that was not carried, no log line imported twice.

`relay`:

* `GrantsAreCarriedOut`: wherever the workers are, a published grant is on the Relay's
  disk, a pending or revoking one has the outbox row that will carry it out, a revoked one
  is off the disk, unless an overlapping reconciliation wrote its document after the grant
  had left `pending` (section 5); a node's slots are in order.
* `FlowIsControlled`: a window is never overrun and no sender sleeps through its credit.
* `LiveTunnelIsReachable`: a registered tunnel that is not cancelled is the one members
  get, or about to be cancelled.
* `QuotaIsKept`: what was forwarded is covered by what is durable, and the file can
  always be read again.

Several of these are conjunctions of parts that are named and commented in their
modules. Each property of a passing run has a mutant in `PROJECT.json`: a definition
changed the way a plausible bug would (a dropped guard, a missing reset, a swapped
order), under which TLC finds the property violated.

### Bounds

Three revisions are the least that give an applied predecessor, an open journal and a
revision that supersedes it. Four faults allow a crash inside the recovery of a crash
inside a failed rollback; `activation` is unbounded in everything else. Two nodes
suffice for the interference of one account's publication with another node's reports;
two credential versions give one rotation. One fault suffices in `rollout`, since
refusals and lost answers are not counted as faults there.

In the other modules the bounds are chosen so that each retry can meet a newer request
and each crash a second one: three heartbeats and three probe attempts (a newest, one
it overtook, a repetition); two invitations and two nodes for one host that tries
again; a skew of 2 s within 7 s, so that the window opens and closes inside the run; two
rotations with a third key drawn and one late request; three bytes written to a pipe of
one under a limit of two; leases over two networks and two targets with
three failures; three telemetry events over a spool of two; two unpair attempts that
give up and two deaths of the daemon; two tunnels and three runtimes under two
configurations; a quota of three bytes with two flows, three months and two power
losses; three log lines and two rotations; two failures or deaths of the Console. Constants named `Max...` bound
counters that the code leaves open.

These bounds end behaviours that the program would continue, and components also have
real ends (every account deleted, every invitation used, an uninstalled service), so
`control`, `client`, `host` and `relay` do not check deadlock; `activation` and
`rollout` do. In place of it `FlowIsControlled` and `CommandsEndWhole` state that no
one waits for what has happened.

### Fairness

`FairSpec` of `Activation`: weak fairness of the service's own steps, because the
service manager restarts it and `run_service_loop` always starts another cycle, and of
the end of a synchronization, because every request has a timeout. Nothing is assumed
of Control: `SyncFails` may happen in every cycle. Faults are finite by `MaxFaults`. No
other specification states fairness; their properties are safety properties.

## 4. Proofs

`ActivationProofs` proves `Spec => []ActivationInv` for every `MaxRev >= 1`, every
`Gated` and every `MaxFaults`. None of the invariants is inductive alone.
`OpenJournalMatchesActive` needs that `begin` is reached only with no other journal
open and with the candidate unsettled, which needs that the active revision was
applied and that nothing is recorded past the cursor; `ServedIsCommitted` needs the
position of `reconcile` tied to the child, the gate and the marker. The
strengthening is `TablesConsistent`, `SwitchConsistent` and `RuntimeConsistent`.
The proof splits the invariant into `Tables` (a property of the durable variables)
and `Supervisor`: a lemma per durable transaction shows that it keeps `Tables`, and
a lemma per family of actions that it keeps `Supervisor`. TLC checks
`ActivationInv` in `activation`; `JournalMatchesResults` and `RollbackNamesApplied` are
conjuncts of it with theorems of their own. The action properties `ActiveMovesForward`
and `HistoryIsFinal` follow from the invariant and one lemma, `EveryStepWrites`, that
lists the only ways in which any step changes the tables.

`RolloutProofs` proves `RolloutSpec => []RolloutInv` for any member set and bounds,
and from it the refinement `RolloutSpec => Spec`: each step of the exchange is a
step of `Activation` or leaves the node alone. The facts it rests on are in
`SyncConsistent` (a synchronization is open only where `Activation` allows one, and
validation follows an acknowledged receipt) and `PublicationConsistent` (the node is
never ahead of its desired revision). `LedgersAgree` and `SwitchIsAuthorized` follow.
Through the refinement every theorem about `Activation` holds of the composition.

The other three properties of `Rollout` depend on what was recorded and reported before
what. `OrderInv` adds to `RolloutInv`:

* `HistoryFits`: a revision ends once and after its validation, the active revision is the
  newest that was applied, and a rollback goes back to the newest applied before it;
* `ReportsFit`: a result that Control has, or that is late on its way to Control, has every
  earlier result of its revision acknowledged; a superseded revision has its application
  acknowledged; a heartbeat follows every report;
* `ProgressFits`: each column of Control's cache is the newest revision with such a result;
  for the applied one, unless a newer revision was reported before an older rollback;
* the invariants of `Control`, with `SnapshotsFit`.

`RolloutProofs` instantiates `ControlProofs` for the one node: whatever the exchange does
to Control is a step of that module (`RolloutImplementsControl`, `RolloutSpec => C!Spec`),
so its lemmas apply and its theorems hold of the composition too. Each step of the node is
shown to let the history grow in lifecycle order (`Grows`, from `EveryStepWrites`); then a
step either leaves Control's results alone or records one result, now or late.
`ReportsAreWelcome`, `HeartbeatAgrees` and `ActiveIsServed` follow. The exception in
`HeartbeatAgrees` is needed: it is the difference that finding 3 is about.

`ControlProofs` proves the five properties of the access tables and the action property
`AccessIsNeverRegained` for any nodes, members, revisions and versions. The properties
are inductive together once one fact is added: no node desires a revision that was never
published (`DesiredIsPublished`). Without it a publication could overwrite the snapshot
of a revision that a node already applied. What a publication keeps and what it writes is
one lemma; each handler is then taken conjunct by conjunct. `PublishedStays` adds that a
credential in a snapshot, as long as it can be used, is in every later revision of its node
(`SnapshotsFit`): a publication compiles from the tables it leaves behind, and no handler
takes an entitlement away without taking the credential too.

`ServiceProofs` takes the smaller parts of the Control Service:

* `RequestsHandledOnce`: a handled request has its nonce stored, or its timestamp has left
  the window (`Fenced`); the rest is arithmetic on the skew and the purge.
* `NothingForgotten`: the database the service runs on, and the one a restore is about to
  activate, are at least what anybody has seen. The invariant follows a restore through
  its positions, because the check of `ensure_not_rollback` is only good as long as the
  lock that was taken before it is held. A restore that waived the check has no such bound;
  the switch to its generation lowers what counts as seen to what the generation knows.
* `RepeatsDoNothing`: the version of an account counts the used reset tokens and the changes
  an administrator made (password, sessions, disabling, deletion), so a refresh family of an
  older version cannot be in force; every answer that was given
  is in the table it would be read from again.
* `RollbacksKeepFences`: the revisions of one rollback are numbered on from the last one,
  whatever order the cohort is taken in, and what they carry is what was current then; the
  credentials of a node never go back, so no later revision of it carries older ones.

`NodeProofs` proves `EnrolledRight` (a command holds its machine's lock from the request
to the answer, so the request on the wire describes the machine that stores the answer;
an invitation remembers the node it made) and `EndpointsTrue`. The latter needs to know,
for every heartbeat and every probe attempt, what was sent and claimed at the time, and
that the newest heartbeat is the one that is stored.

`ClientProofs`:

* `SetupKept`: an activation belongs to keys still in the vault or to the account; where a
  confirmation stands tells what else there is.
* `ConnectionSafe`: the position of an operation tied to the child, the journal, the
  cache and the bundle in force. The cache's pointer is written before a bundle comes into
  force and removed only by a purge, so it is not behind the bundle unless a purge was cut
  short. `Connect` assumes that the automatic mode is among the
  modes, and that a pinned order is a sequence of hosts: the enumeration and the vector of
  `selection.rs`.
* `InstalledRefreshes` and `SessionsSound`: the newest slot of the vault opens the session,
  and every request that is under way was made with it, or with one that a *recorded*
  rotation replaced. That is what makes a late request a repetition and never a reuse. The
  part about ended sessions is an action property, from the same lemmas.

`HostProofs` proves `AnswersHold`, `UnpairBarrierHolds` and `CandidatesValid`; each
strengthening says what is true at each position of the command that holds the lock. The
module extends `MCHost` because `OffersAreOwned` and `UsageIsTrue` are defined there, each
over two components; the theorems are about the components' own specifications. It also
proves

* `OffersOwned`, from `MappingsOwned` and `ManualForwarded`. In `Mapping` rows are used in
  order, the owned row is the newest, and a mapping is numbered by its first row, so a
  mapping that no row knows is none of the released ones; an heir is needed because a
  renewal releases a row and keeps its mapping. In `Manual` what the command has read is
  not ahead of the applied revision, and a row keeps an identity only while it keeps its
  revision.
* `WindowsKeepTheirPromise`: the schedule's test with its three cases is the set of
  minutes that a window's start and length say, for a day and a week of any length.
* `ProviderDecides`: what an evaluation found still holds at every later position of an
  undisturbed pass, because only a step that clears `enforced` can change it, and the
  later evaluations look again. The property had asked that *every* window of the schedule
  hold the minute, which a run with one window could not tell from the code's *some*
  (`policy.rs:85`); it is corrected and the run has two windows.
* `UsageTrue`, from `ChargedCarried` and `LinesOnce`. For the counters the invariant says
  that there is, for each sample under way, a number (what the user had carried when it
  was taken) such that the row, the samples in their order and the counter itself charge no
  more than lies between them: any number of refreshes may overlap, and a restart only
  lowers what is to be charged. For the log, an offset of an earlier rotation stands only
  while no line of the current one was imported.
* `TrafficCountedOnce`: `CountedOnce`, from `TelemetryInv`. Per member, what Control has
  added up, what the spool holds behind Control's cursor and what is pending, together with
  what the child's counter (or one that a query still holds) is ahead of the baseline, is no
  more than was carried; a restart, recorded or not, only lowers the counter; the
  provider's usage over its months is the sum of the first three over the members; batches under way are
  ranges of events that were written; only what is confirmed is purged, and what is
  confirmed is in the totals.
  Bytes are sums over sets of events, by `MapThenSumSet`. What such a sum is when the set
  is split, grows by an element or has equal weights is shown once, for every finite set
  (`TotalTakes`, `TotalSplits`, `TotalPlus`): a claim about sums that failed would fail at
  a smallest subset, which takes the place of induction.
* `ConsoleWordKept`, from `ConsoleInv`: what a command has read
  of the two files is still in them until its last check, or it will be refused; the pair
  is the expected one except between the two renames and after an edit in the gap that no
  check sees; a process that the service command did not know was started from the
  configuration as it stands. A label is checked against the pair that the command has
  read, so it is unique in the pair it writes. Nothing is assumed of labels: one may be the
  email of a client, and an editor may write any.
* `AnswersWhole`: what a bounded command's pipes were given is in them or was read, nobody
  writes to a pipe whose end was read, and the runner kills the child only with an answer
  that has no output, so an answer with output is whole and its status the one the child
  ended with, by itself or by a signal from outside.

`RelayProofs`:

* `LiveTunnelsReachable`: a runtime that is not cancelled is the route's or about to be
  revoked, and a tunnel that lost its slot is remembered by the one that took it.
* `GrantsCarriedOut`: what each worker has read of a grant is still true of it, or fenced
  by the generation in its row. A worker that holds a publish job of a grant that is no
  longer pending can only add to `overtaken`, and one that removes a document does so for a
  grant that is being revoked or was.
* `QuotaKept`: the traffic of all flows is a sum over a set. It is handled through running
  totals along one fixed order of the flows, so that a change of one flow is a change of
  the totals behind it, and no induction is needed.
* `FlowControlled`: the bytes in a queue are a recursive function of it. What an append, a
  removal and a filter do to them is shown by the least counterexample: among the
  positions at which a claim fails there would be a first one.

Assumptions: `MaxRevAssumption`, `ConstantsAssumption`, `ControlAssumption`,
`RolloutAssumption` (the same of one node) and those of the other modules, which say that bounds are numbers, sets are finite and special values
are none of their members, with the two facts about `Modes` above and, in `Streams`, that
a window holds a frame (`flow.rs`). TLC evaluates all of them, and no theorem
has a hypothesis of its own.

Before each proof, or beside it, TLC checked the strengthening on the run's instance. Three definitions
of the models were rewritten for the prover, with the same meaning: overlapping `CASE`
arms in `Endpoints` and `Relay` became `IF`, and `Bytes` in `Streams` a recursive function.
`AnswersAreWhole` in `Subprocess` is a conjunct of `CommandsEndWhole` under a name of its own.

Only model-checked:

* `PendingSettles` and `PauseWithdraws`: liveness under fairness is outside the prover;
* the first conjunct of `CommandsEndWhole`, that a command past its deadline can take a
  step: it is stated with `ENABLED`, which is outside the prover too.

Every other property of the passing runs is stated by a theorem.

## 5. What the models leave out

* Signatures, digests and encryption: a digest mismatch appears as a failure to load
  a candidate, a forged request does not appear.
* Wire formats, HTTP routing, configuration parsing, command lines, user interfaces,
  release tooling: the parts listed as `not_modelled` in `PROJECT.json`. They keep no
  state of their own beyond what the modelled handlers write.
* Rate limits, back-off and bandwidth shaping: they delay a step and decide nothing.
* A SIGKILLed service may leave its Xray child behind as an orphan
  (`kill_on_drop` only). `Activation` tracks the owned child; an orphan listens on
  loopback and shows as a start that fails.
* The calls of one service cycle into mapping, relay and telemetry are in the modules
  of those parts; the cycle is not composed with all of them. They share the data
  directory but no table that the others write, and their errors do not end the cycle.
* The stored order of `load_unreported_results` is kept (`Before`); the text of
  generated configurations, documents and definitions is reduced to the values they
  depend on.

Behaviour met while modelling that no property states, because it does not hold and no
document claims it outright, or because the run would only restate the code:

* *Relay*. Of two concurrent reconciliations (the loop and a handler) that hold the same
  publish job, the slower may write the document of a grant that the other has revoked. No
  outbox row is left for it, and it stays until it expires, although
  `docs/RELAY_PROVISIONING.md:89-90` has reconciliation repair every intermediate state.
  `Relay` reaches this; `GrantsAreCarriedOut` names it as its one exception. `session.version`
  is never compared with `runtime.version`, so a connection authenticated under one version
  of a route may register on the next. An error of `mark_relay_published` ends the whole pass. A stream whose queue is full
  fails its tunnel, with every other stream.
* *Unpairing*. A death between the two renames of `operations.rs:145-150` leaves a
  pending marker whose retries fail (`docs/NODE_HOST_SYSTEM_SETUP.md:48`); tombstones
  stay behind after a crash; a crash between the join and `remove_unpair_marker`
  (`system_setup_macos.rs:598`) leaves a marker over an enrolled machine; `cancel` of a
  session that is checked out (`setup_session.rs:169`) finds nothing to remove, and a
  failed attempt restores the session.
* *Control*. Other outstanding reset tokens of an account stay valid after one is used
  (`db.rs:7049`). A repeated enrollment that differs from the row is refused for ever
  (`db.rs:10431`). A controller clock stepped back after a purge readmits a request
  (`db.rs:3153`). A restored generation is not fenced, and only some counters are
  compared (`backup.rs:476`); with `--no-local-history` none are, and such a restore may run
  behind what nodes have seen (`control-server/OPERATIONS.md:62-64`). A probe that takes longer than a heartbeat interval never
  completes for the candidate it was claimed for (`db.rs:4354`). The loop of
  `protocol_canary.rs:236` ends on a database error.
* *Node Host*. `set_pause` reads, changes and writes the policy without a transaction
  (`policy.rs:276`). A full spool stops the baselines too (`telemetry.rs`). A mapping
  request that timed out (`mapping_timeout`) is retried although it may have taken
  effect, where `docs/NODE_HOST.md:686` describes a stop. A failed
  `bootout` in `background_macos.rs:207` is answered without a rollback. A validation whose
  Xray is killed from outside ends in an exit without a code, which is a permanent rejection
  (`xray-runtime/src/process.rs:192-193`, `node-host/src/xray.rs:214-221`), where the comment
  at `xray.rs:166-169` calls process failures retryable. A child that was restarted under the
  same generation, and has counted past the baseline before it is read, has the traffic up
  to the baseline left out (`telemetry.rs:274-319`).
* *Relay quota*. A temporary file left by a power loss makes the next start refuse.
* *Connect*. An install that fails after its pointer was written leaves Connect running
  the bundle before it until a refresh or a restart takes the newer one
  (`connect_service.rs:329-333`); a purge that fails leaves part of the cache. A log-in with a wrong password leaves its pending fingerprint
  (`vault.rs:404`). `begin_at` purges an expired setup session whose runtime is pending;
  that setup can then only be cancelled, while others are refused until a restart
  (`member_setup.rs:113`, `runtime.rs:104`).
* *Console*. Overlapping refreshes may store an older sample after a newer one, which
  is then charged again in full (`lib.rs:610`); `UsageIsTrue` is about samples stored in
  order. The first half of a line that is being written is consumed with the pull that
  met it. A restart that did not know the process it replaced is
  answered with ok on the first Xray it sees (`lib.rs:474`). An edit from
  outside, or a death, between the two renames of a save leaves a mixed pair. Labels are
  unique only as far as commands check them: after a hand edit, or where a label is the
  email of a user without one (`validate_user_label`, `lib.rs:908`, accepts any text), two
  users may be shown alike.

## 6. Findings

1. `activation_retries`: first starts are not limited to three retries when the
   journal write or the commit keeps failing (`docs/NODE_HOST.md:351`).
2. `activation_recovery`: a failed restore is recorded as `recovery_required` and
   never reported (`docs/ROLLOUT_AND_RECOVERY.md:216`); the node also stops
   synchronizing, because `begin_activation` fails first in every cycle.
3. `rollout_rollback`: a late rollback report moves `applied_revision` back below
   the revision the node runs (`docs/NODE_HOST.md:1197`). Later heartbeats conflict.
4. `control_deny`: a node that is disabled and approved again still has a desired
   state with revoked credentials (`docs/ROLLOUT_AND_RECOVERY.md:24`).
5. `relay_rotation`: the documents of two generations of one grant carry the same
   endpoint and never load together, so a rotation stops every reload until the older
   one expires (`docs/RELAY_PROVISIONING.md:60`, `relay-server/src/registry.rs:124`).
6. `connect_start`: connect, stop, connect succeeds without starting Xray, because the
   selector still holds the node (`client/src-tauri/src/connect_service.rs:557`; the
   command's comment at `runtime.rs:293` says it starts Xray).

## 7. Plan

No safety property that a run checks is left without a proof.

Models to come: one composition of the service cycle with `Mapping`, `Telemetry` and the relay
supervisor; convergence of a node that can reach Control.
