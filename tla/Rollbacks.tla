------------------------------ MODULE Rollbacks ------------------------------
(***************************************************************************)
(* Operator rollbacks (operator_rollback, control-server/src/db.rs): a     *)
(* cohort of nodes is given back, as new revisions, the configuration of   *)
(* revisions they once applied, while members' credentials change, results *)
(* arrive, nodes are disabled, approved again and downgraded, and requests *)
(* are repeated.                                                           *)
(***************************************************************************)
EXTENDS Naturals, FiniteSets

CONSTANTS
    Cohort,       \* nodes
    RequestKeys,  \* idempotency keys of rollback requests
    Configs,      \* Xray configurations, numbered by the agent version they need
    MaxPublished, \* bound: revisions of the network
    MaxFence      \* bound: changes of the members' credentials on a node

ASSUME RollbacksAssumption ==
    /\ IsFiniteSet(Cohort) /\ IsFiniteSet(RequestKeys)
    /\ Configs \subseteq Nat /\ {MaxPublished, MaxFence} \subseteq Nat

VARIABLES
    published,  \* desired_revisions: revision |-> node, configuration, credentials, outcome
    desiredOf,  \* nodes.desired_revision
    active,     \* the nodes whose status is active; the others are disabled or revoked
    agent,      \* nodes.agent_version
    fence,      \* node |-> the version of its members' credentials
    closed,     \* nodes disabled since their desired revision was published
    rollbacks   \* idempotency_records of the rollback routes

rollbackVars == <<published, desiredOf, active, agent, fence, closed, rollbacks>>

Published == DOMAIN published
LastRevision == Cardinality(Published)

\* Revisions numbered on from the last one, one for each node, in an order of the nodes.
Numbering(nodes) ==
    LET fresh == LastRevision + 1 .. LastRevision + Cardinality(nodes)
    IN  CHOOSE f \in [nodes -> fresh] : \A n, m \in nodes : n # m => f[n] # f[m]

\* publish_compiled_desired_state for each node: config[n] with the users of version users[n].
PublishFor(number, config, users) ==
    LET nodes == DOMAIN number
        new == {number[n] : n \in nodes}
        Owner(r) == CHOOSE n \in nodes : number[n] = r
    IN  /\ published' = [r \in Published \cup new |->
              IF r \in new
              THEN [node |-> Owner(r), config |-> config[Owner(r)], users |-> users[Owner(r)], outcome |-> "pending"]
              ELSE published[r]]
        /\ desiredOf' = [n \in Cohort |-> IF n \in nodes THEN number[n] ELSE desiredOf[n]]
        /\ closed' = closed \ nodes

Room(nodes) == LastRevision + Cardinality(nodes) <= MaxPublished

\* The users that compile_desired_users finds now.
FenceOf(nodes) == [n \in nodes |-> fence[n]]

-----------------------------------------------------------------------------

\* publish_desired_state.
PublishConfiguration(n, c) ==
    /\ n \in active /\ Room({n})
    /\ PublishFor(Numbering({n}), [m \in {n} |-> c], FenceOf({n}))
    /\ UNCHANGED <<active, agent, fence, rollbacks>>

\* The desired revision is applied, or rejected or rolled back; a node that is not active
\* is not authenticated, and module Control has the results that arrive late.
RecordOutcome(r, outcome) ==
    /\ published[r].outcome = "pending" /\ desiredOf[published[r].node] = r
    /\ published[r].node \in active
    /\ outcome = "applied" => agent[published[r].node] >= published[r].config
    /\ published' = [published EXCEPT ![r].outcome = outcome]
    /\ UNCHANGED <<desiredOf, active, agent, fence, closed, rollbacks>>

\* A password, a status or an assignment changes: publish_account_revisions for active nodes.
ChangeCredentials ==
    /\ \A n \in Cohort : fence[n] < MaxFence
    /\ LET nodes == {n \in active : desiredOf[n] # 0}
       IN  /\ Room(nodes)
           /\ PublishFor(Numbering(nodes), [n \in nodes |-> published[desiredOf[n]].config],
                         [n \in nodes |-> fence[n] + 1])
    /\ fence' = [n \in Cohort |-> fence[n] + 1]
    /\ UNCHANGED <<active, agent, rollbacks>>

\* transition_node, disable or revoke: close_node_member_access revokes every credential of
\* the node's members and nothing is published for it.
WithdrawNode(n) ==
    /\ n \in active /\ fence[n] < MaxFence
    /\ active' = active \ {n}
    /\ fence' = [fence EXCEPT ![n] = @ + 1]
    /\ closed' = closed \cup {n}
    /\ UNCHANGED <<published, desiredOf, agent, rollbacks>>

\* transition_node, approve: also from disabled; the desired revision stays what it was.
\* A revoked node is one that is never approved again.
ReadmitNode(n) ==
    /\ n \notin active
    /\ active' = active \cup {n}
    /\ UNCHANGED <<published, desiredOf, agent, fence, closed, rollbacks>>

\* record_heartbeat: the agent reports another version.
ChangeAgent(n, version) ==
    /\ n \in active /\ agent[n] # version
    /\ agent' = [agent EXCEPT ![n] = version]
    /\ UNCHANGED <<published, desiredOf, active, fence, closed, rollbacks>>

-----------------------------------------------------------------------------
(* operator_rollback *)

\* A configuration names the first agent version that can run it.
AgentVersionSatisfies(n, config) == agent[n] >= config

\* load_stored_desired_revision.
ConfigurationOf(r) == published[r].config

\* prepare_rollback_target: the source was applied, the failed revision is the desired
\* one and was rejected or rolled back, and the agent still can run the source.
PrepareRollbackTarget(n, t) ==
    /\ n \in active
    /\ desiredOf[n] = t.failed /\ published[t.failed].outcome = "failed"
    /\ published[t.source].node = n /\ published[t.source].outcome = "applied"
    /\ AgentVersionSatisfies(n, ConfigurationOf(t.source))

Ended(outcome) == {r \in Published : published[r].outcome = outcome}

\* A request names an earlier source and a failed revision; one that names others is refused.
Targets == {t \in [source : Ended("applied"), failed : Ended("failed")] : t.source < t.failed}

RecordOf(key) == {r \in rollbacks : r.key = key}

\* Mutant: the members are rolled back with the configuration.
UsersForOfSource(targets) == [n \in DOMAIN targets |-> published[targets[n].source].users]

UsersFor(targets) == FenceOf(DOMAIN targets)

StoreRollbackIdempotency(key, targets, number) ==
    rollbacks' = rollbacks \cup {[key |-> key, targets |-> targets, number |-> number]}

\* All targets or none; a rejected cohort leaves only an audit event.
OperatorRollback(key, targets) ==
    /\ RecordOf(key) = {} /\ Room(DOMAIN targets)
    /\ \A n \in DOMAIN targets : PrepareRollbackTarget(n, targets[n])
    /\ LET number == Numbering(DOMAIN targets)
       IN  /\ PublishFor(number, [n \in DOMAIN targets |-> ConfigurationOf(targets[n].source)], UsersFor(targets))
           /\ StoreRollbackIdempotency(key, targets, number)
    /\ UNCHANGED <<active, agent, fence>>

-----------------------------------------------------------------------------

\* The nodes in the order in which they were given their first revision.
Firsts == CHOOSE f \in [1 .. Cardinality(Cohort) -> Cohort] : \A r, q \in DOMAIN f : r # q => f[r] # f[q]

\* Every node has applied a first revision.
RollbacksInit ==
    /\ desiredOf = [n \in Cohort |-> CHOOSE r \in 1 .. Cardinality(Cohort) : Firsts[r] = n]
    /\ published = [r \in DOMAIN Firsts |->
                      [node |-> Firsts[r], config |-> 1, users |-> 1, outcome |-> "applied"]]
    /\ active = Cohort /\ agent = [n \in Cohort |-> 2]
    /\ fence = [n \in Cohort |-> 1] /\ closed = {} /\ rollbacks = {}

RollbacksNext ==
    \/ \E n \in Cohort, c \in Configs : PublishConfiguration(n, c)
    \/ \E r \in Published, outcome \in {"applied", "failed"} : RecordOutcome(r, outcome)
    \/ ChangeCredentials
    \/ \E n \in Cohort : WithdrawNode(n) \/ ReadmitNode(n)
    \/ \E n \in Cohort, version \in 1 .. 2 : ChangeAgent(n, version)
    \/ \E key \in RequestKeys, nodes \in SUBSET Cohort \ {{}} :
          \E targets \in [nodes -> Targets] : OperatorRollback(key, targets)

RollbacksSpec == RollbacksInit /\ [][RollbacksNext]_rollbackVars

-----------------------------------------------------------------------------

\* A rollback brings back a configuration and nothing else: unless its node was disabled
\* since, a desired revision carries the members' current credentials; no revision of a
\* node, a rollback's or any other and approved again or not, carries credentials older than
\* an earlier one's, so none readmits a member that was fenced off since its source; a
\* rollback only ever brings back what that very node applied; and no failed revision is
\* rolled back twice, under one key or under several.
RollbackKeepsFences ==
    /\ \A n \in Cohort \ closed : desiredOf[n] # 0 => published[desiredOf[n]].users = fence[n]
    /\ \A r, q \in Published :
          r < q /\ published[r].node = published[q].node => published[r].users <= published[q].users
    /\ \A r \in rollbacks : \A n \in DOMAIN r.targets :
          LET source == published[r.targets[n].source]
          IN  source.node = n /\ source.outcome = "applied" /\ published[r.number[n]].config = source.config
    /\ \A r, s \in rollbacks : \A n \in DOMAIN r.targets \cap DOMAIN s.targets :
          r # s => r.targets[n].failed # s.targets[n].failed

==============================================================================
