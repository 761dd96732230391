----------------------------- MODULE MCRollout -----------------------------
(***************************************************************************)
(* Module Rollout for TLC. Late reports and changes of the members'        *)
(* credentials each multiply the state space; a behaviour has one or the   *)
(* other, and the provider's pauses go with the reports.                   *)
(***************************************************************************)
EXTENDS Rollout

VARIABLE story  \* what this behaviour is about

MCRolloutVars == <<story, rolloutVars>>

MCRolloutInit == RolloutInit /\ story \in {"late reports", "members"}

MCRolloutNext ==
    /\ RolloutNext /\ UNCHANGED story
    /\ story = "late reports" => UNCHANGED <<account, assignment, cred>>
    /\ story = "members" => late' = {} /\ ~paused'

MCRolloutSpec == MCRolloutInit /\ [][MCRolloutNext]_MCRolloutVars
=============================================================================
