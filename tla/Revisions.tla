------------------------------ MODULE Revisions ------------------------------
(***************************************************************************)
(* The vocabulary that the Node Host and the Control Service share: the    *)
(* revision numbers and the states of a revision result                    *)
(* (crates/control-protocol/src/node.rs).  Zero is the absent revision.    *)
(***************************************************************************)
EXTENDS Integers, FiniteSets

CONSTANT MaxRev      \* bound: revisions are 1 .. MaxRev

ASSUME MaxRevAssumption == MaxRev \in Nat \ {0}

Revs == 1 .. MaxRev
Revs0 == 0 .. MaxRev

ResultStates == {"received", "validated", "applied", "rejected", "rolledBack"}
TerminalResults == {"applied", "rejected", "rolledBack"}

\* RevisionResultState::rank; every terminal state has the same one.
Rank(s) == IF s = "received" THEN 10 ELSE IF s = "validated" THEN 20 ELSE 30
=============================================================================
