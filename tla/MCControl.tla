----------------------------- MODULE MCControl ------------------------------
(***************************************************************************)
(* The parts of the Control Service for TLC. The components share no       *)
(* variable, so a behaviour in which one of them moves and the others rest *)
(* shows all that the component can do: the state spaces are added, not    *)
(* multiplied. The nodes of module Control are interchangeable, and so are *)
(* the invitation codes of module Enrollment.                              *)
(***************************************************************************)
EXTENDS Control, Enrollment, Endpoints, Requests, Backup, OneTime, Rollbacks, TLC

VARIABLE focus  \* the component that moves in this behaviour

Symmetry == Permutations(Nodes) \cup Permutations(Codes)

MCControlVars == <<focus, controlVars, enrollmentVars, endpointVars, requestVars, backupVars, oneTimeVars, rollbackVars>>

\* Every component starts as its own module says; one of them is chosen to move.
MCControlInit ==
    /\ focus \in {"tables", "enrollment", "endpoints", "requests", "backup", "onetime", "rollbacks"}
    /\ Init /\ EnrollmentInit /\ EndpointsInit /\ RequestsInit
    /\ BackupInit /\ OneTimeInit /\ RollbacksInit

MoveTables ==
    /\ focus = "tables" /\ Next
    /\ UNCHANGED <<focus, enrollmentVars, endpointVars, requestVars, backupVars, oneTimeVars, rollbackVars>>

MoveEnrollment ==
    /\ focus = "enrollment" /\ EnrollmentNext
    /\ UNCHANGED <<focus, controlVars, endpointVars, requestVars, backupVars, oneTimeVars, rollbackVars>>

MoveEndpoints ==
    /\ focus = "endpoints" /\ EndpointsNext
    /\ UNCHANGED <<focus, controlVars, enrollmentVars, requestVars, backupVars, oneTimeVars, rollbackVars>>

MoveRequests ==
    /\ focus = "requests" /\ RequestsNext
    /\ UNCHANGED <<focus, controlVars, enrollmentVars, endpointVars, backupVars, oneTimeVars, rollbackVars>>

MoveBackup ==
    /\ focus = "backup" /\ BackupNext
    /\ UNCHANGED <<focus, controlVars, enrollmentVars, endpointVars, requestVars, oneTimeVars, rollbackVars>>

MoveOneTime ==
    /\ focus = "onetime" /\ OneTimeNext
    /\ UNCHANGED <<focus, controlVars, enrollmentVars, endpointVars, requestVars, backupVars, rollbackVars>>

MoveRollbacks ==
    /\ focus = "rollbacks" /\ RollbacksNext
    /\ UNCHANGED <<focus, controlVars, enrollmentVars, endpointVars, requestVars, backupVars, oneTimeVars>>

MCControlNext ==
    \/ MoveTables \/ MoveEnrollment \/ MoveEndpoints \/ MoveRequests
    \/ MoveBackup \/ MoveOneTime \/ MoveRollbacks

MCControlSpec == MCControlInit /\ [][MCControlNext]_MCControlVars
=============================================================================
