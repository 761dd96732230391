\* Every property of the activation journal under crashes and failed writes, and what
\* settles once faults cease.
SPECIFICATION FairSpec
CONSTANTS
    MaxRev = 3
    Gated = {2, 3}
    MaxFaults = 4
INVARIANTS
    ServedIsCommitted
    ActivationInv
PROPERTIES
    ActiveMovesForward
    HistoryIsFinal
    PendingSettles
    PauseWithdraws
