\* The documented report of a failed restore, under fairness.
SPECIFICATION FairSpec
CONSTANTS
    MaxRev = 2
    Gated = {1, 2}
    MaxFaults = 2
PROPERTY
    RecoveryIsReported
