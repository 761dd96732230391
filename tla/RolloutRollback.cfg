\* The documented effect of a rollback on applied_revision.
SPECIFICATION RolloutSpec
CONSTANTS
    MaxRev = 3
    Gated = {}
    MaxFaults = 1
    Node = n1
    Members = {}
    MaxVersion = 1
    MaxLate = 0
PROPERTY
    RollbackLeavesApplied
