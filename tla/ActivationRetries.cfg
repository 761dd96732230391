\* The documented bound on first starts, against what the journal counts.
SPECIFICATION Spec
CONSTANTS
    MaxRev = 1
    Gated = {1}
    MaxFaults = 9
INVARIANT
    StartupRetriesBounded
