\* The Control Service, one of its parts at a time.
SPECIFICATION MCControlSpec
CONSTANTS
    MaxRev = 3
    Nodes = {n1, n2}
    Members = {m1}
    MaxVersion = 2
    Machines = {h1}
    Codes = {c1, c2}
    MaxNode = 2
    MaxStamp = 1
    MaxIdentity = 2
    MaxOverdue = 1
    Routes = {"r1"}
    MaxRevision = 2
    MaxHeartbeat = 3
    MaxAttempt = 3
    Skew = 2
    MaxSecond = 7
    MaxRequest = 3
    MaxOffset = 3
    Artifacts = {"b1", "b2"}
    Counters = {"telemetry"}
    MaxMark = 2
    MaxRestore = 2
    Keys = {"k1", "k2"}
    Contents = {"x", "y"}
    MaxToken = 2
    MaxChange = 1
    Cohort = {"n1", "n2"}
    RequestKeys = {"k1", "k2"}
    Configs = {1, 2}
    MaxPublished = 5
    MaxFence = 2
SYMMETRY Symmetry
CHECK_DEADLOCK FALSE
INVARIANTS
    TablesAreSound
    EntitledIsDesired
    ActiveIsApplied
    ProgressHasEvidence
    EnrolledAsRecorded
    EndpointsAreTrue
    HandledOnce
    NothingSeenIsForgotten
    RepeatsChangeNothing
    RollbackKeepsFences
PROPERTIES
    AccessIsNeverRegained
