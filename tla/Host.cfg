\* The parts of the Node Host other than its activation, and the Reality Console.
SPECIFICATION MCHostSpec
CONSTANTS
    Binaries = {"b1", "b2"}
    StatsPorts = {1, 2}
    MaxCandidate = 2
    MaxStop = 2
    PipeBytes = 1
    OutputLimit = 2
    MaxWritten = 3
    ListenPorts = {1, 2}
    MaxApplied = 3
    MaxEndpoint = 4
    WeekDays = 2
    DayMinutes = 3
    Policies <- MCPolicies
    Cap = 2
    MaxTime = 7
    MaxBytes = 2
    Gateways = {g1, g2}
    MaxTarget = 2
    MaxLease = 3
    MaxTrouble = 3
    Users = {"u1"}
    MaxCarried = 2
    MaxChild = 2
    SpoolLimit = 2
    BatchLimit = 2
    MaxEvent = 3
    Invitations = {"a", "b"}
    MaxInstall = 3
    MaxGiveUp = 2
    MaxDeath = 2
    MaxManifest = 3
    MaxFailure = 3
    UserIds = {"u1", "u2"}
    Labels = {"l1", "u2"}
    MaxEdit = 1
    MaxSetting = 1
    MaxMishap = 2
    MaxPid = 2
    Clients = {"u1"}
    Refreshers = {"r1", "r2"}
    MaxTraffic = 3
    MaxSample = 3
    MaxPeriod = 2
    MaxLine = 3
    MaxRotation = 2
CHECK_DEADLOCK FALSE
INVARIANTS
    CandidatesStayValid
    CommandsEndWhole
    OffersAreOwned
    CountedOnce
    UnpairBarrier
    AnswersTellTheState
    ConsoleKeepsItsWord
    UsageIsTrue
PROPERTIES
    PolicyHolds
