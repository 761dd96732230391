\* The Relay, one of its parts at a time.
SPECIFICATION MCRelaySpec
CONSTANTS
    RelayNodes = {n1}
    Ports = {1, 2}
    Handlers = {h1}
    Operators = {o1}
    MaxGrant = 2
    MaxIoFault = 1
    Window = 2
    MaxFrame = 2
    QueueFrames = 1
    MaxRead = 3
    MaxConfig = 2
    MaxRuntime = 3
    MaxTunnel = 2
    Limit = 3
    Flows = {f1, f2}
    MaxChunk = 2
    MaxMonth = 3
    MaxStop = 2
CHECK_DEADLOCK FALSE
INVARIANTS
    GrantsAreCarriedOut
    FlowIsControlled
    LiveTunnelIsReachable
    QuotaIsKept
