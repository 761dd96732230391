\* The documented effect of the connect command.
SPECIFICATION MCClientSpec
CONSTANTS
    SetupCodes = {"c1", "c2"}
    MaxWaiting = 2
    MaxBegun = 3
    MaxExit = 2
    Hosts <- MCHosts
    Priority <- MCPriority
    Modes <- MCModes
    MaxBundle = 2
    MaxDamage = 1
    Setups = {a1}
    MaxSession = 2
    MaxGeneration = 2
    MaxFresh = 3
    MaxLate = 1
    MaxReset = 1
PROPERTY ConnectStarts
CHECK_DEADLOCK FALSE
