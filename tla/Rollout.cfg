\* The node and the Control Service together: lost and late requests, and the members'
\* credentials along a rollout.
SPECIFICATION MCRolloutSpec
CONSTANTS
    MaxRev = 3
    Gated = {}
    MaxFaults = 1
    Node = n1
    Members = {m1}
    MaxVersion = 2
    MaxLate = 1
INVARIANTS
    SwitchIsAuthorized
    ReportsAreWelcome
    HeartbeatAgrees
    RolloutInv
    ActiveIsServed
PROPERTIES
    NodeImplementsActivation
