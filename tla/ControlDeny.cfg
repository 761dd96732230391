SPECIFICATION Spec
CONSTANTS
    MaxRev = 3
    Nodes = {n1}
    Members = {m1}
    MaxVersion = 2
INVARIANT HardDeny
CHECK_DEADLOCK FALSE
