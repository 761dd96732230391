\* Two generations of one node's relay grant while it is rotated.
SPECIFICATION RelaySpec
CONSTANTS
    RelayNodes = {n1}
    Ports = {1, 2}
    Handlers = {h1}
    Operators = {o1}
    MaxGrant = 2
    MaxIoFault = 1
INVARIANT CoexistingGenerations
CHECK_DEADLOCK FALSE
