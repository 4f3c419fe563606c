CONSTANTS
    Peers = {p1}
    MaxConns = 2
SPECIFICATION Spec
INVARIANTS ServedIsReachable
CHECK_DEADLOCK FALSE
