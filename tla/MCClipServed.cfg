CONSTANTS
    Stations = {s1, s2}
    Copies <- MCCopies
    None = None
    Block = 2
    Stride = 4
    Cap = 2
    Vias = {"direct", "server"}
    MaxConns = 1
    MaxSets = 1
    Ends = {dialer, acceptor}
    Rounds = 1
    Buffer = 1
    Keys = {k1}
SPECIFICATION InboundSpec
INVARIANTS ServedPullDelivers
CHECK_DEADLOCK FALSE
