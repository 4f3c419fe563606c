CONSTANTS
    Stations = {s1, s2}
    Copies <- MCCopies
    None = None
    Block = 2
    Stride = 4
    Cap = 2
    Vias = {"direct", "server"}
    MaxConns = 1
    MaxSets = 2
    Ends = {dialer, acceptor}
    Rounds = 10
    Buffer = 10
    Keys = {k1, k2}
SPECIFICATION InboundSpec
INVARIANTS AnsweredBeforeTrust NoPartialFile  ProvideLatest NoEarlyTraffic TrustIsMutual
PROPERTIES SoundReceipt EndsByDeadline Settles KeyHoldersMeet
CHECK_DEADLOCK FALSE
