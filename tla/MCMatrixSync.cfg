CONSTANTS
    me = me
    p1 = p1
    p2 = p2
    Names = {me, p1, p2}
    Vacant = Vacant
    Self = me
    Peers = {p1, p2}
    Layouts <- MCLayouts
    MaxJoins = 2
    MaxBursts = 2
SPECIFICATION SyncSpec
INVARIANTS PoolOneToOne BurstIsSnapshot
PROPERTIES GuessNeverShared BurstArrivesWhole
CHECK_DEADLOCK FALSE
