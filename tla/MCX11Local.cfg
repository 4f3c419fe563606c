CONSTANTS
    Keys = {k1}
    Stoppers = {"main", "run"}
    MaxTyped = 2
    MaxHides = 1
    Nobody = Nobody
SPECIFICATION XSpec
INVARIANTS LocalKeysReachApps
CHECK_DEADLOCK FALSE
