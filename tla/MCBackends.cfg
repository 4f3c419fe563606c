CONSTANTS
    Keys = {k1}
    Stoppers = {"main", "run"}
    MaxTyped = 3
    MaxHides = 2
    Nobody = Nobody
    Sessions <- MCSessions
    Devs = {d1, d2}
    Frames <- MCFrames
    Spots = {0}
    MaxFrames = 2
    MaxInjects = 2
SPECIFICATION BSpec
INVARIANTS  ReadersGone ReportedOnce CursorRestored
PROPERTIES ReportsOneFrame GrabLiftedOnStop StopCompletes
CHECK_DEADLOCK FALSE
