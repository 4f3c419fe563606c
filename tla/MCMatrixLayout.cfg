CONSTANTS
    Names = {n1, n2}
    Vacant = Vacant
    Screens <- MCScreens
    Deltas <- MCDeltas
SPECIFICATION CrossingSpec
INVARIANTS FocusOccupied NearestOnRow
PROPERTIES WayBack  
CHECK_DEADLOCK FALSE
