CONSTANTS
    Readers = {c1}
    Legs = {l1}
    Machines <- MCMachines
    Edges = {"right"}
    Layouts <- OnePair
    QueueCap = 1
    NModifiers = 1
    MaxHidden = 2
    Backend = "x11"
    PeerHides = FALSE
    OneGoroutine = FALSE
SPECIFICATION FairSpec
INVARIANTS FocusWasHandedOver ForwardAfterHandOver OneFirePerDive
  
