CONSTANTS
    Readers = {c1}
    Legs = {l1}
    Machines <- MCMachines
    Edges = {"right"}
    Layouts <- Rearranged
    QueueCap = 1
    NModifiers = 1
    MaxHidden = 2
    Backend = "x11"
    PeerHides = TRUE
    OneGoroutine = TRUE
SPECIFICATION Spec
 
PROPERTIES NeverToVacantSlot FreshRequestWins
