CONSTANTS
    Ids <- MCIds
    Window = 5
    Peers = {p1}
    Lanes = {l1, l2}
    LaneCap = 2
    Writers = 1
    IdSpace = 10
    MaxIssued = 8
SPECIFICATION Spec
 
PROPERTIES  RecentSpec
