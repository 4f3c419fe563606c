CONSTANTS
    Peers = {p1}
    MaxConns = 3
SPECIFICATION FairSpec
INVARIANTS ListedIsOpen OneDialBack
 
CHECK_DEADLOCK FALSE
