SPECIFICATION FairSpec
CONSTANTS
    Procs = {p1, p2}
    Blocks = {b1, b2, b3}
    Values = {v0, v1}
    Blank = v0
    NBUF = 2
    MaxPinned = 1
    NoProc = NoProc
INVARIANTS
    CacheSafe
PROPERTIES
    ImplementsBlockStore
    RequestsServed
CHECK_DEADLOCK FALSE
