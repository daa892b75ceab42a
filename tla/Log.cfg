SPECIFICATION FairSpec
CONSTANTS
    Ops = {p1, p2}
    Blocks = {b1, b2}
    Values = {v1, v2}
    Blank = v0
    MAXOPBLOCKS = 2
    LOGSIZE = 4
    nlog = 4
INVARIANTS
    LogSafe
PROPERTIES
    ImplementsAtomicDisk
    SleepersWoken
