SPECIFICATION Spec
CONSTANTS
    Procs = {p1, p2}
    NINODES = 3
    Blocks = {1, 2}
    Names = {"a", "b"}
    Calls <- MCCalls
    MaxFile = 1
    MaxLinks = 2
    NoProc = NoProc
SYMMETRY Symmetry
INVARIANTS
    InodesExact
    LocksOrdered
CHECK_DEADLOCK FALSE
