SPECIFICATION Spec
CONSTANTS
    Procs = {p1}
    NINODES = 3
    Blocks = {1, 2, 3}
    Names = {"a", "b"}
    Calls <- RemovedParentCalls
    MaxFile = 1
    MaxLinks = 2
    NoProc = NoProc
INVARIANT InodesHaveTypes
CHECK_DEADLOCK FALSE
