SPECIFICATION FairSpec
CONSTANTS
    NPROC = 4
    NCPU = 1
    MaxPid = 4
    Targets = {0, 3}
INVARIANTS
    TableSafe
PROPERTIES
    ExitsHappen
CHECK_DEADLOCK FALSE
