SPECIFICATION MCSpec
CONSTANTS
    Procs = {1, 2}
    initproc = 1
    CPUs = {c1, c2}
    NPAGES = 17
    PGSIZE = 2
    NPTENTRIES = 2
    KERNBASE = 8
    KTABS = 1
    Images <- MCImages
    Deltas <- MCDeltas
    desktop = nobody
    nobody = nobody
    MINUNITS = 4
    HeapStart = 2
    HeapLimit = 10
    Requests = {2, 3}
    cpu0 = c1
    Threads = {t1, t2}
    Inodes = {1, 2}
    Writers = {1, 2}
    Opens = {1, 2, 3}
    BSIZE = 3
    NDIRECT = 1
    NINDIRECT = 2
    Sector = 1
    NBLOCKS = 4
    BPB = 1
    MAXOPBLOCKS = 8
    ReadSizes = {6}
    ImageBlocks = 14
    ImageFiles <- MCImageFiles
    MaxFiles = 3
SYMMETRY Symmetry
INVARIANTS
    MemoryPartitioned
    ImagesUsable
    LocksSafe
    DataBlocksRight
PROPERTY
    ImplementsByteFile
CHECK_DEADLOCK FALSE
