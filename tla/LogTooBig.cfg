SPECIFICATION Spec
CONSTANTS
    Ops = {p1, p2}
    Blocks = {b1, b2, b3, b4}
    Values = {v1}
    Blank = v0
    MAXOPBLOCKS = 2
    LOGSIZE = 4
    nlog = 4
INVARIANT NeverTooBig
