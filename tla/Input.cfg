SPECIFICATION MCSpec
CONSTANTS
    Reports <- MCReports
    Keys <- MCKeys
    TickSteps = {30}
    MaxTick = 60
    MaxEvents = 6
    MaxMixed = 4
    TickRange = 1048576
    Readers = {p1, p2}
    Letters = {"x"}
    INPUT_BUF = 3
    UintRange = 6
    MaxRead = 2
    Lines <- MCLines
    COLS = 2
    ROWS = 3
SYMMETRY Symmetry
INVARIANTS
    DriversSafe
    ConsoleTypeOK
    ButtonsReported
    NobodySleepsOnInput
PROPERTIES
    StaysInStep
    ImplementsLineBuffer
CHECK_DEADLOCK FALSE
