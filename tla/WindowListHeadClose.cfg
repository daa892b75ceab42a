SPECIFICATION ListSpec
CONSTANTS
    MAX_WINDOW_CNT = 3
    HeadMayClose = TRUE
INVARIANTS
    DoublyLinked
