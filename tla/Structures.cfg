SPECIFICATION MCSpec
CONSTANTS
    MSG_BUF_SIZE = 3
    Messages = {m1, m2}
    Consumers = {owner}
    NoMsg = NoMsg
    Writers = {w1, w2}
    Readers = {r1}
    Bytes = {"a", "b"}
    PIPESIZE = 2
    UintRange = 4
    Texts <- MCTexts
    MaxRead = 1
    Killable = {w1, r1}
    MAX_WINDOW_CNT = 5
    HeadMayClose = FALSE
    MAX_WIDGET_SIZE = 6
    Names = {"a", "b"}
    MaxDepth = 2
    MaxEntries = 3
    Letters = {"x", "y"}
    charPerLine = 1
    MAX_LONG_STRLEN = 5
INVARIANTS
    QueueSafe
    PipeSafe
    ListSafe
    ContentsIntact
PROPERTIES
    ImplementsFifo
    Delivered
    ImplementsStream
    WritersReturn
    ImplementsTextBuffer
CHECK_DEADLOCK FALSE
