SPECIFICATION MCSpec
CONSTANTS
    MAX_WINDOW_CNT = 2
    MSG_BUF_SIZE = 2
    Desktops = {desktop1, desktop2}
    Apps = {app1}
    StartWindows = {start1, start2}
    NoProc = NoProc
    Mortal = {desktop1, app1, start1}
    Poor = {app1, start1}
    Shells = {app1}
    MaxEvents = 5
    MaxEventsThen = 4
    ClickTopRow = TRUE
INVARIANTS
    ManagerSafe
    DrawnOwnersKnown
    OnlyKnownFailures
PROPERTY RequestsHonoured
CHECK_DEADLOCK FALSE
