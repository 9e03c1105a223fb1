SPECIFICATION FairSpec
CONSTANTS
    c1 = c1
    c2 = c2
    Callers = {c1}
    MaxConcurrency = 2
    MaxConnection = 3
    LinkCap = 1
    OutCap = 1
    UpChunks = 1
    DownChunks = 1
    MayAbort = TRUE
    MayFail = TRUE
CHECK_DEADLOCK FALSE
INVARIANTS
    CleanEndIsComplete
    OpenIsKnown
PROPERTIES
    DoneClosesSessions
    SessionsFinish
