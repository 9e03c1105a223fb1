SPECIFICATION Spec
CONSTANTS
    c1 = c1
    c2 = c2
    Callers = {c1, c2}
    MaxConcurrency = 2
    MaxConnection = 3
    LinkCap = 1
    OutCap = 1
    UpChunks = 2
    DownChunks = 0
    MayAbort = FALSE
    MayFail = FALSE
CHECK_DEADLOCK FALSE
SYMMETRY CallerSymmetry
INVARIANTS
    SessionIntegrity
PROPERTIES
    IdleCloseStrandsNobody
