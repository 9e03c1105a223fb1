SPECIFICATION FairSpec
CONSTANTS
    d1 = d1
    s1 = s1
    s2 = s2
    t = t
    Dests = {d1}
    Senders = {s1, s2}
    MaxEntries = 2
    MaxSends = 2
    MaxReplies = 1
    MaxConns = 3
    MaxPackets = 5
    Callers = {s1, s2}
    PoolTimer = t
    MaxConcurrency = 1
    MaxConnection = 2
    Attempts = 3
    MaxWorkers = 2
    MaxCalls = 3
    DrainAfter = 1
    Crowded = 1
    MaxMail = 2
    MaxDials = 3
    MaxEvents = 2
    Sizes = {0, 1, 2}
    MaxBytes = 4
    MaxSegments = 3
    ReadSize = 1
CHECK_DEADLOCK FALSE
INVARIANTS
    StartNeverPanics
    AttemptsSucceed
    SessionLostByPredecessor
    GapsEndAtHeads
PROPERTIES
    CutOffByPredecessor
    LostByPredecessor
    DeadWorkersLeave
    PortalServed
    EntriesEnd
    ReadProgress
