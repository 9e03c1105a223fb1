SPECIFICATION MCSpec
CONSTANTS
    c1 = c1
    c2 = c2
    t1 = t1
    t2 = t2
    t3 = t3
    t4 = t4
    Proxies = {"freedom", "mieru"}
    MaxData = 1
    NoTimer = NoTimer
    Callers = {c1, c2}
    Timers = {t1, t2, t3, t4}
    FailModes = {TRUE, FALSE}
    MaxStarts = 4
    MaxCloses = 2
CHECK_DEADLOCK FALSE
INVARIANTS
    ChainBound
    NoEarlyTimeout
PROPERTIES
    CloseStops
    StartTakesEffectUnlessFailing
    RelayEnds
