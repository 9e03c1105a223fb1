SPECIFICATION Spec
CONSTANTS
    c1 = c1
    c2 = c2
    m1 = m1
    m2 = m2
    Clients = {c1, c2}
    Messages = {m1, m2}
    BufferSize = 1
    SubsLimit = 2
    Modes = {FALSE}
    MaxStarts = 1
CHECK_DEADLOCK FALSE
INVARIANTS
    NoPanic
