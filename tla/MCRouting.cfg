SPECIFICATION FairSpec
CONSTANTS
    a = a
    q1 = q1
    q2 = q2
    d1 = d1
    d2 = d2
    d3 = d3
    c1 = c1
    c2 = c2
    MaxChunks = 3
    Limit = 0
    Deadline = 1
    Overrides <- MCOverrides
    Domains = {d1, d2, d3}
    Callers = {c1, c2}
    Pools <- MCPools
    MaxPools = 2
    MaxCalls = 5
    Names = {a}
    Queriers = {q1, q2}
    Kinds = {"udp", "stream"}
    Options = {{4}, {4, 6}}
    IdSpace = 2
    MaxRequests = 3
    Answers = {"empty"}
    TTLs = {0}
    MaxTime = 1
    Tags = {1, 2}
    Selected = {1, 2}
    Settings <- MCSettings
    Weight <- MCWeight
    SamplingCount = 2
    RTTs = {2, 6}
    Millisecond = 4
    MaxChanges = 1
CHECK_DEADLOCK FALSE
INVARIANTS
    RecordsBelong
    AddressesUnique
    FakeAddressReplaced
    LeastLoadAsDocumented
PROPERTIES
    AnsweredQueryEnds
    CallReturns
    LinkDelivers
    ObservationSettles
