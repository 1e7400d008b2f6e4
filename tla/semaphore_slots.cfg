\* Three calls for two slots, one may die; every command answers at once.
SPECIFICATION Spec
CONSTANTS
    p = p
    q = q
    s = s
    a = a
    Call = {p, q, s}
    Resource = {a}
    Keys <- OneKey
    HandleOf <- AllZset
    Ticketed = {p, q, s}
    AutoExtend = {}
    Crashable = {q}
    Hangs = {}
    Ttl = 2
    MinInterval = 1
    IdleTtl = 0
    Skew <- NoSkew
    ThrowsOn = {}
    Prompt = TRUE
    MaxTime = 5
    LastArrival = 2
    MaxFaults = 0
    QueueTimeout = 3
    PollDelay = 1
    PollJitter = 0
    PageSize = 3
    Limit <- OneOrTwo
INVARIANTS WaiterKeepsItsPlace
PROPERTIES ImplementsAdmission FirstComeFirstServed NoEarlyEviction
