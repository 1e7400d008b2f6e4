\* A page of expired entries at the front.
SPECIFICATION QueuedSpec
CONSTANTS
    p = p
    q = q
    s = s
    g = g
    a = a
    Call = {p, q, s}
    Resource = {a}
    Keys <- OneKey
    HandleOf <- AllRedlock
    Ticketed = {p, q, s}
    AutoExtend = {}
    Crashable = {p, q}
    Hangs = {}
    Manual = {}
    WithToken = {}
    Ttl = 2
    MinInterval = 1
    IdleTtl = 0
    Skew <- NoSkew
    ThrowsOn = {}
    Prompt = TRUE
    MaxTime = 7
    LastArrival = 4
    MaxFaults = 0
    RetryCount = 1
    RetryDelay = 1
    RetryJitter = 0
    QueueTimeout = 3
    PollDelay = 1
    PollJitter = 0
    PageSize = 1
    Limit <- OneAtATime
PROPERTIES FirstComeFirstServed
