\* A call pauses between its acquisition and its INCR.
SPECIFICATION Spec
CONSTANTS
    p = p
    q = q
    g = g
    t = t
    a = a
    b = b
    Call = {p, q}
    Resource = {a}
    Keys <- OneKey
    HandleOf <- AllRedlock
    Ticketed = {}
    AutoExtend = {}
    Crashable = {}
    Hangs = {}
    Manual = {}
    WithToken = {}
    Ttl = 1
    MinInterval = 1
    IdleTtl = 0
    Skew <- NoSkew
    ThrowsOn = {}
    Prompt = FALSE
    MaxTime = 4
    LastArrival = 3
    MaxFaults = 0
    RetryCount = 0
    RetryDelay = 1
    RetryJitter = 0
INVARIANTS TokensFollowAdmission
