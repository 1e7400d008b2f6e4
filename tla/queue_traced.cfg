\* Two queued calls and a plain one on one resource, all of one traced service; a
\* callback may hang, a command be rejected, a QUEUED listener throw.
SPECIFICATION FairTracedSpec
CONSTANTS
    p = p
    q = q
    s = s
    g = g
    a = a
    Call = {p, q, g}
    Resource = {a}
    Keys <- OneKey
    HandleOf <- AllRedlock
    Ticketed = {p, q}
    AutoExtend = {}
    Crashable = {}
    Hangs = {q}
    Manual = {}
    WithToken = {}
    Ttl = 2
    MinInterval = 1
    IdleTtl = 0
    Skew <- NoSkew
    ThrowsOn = {"queued"}
    Prompt = TRUE
    MaxTime = 5
    LastArrival = 1
    MaxFaults = 1
    RetryCount = 1
    RetryDelay = 1
    RetryJitter = 0
    QueueTimeout = 2
    PollDelay = 1
    PollJitter = 0
    PageSize = 2
    Limit <- OneAtATime
    Local = {p, q, g}
INVARIANTS SpansMatchCalls ExactInQueueOrder
PROPERTIES QueuedImplementsAdmission EveryCallSettles
