\* Two calls for one slot, an auto-extended one that may hang and die, and one whose
\* clock runs ahead; one rejected command, replies at any time.
SPECIFICATION FairSpec
CONSTANTS
    p = p
    q = q
    s = s
    a = a
    Call = {p, q}
    Resource = {a}
    Keys <- OneKey
    HandleOf <- AllZset
    Ticketed = {p, q}
    AutoExtend = {p}
    Crashable = {p}
    Hangs = {p}
    Ttl = 2
    MinInterval = 1
    IdleTtl = 0
    Skew <- FastClock
    ThrowsOn = {}
    Prompt = FALSE
    MaxTime = 4
    LastArrival = 2
    MaxFaults = 1
    QueueTimeout = 2
    PollDelay = 1
    PollJitter = 0
    PageSize = 2
    Limit <- OneAtATime
PROPERTIES ImplementsAdmission EveryCallSettles
