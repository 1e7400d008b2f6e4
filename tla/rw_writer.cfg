\* Two readers, one of which may hang, and a writer that has no rival; one
\* rejected command, everything answers at once.
SPECIFICATION FairSpec
CONSTANTS
    r1 = r1
    r2 = r2
    w1 = w1
    w2 = w2
    a = a
    Call = {r1, r2, w1}
    Resource = {a}
    Keys <- OneKey
    HandleOf <- RWHandles
    Ticketed = {w1}
    AutoExtend = {}
    Crashable = {}
    Hangs = {r1}
    Ttl = 2
    MinInterval = 1
    IdleTtl = 0
    Skew <- NoSkew
    ThrowsOn = {}
    Prompt = TRUE
    MaxTime = 7
    LastArrival = 3
    MaxFaults = 1
    QueueTimeout = 4
    PollDelay = 1
    PollJitter = 0
    PageSize = 3
    Limit <- OneAtATime
    MarkerTtl = 3
INVARIANTS WriterNotStarved
PROPERTIES EveryCallSettles WriterBlocksNewReaders
