\* An auto-extended reader and two writers whose clocks run ahead;
\* replies at any time, one rejected command.
SPECIFICATION Spec
CONSTANTS
    r1 = r1
    r2 = r2
    w1 = w1
    w2 = w2
    a = a
    Call = {r1, w1, w2}
    Resource = {a}
    Keys <- OneKey
    HandleOf <- RWHandles
    Ticketed = {w1, w2}
    AutoExtend = {r1}
    Crashable = {}
    Hangs = {}
    Ttl = 2
    MinInterval = 1
    IdleTtl = 0
    Skew <- FastWriters
    ThrowsOn = {}
    Prompt = FALSE
    MaxTime = 3
    LastArrival = 1
    MaxFaults = 1
    QueueTimeout = 2
    PollDelay = 1
    PollJitter = 0
    PageSize = 3
    Limit <- OneAtATime
    MarkerTtl = 3
PROPERTIES ImplementsAdmission
SYMMETRY Writers
