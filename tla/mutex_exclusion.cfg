\* Two calls on one resource, an auto-extended one whose callback may hang and one
\* whose process may die; listeners throw, one command is rejected; replies and
\* timers come at any time.
SPECIFICATION FairSpec
CONSTANTS
    p = p
    q = q
    g = g
    t = t
    a = a
    b = b
    Call = {p, q}
    Resource = {a}
    Keys <- OneKey
    HandleOf <- AllRedlock
    Ticketed = {}
    AutoExtend = {p}
    Crashable = {q}
    Hangs = {p}
    Manual = {}
    WithToken = {}
    Ttl = 2
    MinInterval = 1
    IdleTtl = 0
    Skew <- NoSkew
    ThrowsOn = {"acquired", "extended", "released"}
    Prompt = FALSE
    MaxTime = 6
    LastArrival = 3
    MaxFaults = 1
    RetryCount = 1
    RetryDelay = 1
    RetryJitter = 0
INVARIANTS TypeOK MutualExclusion FencedHandover LeakIsReported
PROPERTIES ImplementsAdmission NoLateRenewal LossIsSignalled
