\* An auto-extended call, a group that contains its resource and a tryLockWithToken.
\* Every command answers and every timer fires at once; a process may die, a
\* callback hang, two commands fail; the counters' idle TTL is longer than the run.
SPECIFICATION Spec
CONSTANTS
    p = p
    q = q
    g = g
    t = t
    a = a
    b = b
    Call = {p, g, t}
    Resource = {a, b}
    Keys <- MCKeys
    HandleOf <- AllRedlock
    Ticketed = {}
    AutoExtend = {p}
    Crashable = {g}
    Hangs = {p, t}
    Manual = {t}
    WithToken = {t}
    Ttl = 4
    MinInterval = 1
    IdleTtl = 9
    Skew <- NoSkew
    ThrowsOn = {"extended"}
    Prompt = TRUE
    MaxTime = 8
    LastArrival = 3
    MaxFaults = 2
    RetryCount = 1
    RetryDelay = 1
    RetryJitter = 0
INVARIANTS NeverLostUnnoticed OneVerdict NullHoldsNothing
