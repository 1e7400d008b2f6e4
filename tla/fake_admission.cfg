\* Slot calls, readers, a writer and a plain call; the test leaks two of them, resets the
\* fake once, and simulates the resource as locked or its locks as lost once.
SPECIFICATION Spec
CONSTANTS
    s1 = s1
    s2 = s2
    s3 = s3
    r1 = r1
    r2 = r2
    w1 = w1
    w2 = w2
    p = p
    t = t
    Call = {s1, s2, r1, r2, w1, p}
    ModeOf <- Modes
    MaxOf <- OneSlot
    Leaked = {s1, w1}
    Careful = TRUE
    MaxResets = 1
    MaxToggles = 1
INVARIANTS CountsMatchHolders TokensFollowTurns WaitsForAReason
PROPERTIES ImplementsAdmission ArrivalOrder
\* Tests end.
CHECK_DEADLOCK FALSE
