SPECIFICATION Spec
CONSTANTS
    app = app
    other = other
    redis = redis
    p = p
    p2 = p2
    m = m
    m2 = m2
    v = v
    w = w
    j = j
    k = k
    x = x
    y = y
    NoService = NoService
    NoCall = NoCall
    Nobody = Nobody
    Service = {app, other}
    Options <- Services
    Call = {p, p2, m, m2, v, w, j, k}
    Request <- Requests
    Injected = app
    MaxLapses = 1
    Role <- Roles
    SeatsOf <- Wanted
    Seat = {x, y}
    Casts <- MCCasts
INVARIANTS ActiveIsLatestAlive SplitIsAnnounced SkipHidesNoError LeftoverNeedsClosedClient BookedSeatsKept ViewsAreWhole
