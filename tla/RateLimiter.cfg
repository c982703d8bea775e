SPECIFICATION LimiterSpec
CONSTANTS
    a1 = a1
    a2 = a2
    b1 = b1
    c1 = c1
    p1 = p1
    p2 = p2
    net = net
    Clients = {a1, a2, b1, c1}
    Trusted = {p1, p2}
    Malformed = Malformed
    NetOf <- const_NetOf
    Routes <- const_Routes
    Headers <- const_Headers
    Requests = {r1, r2}
    overflowKey = overflowKey
    RPS = 1
    Burst = 1
    idleTTL = 1
    sweepInterval = 1
    warnInterval = 1
    maxBuckets = 2
    MaxTime = 3
    Absent = Absent
SYMMETRY Symmetry
INVARIANTS
    FloodContained
    WarnPaced
