\* Two callers race over one keyID whose wrapped bytes rotate, with
\* invalidations and entries that expire.
SPECIFICATION FairSpec
CONSTANTS
    Callers = {c1, c2}
    KeyIDs = {k1}
    Digests = {d1, d2}
    TTL = 1
    NONE = NONE
    MaxGen = 1
    MaxClock = 1
    MaxFlights = 2
INVARIANTS FreshAfterInvalidate OwnMaterial
PROPERTY EveryCallReturns
