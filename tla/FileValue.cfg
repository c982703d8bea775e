SPECIFICATION FairSpec
CONSTANTS
    Callers = {c1, c2}
    NFiles = 2
    MaxGen = 2
    MaxWrites = 2
    MaxClock = 3
    MaxStale = 1
    NONE = NONE
INVARIANTS
    RotationSettles
PROPERTIES
    ValueNeverRegresses
    StaleBounded
    RotationLands
