SPECIFICATION TrackerFairSpec
CONSTANTS
    MaxEvents = 2
    InitLogs <- Started
    MaxSeq = 3
    MaxPublish = 2
    MaxDrops = 1
    Recreates = 1
    Nothing = Nothing
INVARIANTS
    RingIsNewest
PROPERTIES
    ResetIsJustified
    
CHECK_DEADLOCK FALSE
