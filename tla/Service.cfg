SPECIFICATION Spec
CONSTANTS
    r1 = r1
    r2 = r2
    k1 = k1
    w1 = w1
    Requests = {r1, r2}
    Clients = {k1}
    ClientKey <- const_Key
    LimitsConfigs <- const_Limits
    Workers = {w1}
    NONE = NONE
INVARIANTS
    SlotsMatch
    NoOrphan
    LookupLed
    GroupReports
PROPERTIES
    ShutdownIsClean
CHECK_DEADLOCK FALSE
