SPECIFICATION Spec
CONSTANTS
    Tabs = {t1, t2}
    maxPendingFlows = 2
    flowTTL = 1
    MaxLogins = 3
    MaxClock = 2
    MaxLost = 1
SYMMETRY Symmetry
INVARIANTS
    EndsItsOwn
PROPERTIES
    DeadlineHolds
CHECK_DEADLOCK FALSE
