SPECIFICATION Spec
CONSTANTS
    Tabs = {t1, t2}
    maxPendingFlows = 3
    flowTTL = 2
    MaxLogins = 2
    MaxClock = 1
    MaxLost = 0
INVARIANTS
    TabsDontClobber
CHECK_DEADLOCK FALSE
