SPECIFICATION CliFairSpec
CONSTANTS
    Procs = {p1, p2}
    Configs = {a, b}
    Earlier = {a}
    MaxLogins = 2
    MaxRotations = 2
    MaxFaults = 1
    Legacy = TRUE
    MaxRedirects = 2
    Intervals <- SomeIntervals
    Lifetimes <- SomeLifetimes
    DefaultInterval = 1
    DefaultLifetime = 1
    MaxSlowDowns = 1
    NONE = NONE
INVARIANTS
    NoReuse
    RightIssuer
    LogoutSticks
    FirstRedirectDecides
    PollsPaced
PROPERTIES
    EveryCallReturns
