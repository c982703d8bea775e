SPECIFICATION Spec
CONSTANTS
    SessionTTL = 3
    IdleTimeout = 2
    Logins = {s1}
    Members = {s1}
    MaxClock = 3
    MaxReplies = 2
    Requests = {r1, r2}
    Tokens = {j1}
    logoutTokenMaxAge = 1
    logoutTokenSkew = 1
    NONE = NONE
SYMMETRY Symmetry
INVARIANTS
    NeverPastTheCap
    ActiveStaysIn
    ActedOnce
    RetryPossible
    DiscoveredOnce
PROPERTIES
    RevokedStaysOut
CHECK_DEADLOCK FALSE
