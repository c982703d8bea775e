SPECIFICATION FairSpec
CONSTANTS
    Callers = {c1, c2}
    Buffers <- AllBuffers
    SeedExpiries <- Seeds
    Lifetimes <- Lives
    MinRetry = 1
    MaxRetry = 2
    MaxClock = 3
    MaxExpired = 1
    MaxCalls = 4
INVARIANTS
    RetryBeforeExpiry
PROPERTIES
    ImplementsTokenSource
    JudgedByExpiry
    RefresherPaced
    EveryGetTokenReturns
