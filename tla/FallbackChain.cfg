\* Two callers on a guarded provider with an unguarded one behind it.
SPECIFICATION FairSpec
CONSTANTS
    b1 = b1
    b2 = b2
    g1 = g1
    g2 = g2
    Breakers = {b1}
    Callers = {g1, g2}
    Length = 2
    BreakerOf <- GuardedThenPlain
    NoBreaker = NoBreaker
    FailureThreshold = 3
    SuccessThreshold = 2
    Timeout = 2
    Concurrency = {TRUE, FALSE}
PROPERTIES
    TripsOnStreak
    ClosesOnStreak
    AloneWaitsForTimeout
    ExecuteReturns
    FirstRecovers
