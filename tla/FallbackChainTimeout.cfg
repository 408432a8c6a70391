\* Two callers at once.
SPECIFICATION Spec
CONSTANTS
    b1 = b1
    b2 = b2
    g1 = g1
    g2 = g2
    Breakers = {b1}
    Callers = {g1, g2}
    Length = 2
    BreakerOf <- GuardedThenPlain
    NoBreaker = NoBreaker
    FailureThreshold = 2
    SuccessThreshold = 2
    Timeout = 1
    Concurrency = {TRUE}
PROPERTY WaitsForTimeout
