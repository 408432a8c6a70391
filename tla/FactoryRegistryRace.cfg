\* Two assign commands at once, each with its own Registry.
SPECIFICATION Spec
CONSTANTS
    r1 = r1
    r2 = r2
    w1 = w1
    w2 = w2
    Registries = {r1, r2}
    Workers = {w1, w2}
    Stations = {"alpha", "beta"}
    SlotCount = 2
    Timeout = 1
    Sent = {"active", "sleeping"}
    Claims <- NoClaims
    OneAtATime = FALSE
    MaxTime = 3
INVARIANT NoSlotShared
CHECK_DEADLOCK FALSE
