\* A listener's Registry and a command's, one assign command at a time.
SPECIFICATION FairSpec
CONSTANTS
    r1 = r1
    r2 = r2
    w1 = w1
    w2 = w2
    Registries = {r1, r2}
    Workers = {w1, w2}
    Stations = {"alpha", "beta"}
    SlotCount = 2
    Timeout = 1
    Sent = {"active"}
    Claims <- SomeClaims
    OneAtATime = TRUE
    MaxTime = 3
INVARIANTS
    NoSlotShared
    AssignedStationIsActive
PROPERTIES
    OnlySilentAreMarked
    SlotSurvivesCrash
    AllocationSpec
    SilentIsMarked
CHECK_DEADLOCK FALSE
