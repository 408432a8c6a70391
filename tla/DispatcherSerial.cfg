\* Two CLI processes, never two calls of Run in flight at once.
SPECIFICATION FairSpec
CONSTANTS
    c1 = c1
    c2 = c2
    c3 = c3
    t1 = t1
    t2 = t2
    p1 = p1
    p2 = p2
    a1 = a1
    a2 = a2
    h1 = h1
    h2 = h2
    schema = schema
    Calls = {c1, c2}
    Procs = {p1, p2}
    ProcOf <- TwoProcs
    Tickets = {t1}
    ArtifactIDs = {a1, a2}
    Hashes = {h1, h2}
    Duplicate = dup
    Classes = {dup, schema}
    Batches <- TwinBatches
    DefectLists <- OneDefect
    GateSetups = {TRUE}
    MaxActive = 1
    MaxFaulty = 1
INVARIANT UniqueCatalog
PROPERTY InFlightSettles
CHECK_DEADLOCK FALSE
