\* One process, three calls in turn on two tickets.
SPECIFICATION Spec
CONSTANTS
    c1 = c1
    c2 = c2
    c3 = c3
    t1 = t1
    t2 = t2
    p1 = p1
    p2 = p2
    a1 = a1
    a2 = a2
    h1 = h1
    h2 = h2
    schema = schema
    Calls = {c1, c2, c3}
    Procs = {p1}
    ProcOf <- SharedProc
    Tickets = {t1, t2}
    ArtifactIDs = {a1, a2}
    Hashes = {h1, h2}
    Duplicate = dup
    Classes = {dup, schema}
    Batches <- NoArtifacts
    DefectLists <- OneDefect
    GateSetups = {TRUE}
    MaxActive = 1
    MaxFaulty = 0
INVARIANT SameClassTwiceStops
CHECK_DEADLOCK FALSE
