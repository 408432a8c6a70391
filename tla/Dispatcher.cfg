\* Two calls of Run on one ticket, in one process.
SPECIFICATION Spec
CONSTANTS
    c1 = c1
    c2 = c2
    c3 = c3
    t1 = t1
    t2 = t2
    p1 = p1
    p2 = p2
    a1 = a1
    a2 = a2
    h1 = h1
    h2 = h2
    schema = schema
    Calls = {c1, c2}
    Procs = {p1}
    ProcOf <- SharedProc
    Tickets = {t1}
    ArtifactIDs = {a1, a2}
    Hashes = {h1, h2}
    Duplicate = dup
    Classes = {dup, schema}
    Batches <- MCBatches
    DefectLists <- OneDefect
    GateSetups = {TRUE, FALSE}
    MaxActive = 2
    MaxFaulty = 2
SYMMETRY CallSymmetry
INVARIANTS
    RowHasBlob
    CompletedRunIsStored
    CompletedTicketHasWitness
    SignalsFollowTheRecord
    ResultMatchesRun
    InFlightHasOwner
    SameClassStopsBetweenResets
PROPERTY LedgerSpec
CHECK_DEADLOCK FALSE
