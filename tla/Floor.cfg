\* Up to two routers and two signals; two callers and a pair; two managers, a plugin and two versions.
SPECIFICATION Spec
CONSTANTS
    r1 = r1
    r2 = r2
    s1 = s1
    s2 = s2
    a1 = a1
    t1 = t1
    c1 = c1
    c2 = c2
    pair = pair
    m1 = m1
    m2 = m2
    plugin = plugin
    Other = Other
    Torn = Torn
    None = None
    Managers = {m1, m2}
    Slugs = {plugin}
    MaxVersion = 2
    Casts <- TheCasts
    Routers = {r1, r2}
    Signals = {s1, s2}
    DefectLists <- Lists
    Artifacts = {a1}
    Tickets = {t1}
    Callers = {c1, c2}
    Pairs = {pair}
    Phases = {"diagnose", "rehab", "holiday"}
CHECK_DEADLOCK FALSE
INVARIANTS
    LedgerTellsTruth
    PhaseOnlyInMaintenance
    UpToDateIsWhole
PROPERTIES
    HaltsHandledOnce
    EverySignalAnswered
