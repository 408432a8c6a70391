\* Two workers, two tickets of one tenant, one at a time.
SPECIFICATION Spec
CONSTANTS
    k1 = k1
    k2 = k2
    tenant = tenant
    Tenants = {tenant}
    MaxConcurrentTickets = 1
    MaxTicketsPerHour = 1
    MaxTokensPerDay = 1
    Hour = 1
    Day = 2
    MaxTime = 3
    MaxRequests = 2
    Window = 1
    MaxRetries = 1
    Keys = {k1}
    Retention = 1
    Workers = {w1, w2}
    Tickets = {k1, k2}
    TenantOf <- OneTenant
    KeyOf <- OneKey
    PriorityOf <- ThePriorities
    Tokens = {1}
    MaxPushes = 2
    MaxCrashes = 1
SYMMETRY Same
CHECK_DEADLOCK FALSE
INVARIANTS
    NeverUndercounts
    QuotaHolds
    RecordedIsNotRepeated
    WindowHolds
