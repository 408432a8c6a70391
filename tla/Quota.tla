-------------------------------- MODULE Quota --------------------------------
(***************************************************************************)
(* The quota manager of internal/dispatch/quota.go.  Usage is kept in       *)
(* memory, loaded from the store when something is first recorded of a      *)
(* tenant, and saved after every recording.  Every method holds the lock;   *)
(* CheckQuota, which resets windows that are over, only the read lock: two  *)
(* of them write the same zeroes, and the later of two ends of a window.    *)
(*                                                                         *)
(* Time is counted in ticks.  The manager is lost when its process ends,    *)
(* the store is not.                                                       *)
(***************************************************************************)
EXTENDS Integers, FiniteSets

CONSTANTS
    Tenants,
    MaxConcurrentTickets, MaxTicketsPerHour, MaxTokensPerDay,   \* of every tenant
    Hour, Day,      \* in ticks
    MaxTime         \* bound

ASSUME QuotaAssumption ==
    /\ {MaxConcurrentTickets, MaxTicketsPerHour, MaxTokensPerDay} \subseteq Nat
    /\ Hour \in Nat /\ Day \in Nat /\ MaxTime \in Nat

VARIABLES
    now,
    usage,      \* QuotaManager.usage
    store       \* what the QuotaStore holds

quotaVars == <<now, usage, store>>

Unknown == [concurrent |-> -1]
Usages  == [concurrent: Nat, hour: Nat, tokens: Nat, hourEnd: Nat, dayEnd: Nat]
Unused  == [concurrent |-> 0, hour |-> 0, tokens |-> 0, hourEnd |-> now + Hour, dayEnd |-> now + Day]

QuotaInit ==
    /\ now = 0
    /\ usage = [t \in Tenants |-> Unknown]
    /\ store = [t \in Tenants |-> Unknown]

Tick ==
    /\ now < MaxTime
    /\ now' = now + 1
    /\ UNCHANGED <<usage, store>>

\* Mutant: the end of a window resets every counter.
ResetAll(u) ==
    IF now > u.hourEnd THEN [Unused EXCEPT !.dayEnd = u.dayEnd] ELSE u

\* resetIfExpired: running tickets are counted until they end.
ResetIfExpired(u) ==
    LET hourly == IF now > u.hourEnd THEN [u EXCEPT !.hour = 0, !.hourEnd = now + Hour] ELSE u
    IN  IF now > hourly.dayEnd THEN [hourly EXCEPT !.tokens = 0, !.dayEnd = now + Day] ELSE hourly

\* getUsage: nothing is loaded.  A tenant of whom nothing was recorded yet has used nothing.
Seen(t) == ResetIfExpired(IF usage[t] = Unknown THEN Unused ELSE usage[t])

\* Mutant: one more ticket than may run at a time.
WithinQuotaOffByOne(t) ==
    /\ Seen(t).concurrent <= MaxConcurrentTickets
    /\ Seen(t).hour < MaxTicketsPerHour
    /\ Seen(t).tokens < MaxTokensPerDay

WithinQuota(t) ==
    /\ Seen(t).concurrent < MaxConcurrentTickets
    /\ Seen(t).hour < MaxTicketsPerHour
    /\ Seen(t).tokens < MaxTokensPerDay

CheckQuota(t) ==
    /\ usage' = IF usage[t] = Unknown THEN usage ELSE [usage EXCEPT ![t] = Seen(t)]
    /\ UNCHANGED <<now, store>>

\* getOrCreateUsage: what is loaded is what the store has, or nothing if it has or gives none.
Loaded(t) ==
    IF usage[t] # Unknown THEN {usage[t]}
    ELSE IF store[t] = Unknown THEN {Unused} ELSE {store[t], Unused}

\* persistUsage, whose error is dropped.
Persist(t, u) ==
    /\ usage' = [usage EXCEPT ![t] = u]
    /\ store' \in {store, [store EXCEPT ![t] = u]}
    /\ UNCHANGED now

RecordTicketStart(t) ==
    \E u \in Loaded(t) :
        Persist(t, [ResetIfExpired(u) EXCEPT !.concurrent = @ + 1, !.hour = @ + 1])

RecordTicketEnd(t) ==
    \E u \in Loaded(t) :
        Persist(t, [u EXCEPT !.concurrent = IF @ > 0 THEN @ - 1 ELSE @])

RecordTokens(t, tokens) ==
    \E u \in Loaded(t) :
        Persist(t, [ResetIfExpired(u) EXCEPT !.tokens = @ + tokens])

\* The process ends; the store stays as it is.
QuotaLost ==
    /\ usage' = [t \in Tenants |-> Unknown]
    /\ UNCHANGED <<now, store>>
===============================================================================
