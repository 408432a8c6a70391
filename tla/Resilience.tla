------------------------------ MODULE Resilience ------------------------------
(***************************************************************************)
(* Of internal/resilience: the sliding window of rate_limiter.go, the keys  *)
(* of idempotency.go, the retries of backoff.go and the table of dlq.go.    *)
(* Each operation is atomic, by a lock or by its one statement; what a      *)
(* caller does between two of them is not protected by any.                *)
(***************************************************************************)
EXTENDS Integers, Sequences, FiniteSets

CONSTANTS
    MaxRequests,    \* per window
    Window,         \* in ticks
    MaxRetries,
    Keys,           \* idempotency keys
    Retention       \* of a key, in ticks: 24 hours

ASSUME ResilienceAssumption ==
    /\ MaxRequests \in Nat /\ Window \in Nat /\ MaxRetries \in Nat /\ Retention \in Nat

VARIABLES
    requests,   \* RateLimiter.requests: when the last ones were allowed
    allowed,    \* ghost: when any were, since the limiter was made
    recorded,   \* idempotency_keys: when a key was recorded
    letters     \* tickets_dlq

resilienceVars == <<requests, allowed, recorded, letters>>

Never == -1

ResilienceInit ==
    /\ requests = <<>>
    /\ allowed = <<>>
    /\ recorded = [k \in Keys |-> Never]
    /\ letters = <<>>

\* Mutant: a request as old as the window is forgotten.
ForgetEarly(log, start) ==
    {n \in 0..Len(log) : (n > 0 => log[n] <= start) /\ (n < Len(log) => log[n + 1] > start)}

\* Where the binary search can end: it only knows the requests next to the place it stops at.
Cuts(log, start) ==
    {n \in 0..Len(log) : (n > 0 => log[n] < start) /\ (n < Len(log) => log[n + 1] >= start)}

\* The logs that pruning may leave; the start of the window belongs to it.
Pruned(time) == {SubSeq(requests, n + 1, Len(requests)) : n \in Cuts(requests, time - Window)}

\* Allow; CurrentRate changes nothing, and leaves out a request as old as the window.
Allow(time) ==
    \E kept \in Pruned(time) :
        /\ Len(kept) < MaxRequests
        /\ requests' = Append(kept, time)
        /\ allowed' = Append(allowed, time)

Refuse(time) ==
    \E kept \in Pruned(time) :
        /\ Len(kept) >= MaxRequests
        /\ requests' = kept
        /\ UNCHANGED allowed

\* Check of a key.
Duplicate(k) == recorded[k] # Never

\* INSERT ... ON CONFLICT DO NOTHING.
Record(k, time) == recorded' = [recorded EXCEPT ![k] = IF @ = Never THEN time ELSE @]

\* cleanup_idempotency_keys.
CleanUp(time) ==
    recorded' = [k \in Keys |-> IF recorded[k] < time - Retention THEN Never ELSE recorded[k]]

\* RetryWithBackoff calls once more after every failure but the last one.
RetryAfter(attempt) == attempt < MaxRetries

\* Enqueue adds a row, also for a ticket that has one; Resolve marks one, also a second time.
Letter(ticket, attempts) == [ticket |-> ticket, attempts |-> attempts, resolved |-> FALSE]
Enqueue(letter) == letters' = Append(letters, letter)
Resolve(i)      == letters' = [letters EXCEPT ![i].resolved = TRUE]
===============================================================================
