---------------------------- MODULE CircuitBreaker ----------------------------
(***************************************************************************)
(* CircuitBreaker of internal/resilience/circuit_breaker.go: the four       *)
(* critical sections of a breaker, as actions on its fields.  Who calls     *)
(* them, and what happens between the critical sections of one Allow, is in *)
(* FallbackChain.                                                          *)
(*                                                                         *)
(* Of lastFailureTime the code uses only whether more than Timeout has      *)
(* passed since, so age counts ticks since then and stops at Old.           *)
(***************************************************************************)
EXTENDS Naturals

CONSTANTS
    Breakers,
    FailureThreshold,
    SuccessThreshold,
    Timeout

ASSUME ConfigAssumption ==
    /\ FailureThreshold \in Nat \ {0}
    /\ SuccessThreshold \in Nat \ {0}
    /\ Timeout \in Nat

VARIABLES
    state,      \* closed, open or half-open
    failures,
    successes,
    age,        \* ticks since lastFailureTime
    lost,       \* ghost: failures reported since the last success, up to FailureThreshold
    won         \* ghost: successes reported since the last failure, up to SuccessThreshold

breakerVars == <<state, failures, successes, age, lost, won>>

CircuitState == {"closed", "open", "half-open"}

Old == Timeout + 1
Older(n) == IF n < Old THEN n + 1 ELSE Old

\* One more, counting no further than max.
Counted(n, max) == IF n < max THEN n + 1 ELSE max

\* lastFailureTime is the zero time at first.
BreakerInit ==
    /\ state = [b \in Breakers |-> "closed"]
    /\ failures = [b \in Breakers |-> 0]
    /\ successes = [b \in Breakers |-> 0]
    /\ age = [b \in Breakers |-> Old]
    /\ lost = [b \in Breakers |-> 0]
    /\ won = [b \in Breakers |-> 0]

-------------------------------------------------------------------------------

\* A success in half-open: counted, and enough of them close the circuit.
ProbeSucceeded(b) ==
    /\ state[b] = "half-open"
    /\ \/ /\ successes[b] + 1 < SuccessThreshold
          /\ successes' = [successes EXCEPT ![b] = @ + 1]
          /\ UNCHANGED <<state, failures>>
       \/ /\ successes[b] + 1 >= SuccessThreshold
          /\ state' = [state EXCEPT ![b] = "closed"]
          /\ failures' = [failures EXCEPT ![b] = 0]
          /\ successes' = [successes EXCEPT ![b] = 0]

\* Mutant: a success does not end a row of failures.
RecordSuccessKeepsFailures(b) ==
    /\ \/ ProbeSucceeded(b)
       \/ state[b] # "half-open" /\ UNCHANGED <<state, failures, successes>>
    /\ won' = [won EXCEPT ![b] = Counted(@, SuccessThreshold)]
    /\ lost' = [lost EXCEPT ![b] = 0]
    /\ UNCHANGED age

\* A success reported while open changes nothing.
RecordSuccess(b) ==
    /\ \/ ProbeSucceeded(b)
       \/ /\ state[b] = "closed"
          /\ failures' = [failures EXCEPT ![b] = 0]
          /\ UNCHANGED <<state, successes>>
       \/ state[b] = "open" /\ UNCHANGED <<state, failures, successes>>
    /\ won' = [won EXCEPT ![b] = Counted(@, SuccessThreshold)]
    /\ lost' = [lost EXCEPT ![b] = 0]
    /\ UNCHANGED age

\* A failure while closed: counted, and enough of them open the circuit.
CallFailed(b) ==
    /\ state[b] = "closed"
    /\ failures' = [failures EXCEPT ![b] = @ + 1]
    /\ state' = IF failures[b] + 1 >= FailureThreshold
                  THEN [state EXCEPT ![b] = "open"] ELSE state
    /\ UNCHANGED successes

\* Mutant: a failed probe leaves the circuit half-open.
ProbeFailedStays(b) ==
    /\ state[b] = "half-open"
    /\ UNCHANGED <<state, failures, successes>>

\* Any failure in half-open opens the circuit again.
ProbeFailed(b) ==
    /\ state[b] = "half-open"
    /\ state' = [state EXCEPT ![b] = "open"]
    /\ successes' = [successes EXCEPT ![b] = 0]
    /\ UNCHANGED failures

\* A failure reported while open only renews lastFailureTime.
RecordFailure(b) ==
    /\ \/ CallFailed(b)
       \/ ProbeFailed(b)
       \/ state[b] = "open" /\ UNCHANGED <<state, failures, successes>>
    /\ age' = [age EXCEPT ![b] = 0]
    /\ lost' = [lost EXCEPT ![b] = Counted(@, FailureThreshold)]
    /\ won' = [won EXCEPT ![b] = 0]

\* The write of Allow, whatever the state has become since Allow read it.
HalfOpen(b) ==
    /\ state' = [state EXCEPT ![b] = "half-open"]
    /\ successes' = [successes EXCEPT ![b] = 0]
    /\ UNCHANGED <<failures, age, lost, won>>

\* Reset leaves lastFailureTime.
Reset(b) ==
    /\ state' = [state EXCEPT ![b] = "closed"]
    /\ failures' = [failures EXCEPT ![b] = 0]
    /\ successes' = [successes EXCEPT ![b] = 0]
    /\ UNCHANGED <<age, lost, won>>
===============================================================================
