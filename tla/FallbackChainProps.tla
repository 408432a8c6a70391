-------------------------- MODULE FallbackChainProps --------------------------
(***************************************************************************)
(* What is asserted of the circuit breakers and of the chain over them.    *)
(***************************************************************************)
EXTENDS FallbackChain

BreakerTypeOK ==
    /\ state \in [Breakers -> CircuitState]
    /\ failures \in [Breakers -> 0..FailureThreshold]
    /\ successes \in [Breakers -> 0..(SuccessThreshold - 1)]
    /\ age \in [Breakers -> 0..Old]
    /\ lost \in [Breakers -> 0..FailureThreshold]
    /\ won \in [Breakers -> 0..SuccessThreshold]

CallTypeOK ==
    /\ concurrent \in BOOLEAN
    /\ added \in 0..Length
    /\ pc \in [Callers -> Stages]
    /\ upto \in [Callers -> 0..Length]
    /\ at \in [Callers -> 1..(Length + 1)]
    /\ seen \in [Callers -> 0..Old]

TypeOK == BreakerTypeOK /\ CallTypeOK

\* The circuit leaves closed by failures only when FailureThreshold of them were reported
\* with no success between them, late answers of earlier calls included.
TripsOnStreak ==
    [][\A b \in Breakers :
          state[b] = "closed" /\ state'[b] = "open" => lost'[b] = FailureThreshold]_vars

\* It closes, unless an operator resets it, only when SuccessThreshold successes were
\* reported with no failure between them, whoever reopened or re-halved it meanwhile.
ClosesOnStreak ==
    [][\A b \in Breakers :
          state[b] # "closed" /\ state'[b] = "closed" /\ ~Reset(b)
              => won'[b] = SuccessThreshold]_vars

Waited(b) == state[b] = "open" /\ age[b] > Timeout

\* Callers that do not overlap see the documented diagram: half-open is entered from open
\* only, and only after the timeout since the last failure.
AloneWaitsForTimeout ==
    [][~concurrent =>
          \A b \in Breakers : state[b] # "half-open" /\ state'[b] = "half-open" => Waited(b)]_vars

\* "Time before transitioning open -> half-open" (circuit_breaker.go:35): callers that
\* overlap do not cut it short.
WaitsForTimeout ==
    [][\A b \in Breakers : state[b] = "open" /\ state'[b] = "half-open" => Waited(b)]_vars

\* The steps c may still take before Execute returns: four for every provider it has not done with.
StepsLeft(c) ==
    IF pc[c] = "idle" THEN 0
    ELSE 4 * (Length + 1 - at[c]) + CASE pc[c] = "next" -> 4 [] pc[c] = "judge" -> 3
                                      [] pc[c] = "half_open" -> 2 [] pc[c] = "execute" -> 1

\* Execute never goes back: a step of its caller leaves it fewer steps, and no step of another
\* caller, operator or clock gives it one more, however the breakers flap.
ExecuteIsBounded ==
    /\ [](\A c \in Callers : StepsLeft(c) \in 0..(4 * Length + 4))
    /\ [][\A c \in Callers :
            pc[c] # "idle" => StepsLeft(c)' < StepsLeft(c) \/ UNCHANGED <<pc[c], at[c], upto[c]>>]_vars

\* Every call of Execute returns, however the breakers flap while it runs.
ExecuteReturns == \A c \in Callers : pc[c] # "idle" ~> pc[c] = "idle"

\* The first provider's breaker does not stay open for ever while somebody calls, though
\* failures of earlier calls go on renewing its timeout ("breaker auto-recovers after
\* timeout", docs/guides/operator-runbook.md:144).
FirstRecovers ==
    BreakerOf[1] # NoBreaker => (state[BreakerOf[1]] = "open" ~> state[BreakerOf[1]] # "open")

-------------------------------------------------------------------------------
(* The inductive invariants behind them *)

\* The counters never run ahead of the reports.
CountersInv ==
    \A b \in Breakers :
        /\ state[b] = "closed" => failures[b] < FailureThreshold /\ failures[b] <= lost[b]
        /\ state[b] = "half-open" => successes[b] <= won[b]
        /\ state[b] # "half-open" => successes[b] = 0

\* What a caller knows about the chain and about its provider.
CallInv ==
    \A c \in Callers :
        /\ pc[c] \in {"judge", "half_open", "execute"} => at[c] <= upto[c]
        /\ pc[c] \in {"judge", "half_open"} => Breaker(c) # NoBreaker
        /\ pc[c] = "idle" => at[c] = 1

\* Without overlap the copy of Allow is still true when it is used.
AloneInv ==
    ~concurrent =>
        /\ \A c, d \in Callers : pc[c] # "idle" /\ pc[d] # "idle" => c = d
        /\ \A c \in Callers :
              /\ pc[c] \in {"judge", "half_open"} =>
                    state[Breaker(c)] = "open" /\ seen[c] = age[Breaker(c)]
              /\ pc[c] = "half_open" => seen[c] > Timeout

IInv == TypeOK /\ CountersInv /\ CallInv /\ AloneInv
===============================================================================
