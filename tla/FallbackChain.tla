---------------------------- MODULE FallbackChain ----------------------------
(***************************************************************************)
(* FallbackChain.Execute of internal/resilience/fallback.go over circuit    *)
(* breakers: callers in many goroutines try the providers in order, each    *)
(* guarded by its breaker.  Allow takes its breaker's lock twice, to copy    *)
(* the state and to write half-open, so others come in between.             *)
(***************************************************************************)
EXTENDS CircuitBreaker

CONSTANTS
    Callers,        \* goroutines that call Execute, again and again
    Length,         \* providers that are added in the end
    BreakerOf,      \* of each provider in the chain's order; it may have none, or share one
    NoBreaker,
    Concurrency     \* whether callers overlap: {TRUE}, {FALSE} or both

Chain == 1..Length

ASSUME ChainAssumption ==
    /\ Length \in Nat \ {0}
    /\ NoBreaker \notin Breakers
    /\ BreakerOf \in [Chain -> Breakers \union {NoBreaker}]
    /\ Concurrency \subseteq BOOLEAN

VARIABLES
    concurrent, \* never changes
    added,      \* length of the chain now
    pc,         \* where in Execute each caller is
    upto,       \* length of the caller's copy of the chain
    at,         \* the provider it has come to
    seen        \* age of the lastFailureTime that Allow copied, Old once it is forgotten

callVars == <<pc, upto, at, seen>>
vars     == <<breakerVars, concurrent, added, callVars>>

Stages == {"idle", "next", "judge", "half_open", "execute"}

Init ==
    /\ BreakerInit
    /\ concurrent \in Concurrency
    /\ added = 0
    /\ pc = [c \in Callers |-> "idle"]
    /\ upto = [c \in Callers |-> 0]
    /\ at = [c \in Callers |-> 1]
    /\ seen = [c \in Callers |-> Old]

-------------------------------------------------------------------------------

Breaker(c) == BreakerOf[at[c]]
Quiet == \A c \in Callers : pc[c] = "idle"

Goto(c, from, to) == pc[c] = from /\ pc' = [pc EXCEPT ![c] = to]

\* Allow returns, and its local variables go; so do those of Execute at its end.
Forget(c) == seen' = [seen EXCEPT ![c] = Old]
Return(c, from) ==
    /\ Goto(c, from, "idle")
    /\ upto' = [upto EXCEPT ![c] = 0]
    /\ at' = [at EXCEPT ![c] = 1]

Tick ==
    /\ age' = [b \in Breakers |-> Older(age[b])]
    /\ seen' = [c \in Callers |-> Older(seen[c])]
    /\ UNCHANGED <<state, failures, successes, lost, won, concurrent, added, pc, upto, at>>

AddProvider ==
    /\ added < Length
    /\ added' = added + 1
    /\ UNCHANGED <<breakerVars, concurrent, callVars>>

\* An operator resets a breaker.
Restore(b) ==
    /\ concurrent \/ Quiet
    /\ Reset(b)
    /\ UNCHANGED <<concurrent, added, callVars>>

\* Execute begins with a copy of the chain.
Start(c) ==
    /\ concurrent \/ Quiet
    /\ Goto(c, "idle", "next")
    /\ upto' = [upto EXCEPT ![c] = added]
    /\ UNCHANGED <<breakerVars, concurrent, added, at, seen>>

\* Mutant: the loop tries the provider that failed again.
AdvanceNot(c, from) ==
    /\ Goto(c, from, "next")
    /\ Forget(c)
    /\ UNCHANGED <<upto, at, concurrent, added>>

\* The loop goes on to the next provider.
Advance(c, from) ==
    /\ Goto(c, from, "next")
    /\ at' = [at EXCEPT ![c] = @ + 1]
    /\ Forget(c)
    /\ UNCHANGED <<upto, concurrent, added>>

\* All providers exhausted: Execute returns an error.
GiveUp(c) ==
    /\ at[c] > upto[c]
    /\ Return(c, "next")
    /\ UNCHANGED <<breakerVars, concurrent, added, seen>>

\* Allow, first half: copy state and lastFailureTime under the read lock; unless the
\* circuit is open, or if there is no breaker, the provider is called.
Ask(c) ==
    /\ at[c] <= upto[c]
    /\ \/ /\ Breaker(c) = NoBreaker
          /\ Goto(c, "next", "execute")
          /\ UNCHANGED seen
       \/ /\ Breaker(c) # NoBreaker
          /\ state[Breaker(c)] # "open"
          /\ Goto(c, "next", "execute")
          /\ UNCHANGED seen
       \/ /\ Breaker(c) # NoBreaker
          /\ state[Breaker(c)] = "open"
          /\ Goto(c, "next", "judge")
          /\ seen' = [seen EXCEPT ![c] = age[Breaker(c)]]
    /\ UNCHANGED <<breakerVars, concurrent, added, upto, at>>

\* Mutant: a call that is turned away counts as a failure.
RejectAsFailure(c) ==
    /\ seen[c] <= Timeout
    /\ Advance(c, "judge")
    /\ RecordFailure(Breaker(c))

\* The copied failure is recent: on to the next provider.
Reject(c) ==
    /\ seen[c] <= Timeout
    /\ Advance(c, "judge")
    /\ UNCHANGED breakerVars

\* Mutant: the time since the failure is not looked at.
PermitAlways(c) ==
    /\ Goto(c, "judge", "half_open")
    /\ UNCHANGED <<breakerVars, concurrent, added, upto, at, seen>>

\* Timeout has passed since the copied failure.
Permit(c) ==
    /\ seen[c] > Timeout
    /\ Goto(c, "judge", "half_open")
    /\ UNCHANGED <<breakerVars, concurrent, added, upto, at, seen>>

\* Allow, second half: take the lock again and write half-open.
Probe(c) ==
    /\ Goto(c, "half_open", "execute")
    /\ HalfOpen(Breaker(c))
    /\ Forget(c)
    /\ UNCHANGED <<concurrent, added, upto, at>>

\* The provider answers, and its breaker is told: with a result Execute returns it,
\* with an error the loop goes on.
Succeed(c) ==
    /\ Return(c, "execute")
    /\ IF Breaker(c) = NoBreaker THEN UNCHANGED breakerVars ELSE RecordSuccess(Breaker(c))
    /\ UNCHANGED <<concurrent, added, seen>>

Fail(c) ==
    /\ Advance(c, "execute")
    /\ IF Breaker(c) = NoBreaker THEN UNCHANGED breakerVars ELSE RecordFailure(Breaker(c))

-------------------------------------------------------------------------------

Execute(c) == GiveUp(c) \/ Ask(c) \/ Reject(c) \/ Permit(c) \/ Probe(c) \/ Succeed(c) \/ Fail(c)

Next ==
    \/ Tick \/ AddProvider
    \/ \E b \in Breakers : Restore(b)
    \/ \E c \in Callers : Start(c) \/ Execute(c)

Spec == Init /\ [][Next]_vars

\* Time passes, goroutines run, providers answer or fail, and somebody goes on calling.
FairSpec ==
    /\ Spec
    /\ WF_vars(Tick)
    /\ \A c \in Callers : WF_vars(Execute(c))
    /\ WF_vars(\E c \in Callers : Start(c))
===============================================================================
