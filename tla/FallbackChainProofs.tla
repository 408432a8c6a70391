-------------------------- MODULE FallbackChainProofs --------------------------
(***************************************************************************)
(* Theorems about circuit breakers under concurrent callers, for every      *)
(* number of callers, breakers and providers and every threshold.           *)
(***************************************************************************)
EXTENDS FallbackChainProps, TLAPS

\* What a breaker's own critical sections preserve.
BreakerInv == BreakerTypeOK /\ CountersInv

\* RecordSuccess keeps the counters within the reports.
LEMMA SuccessKeeps ==
    ASSUME BreakerInv, NEW b \in Breakers, RecordSuccess(b)
    PROVE  BreakerInv'
  BY ConfigAssumption
  DEF BreakerInv, BreakerTypeOK, CountersInv, RecordSuccess, ProbeSucceeded, Counted, CircuitState

\* RecordFailure keeps the counters within the reports.
LEMMA FailureKeeps ==
    ASSUME BreakerInv, NEW b \in Breakers, RecordFailure(b)
    PROVE  BreakerInv'
  BY ConfigAssumption
  DEF BreakerInv, BreakerTypeOK, CountersInv, RecordFailure, CallFailed, ProbeFailed, Counted,
      CircuitState, Old

\* So does the write of Allow, whatever state it overwrites.
LEMMA HalfOpenKeeps ==
    ASSUME BreakerInv, NEW b \in Breakers, HalfOpen(b)
    PROVE  BreakerInv'
  BY ConfigAssumption
  DEF BreakerInv, BreakerTypeOK, CountersInv, HalfOpen, CircuitState

\* And an operator's reset.
LEMMA ResetKeeps ==
    ASSUME BreakerInv, NEW b \in Breakers, Reset(b)
    PROVE  BreakerInv'
  BY ConfigAssumption
  DEF BreakerInv, BreakerTypeOK, CountersInv, Reset, CircuitState

\* A step that leaves the breakers alone.
LEMMA QuietKeeps ==
    ASSUME BreakerInv, UNCHANGED breakerVars
    PROVE  BreakerInv'
  BY DEF BreakerInv, BreakerTypeOK, CountersInv, breakerVars

\* Time passes.
LEMMA TickKeeps ==
    ASSUME TypeOK, CountersInv, Tick
    PROVE  BreakerInv' /\ seen' \in [Callers -> 0..Old]
  BY ConfigAssumption
  DEF TypeOK, CallTypeOK, BreakerInv, BreakerTypeOK, CountersInv, Tick, Older, Old

\* A provider's breaker, if it has one, is a breaker.
LEMMA BreakerIsOne ==
    ASSUME TypeOK, CallInv, NEW c \in Callers,
           \/ pc[c] \in {"judge", "half_open", "execute"}
           \/ pc[c] = "next" /\ at[c] <= upto[c]
    PROVE  /\ Breaker(c) \in Breakers \union {NoBreaker}
           /\ pc[c] \in {"judge", "half_open"} => Breaker(c) \in Breakers
  <1>1. at[c] \in Chain
    BY ChainAssumption DEF TypeOK, CallTypeOK, CallInv, Chain
  <1> QED  BY <1>1, ChainAssumption DEF CallInv, Breaker

\* Every step of the system preserves the breakers' part of the invariant.
LEMMA BreakersKeep ==
    ASSUME TypeOK, CountersInv, CallInv, [Next]_vars
    PROVE  BreakerInv'
  <1>0. BreakerInv  BY DEF BreakerInv, TypeOK
  <1>1. CASE Tick  BY <1>1, TickKeeps
  <1>2. CASE AddProvider  BY <1>0, <1>2, QuietKeeps DEF AddProvider
  <1>3. ASSUME NEW b \in Breakers, Restore(b) PROVE BreakerInv'
    BY <1>0, <1>3, ResetKeeps DEF Restore
  <1>4. ASSUME NEW c \in Callers, Start(c) \/ Execute(c) PROVE BreakerInv'
    <2>1. CASE Start(c) \/ GiveUp(c) \/ Ask(c) \/ Reject(c) \/ Permit(c)
      BY <1>0, <2>1, QuietKeeps DEF Start, GiveUp, Ask, Reject, Permit
    <2>2. CASE Probe(c)
      <3>1. pc[c] = "half_open"  BY <2>2 DEF Probe, Goto
      <3> QED  BY <1>0, <2>2, <3>1, BreakerIsOne, HalfOpenKeeps DEF Probe
    <2>3. CASE Succeed(c)
      <3>1. pc[c] = "execute"  BY <2>3 DEF Succeed, Return, Goto
      <3> QED  BY <1>0, <2>3, <3>1, BreakerIsOne, SuccessKeeps, QuietKeeps DEF Succeed
    <2>4. CASE Fail(c)
      <3>1. pc[c] = "execute"  BY <2>4 DEF Fail, Advance, Goto
      <3> QED  BY <1>0, <2>4, <3>1, BreakerIsOne, FailureKeeps, QuietKeeps DEF Fail
    <2> QED  BY <1>4, <2>1, <2>2, <2>3, <2>4 DEF Execute
  <1>5. CASE UNCHANGED vars  BY <1>0, <1>5, QuietKeeps DEF vars
  <1> QED  BY <1>1, <1>2, <1>3, <1>4, <1>5 DEF Next

\* Every step of the system preserves what a caller knows about the chain.
LEMMA CallsKeep ==
    ASSUME TypeOK, CountersInv, CallInv, [Next]_vars
    PROVE  CallTypeOK' /\ CallInv'
  <1> USE ConfigAssumption, ChainAssumption DEF TypeOK, CallTypeOK, CallInv, Breaker, Stages
  <1>1. CASE Tick  BY <1>1, TickKeeps DEF Tick
  <1>2. CASE AddProvider  BY <1>2 DEF AddProvider, callVars
  <1>3. ASSUME NEW b \in Breakers, Restore(b) PROVE CallTypeOK' /\ CallInv'
    BY <1>3 DEF Restore, callVars
  <1>4. ASSUME NEW c \in Callers, Start(c) \/ Execute(c) PROVE CallTypeOK' /\ CallInv'
    <2>1. CASE Start(c)  BY <2>1 DEF Start, Goto
    <2>2. CASE GiveUp(c)  BY <2>2 DEF GiveUp, Return, Goto
    <2>3. CASE Ask(c)
      <3>1. pc[c] = "next" /\ at[c] <= upto[c]  BY <2>3 DEF Ask, Goto
      <3>2. Breaker(c) \in Breakers \union {NoBreaker}  BY <3>1, BreakerIsOne
      <3>3. BreakerTypeOK  OBVIOUS
      <3> QED  BY <2>3, <3>1, <3>2, <3>3 DEF Ask, Goto, BreakerTypeOK
    <2>4. CASE Reject(c)  BY <2>4 DEF Reject, Advance, Goto, Forget, Old
    <2>5. CASE Permit(c)  BY <2>5 DEF Permit, Goto
    <2>6. CASE Probe(c)  BY <2>6 DEF Probe, Goto, Forget, Old
    <2>7. CASE Succeed(c)  BY <2>7 DEF Succeed, Return, Goto
    <2>8. CASE Fail(c)  BY <2>8 DEF Fail, Advance, Goto, Forget, Old
    <2> QED  BY <1>4, <2>1, <2>2, <2>3, <2>4, <2>5, <2>6, <2>7, <2>8 DEF Execute
  <1>5. CASE UNCHANGED vars  BY <1>5 DEF vars, callVars
  <1> QED  BY <1>1, <1>2, <1>3, <1>4, <1>5 DEF Next

\* Without overlap a caller's copy of its breaker stays true until it is used.
LEMMA AloneKeeps ==
    ASSUME TypeOK, CallInv, AloneInv, [Next]_vars
    PROVE  AloneInv'
  <1> SUFFICES ASSUME ~concurrent' PROVE AloneInv'
    BY DEF AloneInv
  <1>0. ~concurrent
    BY DEF Next, Tick, AddProvider, Restore, Start, Execute, GiveUp, Ask, Reject, Permit,
           Probe, Succeed, Fail, Advance, vars
  <1> USE DEF AloneInv
  <1>1. CASE Tick
    <2>1. \A c \in Callers : pc[c] \in {"judge", "half_open"} => Breaker(c) \in Breakers
      BY BreakerIsOne
    <2>2. \A c \in Callers : seen[c] \in 0..Old  BY DEF TypeOK, CallTypeOK
    <2>3. \A c \in Callers : seen[c] > Timeout => Older(seen[c]) > Timeout
      BY <2>2, ConfigAssumption DEF Older, Old
    <2> QED  BY <1>0, <1>1, <2>1, <2>3 DEF Tick, Breaker
  <1>2. CASE AddProvider  BY <1>0, <1>2 DEF AddProvider, callVars, breakerVars, Breaker
  <1>3. ASSUME NEW b \in Breakers, Restore(b) PROVE AloneInv'
    BY <1>0, <1>3 DEF Restore, Quiet, callVars, Breaker
  <1>4. ASSUME NEW c \in Callers, Start(c) \/ Execute(c) PROVE AloneInv'
    <2>1. CASE Start(c)
      <3>1. \A d \in Callers : pc[d] = "idle"  BY <1>0, <2>1 DEF Start, Quiet
      <3>2. \A d \in Callers : pc'[d] = IF d = c THEN "next" ELSE "idle"
        BY <2>1, <3>1 DEF Start, Goto, TypeOK, CallTypeOK
      <3> QED  BY <3>2
    <2>2. CASE Execute(c)
      <3>1. pc[c] # "idle"
        BY <2>2 DEF Execute, GiveUp, Ask, Reject, Permit, Probe, Succeed, Fail, Advance,
                    Return, Goto
      <3>2. \A d \in Callers : d # c => pc[d] = "idle"  BY <1>0, <3>1
      <3>3. \A d \in Callers : d # c => pc'[d] = "idle"
        BY <2>2, <3>2 DEF Execute, GiveUp, Ask, Reject, Permit, Probe, Succeed, Fail,
                          Advance, Return, Goto, TypeOK, CallTypeOK
      <3>4. \/ /\ pc'[c] = "judge"
               /\ state[Breaker(c)] = "open" /\ seen'[c] = age[Breaker(c)]
               /\ UNCHANGED <<breakerVars, at>>
            \/ /\ pc[c] = "judge" /\ pc'[c] = "half_open" /\ seen[c] > Timeout
               /\ UNCHANGED <<breakerVars, at, seen>>
            \/ pc'[c] \in {"idle", "next", "execute"}
        BY <2>2 DEF Execute, GiveUp, Ask, Reject, Permit, Probe, Succeed, Fail, Advance,
                    Return, Goto, TypeOK, CallTypeOK
      <3> QED  BY <1>0, <3>3, <3>4 DEF Breaker, breakerVars
    <2> QED  BY <1>4, <2>1, <2>2
  <1>5. CASE UNCHANGED vars
    BY <1>0, <1>5 DEF vars, callVars, breakerVars, Breaker
  <1> QED  BY <1>1, <1>2, <1>3, <1>4, <1>5 DEF Next

-------------------------------------------------------------------------------

\* The invariant behind the properties holds in every reachable state.
THEOREM Inductive == Spec => []IInv
  <1>1. Init => IInv
    BY ConfigAssumption, ChainAssumption
    DEF Init, BreakerInit, IInv, TypeOK, BreakerTypeOK, CallTypeOK, CountersInv, CallInv,
        AloneInv, CircuitState, Stages, Old
  <1>2. IInv /\ [Next]_vars => IInv'
    BY BreakersKeep, CallsKeep, AloneKeeps DEF IInv, BreakerInv, TypeOK
  <1> QED  BY <1>1, <1>2, PTL DEF Spec

\* Counters, ages and positions stay within their ranges: failures never passes its
\* threshold and successes never reaches its own.
THEOREM TypeCorrect == Spec => []TypeOK
  <1>1. IInv => TypeOK  BY DEF IInv
  <1> QED  BY <1>1, Inductive, PTL

\* What a step may do to the state of one breaker.
LEMMA StateSteps ==
    ASSUME IInv, Next, NEW b \in Breakers, state'[b] # state[b]
    PROVE  \/ Reset(b)
           \/ RecordSuccess(b)
           \/ RecordFailure(b)
           \/ \E c \in Callers :
                 pc[c] = "half_open" /\ Breaker(c) = b /\ HalfOpen(b)
  <1> USE DEF IInv
  <1>1. ASSUME NEW d \in Breakers, Restore(d) PROVE Reset(b)
    <2>1. d = b  BY <1>1 DEF Restore, Reset, TypeOK, BreakerTypeOK
    <2> QED  BY <1>1, <2>1 DEF Restore
  <1>2. ASSUME NEW c \in Callers, Probe(c)
        PROVE  pc[c] = "half_open" /\ Breaker(c) = b /\ HalfOpen(b)
    <2>1. pc[c] = "half_open"  BY <1>2 DEF Probe, Goto
    <2>2. Breaker(c) = b  BY <1>2 DEF Probe, HalfOpen, TypeOK, BreakerTypeOK
    <2> QED  BY <1>2, <2>1, <2>2 DEF Probe
  <1>3. ASSUME NEW c \in Callers, Succeed(c) PROVE RecordSuccess(b)
    <2>1. Breaker(c) # NoBreaker  BY <1>3 DEF Succeed, breakerVars
    <2>2. Breaker(c) = b
      BY <1>3, <2>1 DEF Succeed, RecordSuccess, ProbeSucceeded, TypeOK, BreakerTypeOK
    <2> QED  BY <1>3, <2>1, <2>2 DEF Succeed
  <1>4. ASSUME NEW c \in Callers, Fail(c) PROVE RecordFailure(b)
    <2>1. Breaker(c) # NoBreaker  BY <1>4 DEF Fail, breakerVars
    <2>2. Breaker(c) = b
      BY <1>4, <2>1 DEF Fail, RecordFailure, CallFailed, ProbeFailed, TypeOK, BreakerTypeOK
    <2> QED  BY <1>4, <2>1, <2>2 DEF Fail
  <1>5. ASSUME NEW c \in Callers,
               Start(c) \/ GiveUp(c) \/ Ask(c) \/ Reject(c) \/ Permit(c)
        PROVE  FALSE
    BY <1>5 DEF Start, GiveUp, Ask, Reject, Permit, breakerVars
  <1>6. ~Tick /\ ~AddProvider  BY DEF Tick, AddProvider, breakerVars
  <1> QED  BY <1>1, <1>2, <1>3, <1>4, <1>5, <1>6 DEF Next, Execute

\* A circuit trips only on FailureThreshold failures in a row.
THEOREM Trips == Spec => TripsOnStreak
  <1>1. ASSUME IInv, [Next]_vars, NEW b \in Breakers, state[b] = "closed", state'[b] = "open"
        PROVE  lost'[b] = FailureThreshold
    <2>1. Next  BY <1>1 DEF vars, breakerVars
    <2>2. RecordFailure(b)
      BY <1>1, <2>1, StateSteps
      DEF Reset, RecordSuccess, ProbeSucceeded, HalfOpen, IInv, TypeOK, BreakerTypeOK
    <2>3. failures[b] + 1 >= FailureThreshold
      BY <1>1, <2>2 DEF RecordFailure, CallFailed, ProbeFailed, IInv, TypeOK, BreakerTypeOK
    <2>4. lost[b] \in 0..FailureThreshold /\ failures[b] \in Nat /\ failures[b] <= lost[b]
      BY <1>1, ConfigAssumption DEF IInv, TypeOK, BreakerTypeOK, CountersInv
    <2>5. lost'[b] = Counted(lost[b], FailureThreshold)
      BY <2>2, <1>1 DEF RecordFailure, IInv, TypeOK, BreakerTypeOK
    <2> QED  BY <2>3, <2>4, <2>5, ConfigAssumption DEF Counted
  <1>2. IInv /\ [Next]_vars =>
          [\A b \in Breakers : state[b] = "closed" /\ state'[b] = "open"
              => lost'[b] = FailureThreshold]_vars
    BY <1>1
  <1> QED  BY <1>2, Inductive, PTL DEF Spec, TripsOnStreak

\* A circuit closes, unless reset, only on SuccessThreshold successes in a row.
THEOREM Closes == Spec => ClosesOnStreak
  <1>1. ASSUME IInv, [Next]_vars, NEW b \in Breakers,
               state[b] # "closed", state'[b] = "closed", ~Reset(b)
        PROVE  won'[b] = SuccessThreshold
    <2>1. Next  BY <1>1 DEF vars, breakerVars
    <2>2. RecordSuccess(b)
      BY <1>1, <2>1, StateSteps
      DEF RecordFailure, CallFailed, ProbeFailed, HalfOpen, IInv, TypeOK, BreakerTypeOK
    <2>3. state[b] = "half-open" /\ successes[b] + 1 >= SuccessThreshold
      BY <1>1, <2>2 DEF RecordSuccess, ProbeSucceeded, IInv, TypeOK, BreakerTypeOK
    <2>4. won[b] \in 0..SuccessThreshold /\ successes[b] \in Nat /\ successes[b] <= won[b]
      BY <1>1, <2>3, ConfigAssumption DEF IInv, TypeOK, BreakerTypeOK, CountersInv
    <2>5. won'[b] = Counted(won[b], SuccessThreshold)
      BY <2>2, <1>1 DEF RecordSuccess, IInv, TypeOK, BreakerTypeOK
    <2> QED  BY <2>3, <2>4, <2>5, ConfigAssumption DEF Counted
  <1>2. IInv /\ [Next]_vars =>
          [\A b \in Breakers : state[b] # "closed" /\ state'[b] = "closed" /\ ~Reset(b)
              => won'[b] = SuccessThreshold]_vars
    BY <1>1
  <1> QED  BY <1>2, Inductive, PTL DEF Spec, ClosesOnStreak

\* Callers that take turns make a circuit half-open only from open, after the timeout.
THEOREM AloneWaits == Spec => AloneWaitsForTimeout
  <1>1. ASSUME IInv, [Next]_vars, ~concurrent, NEW b \in Breakers,
               state[b] # "half-open", state'[b] = "half-open"
        PROVE  Waited(b)
    <2>1. Next  BY <1>1 DEF vars, breakerVars
    <2>2. PICK c \in Callers : pc[c] = "half_open" /\ Breaker(c) = b
      BY <1>1, <2>1, StateSteps
      DEF Reset, RecordSuccess, ProbeSucceeded, RecordFailure, CallFailed, ProbeFailed, IInv,
          TypeOK, BreakerTypeOK
    <2> QED  BY <1>1, <2>2 DEF Waited, IInv, AloneInv
  <1>2. IInv /\ [Next]_vars =>
          [~concurrent =>
             \A b \in Breakers : state[b] # "half-open" /\ state'[b] = "half-open"
                => Waited(b)]_vars
    BY <1>1
  <1> QED  BY <1>2, Inductive, PTL DEF Spec, AloneWaitsForTimeout

\* A call makes at most four steps for every provider, and one more round to give up.
THEOREM ExecuteEnds == Spec => ExecuteIsBounded
  <1> USE ConfigAssumption, ChainAssumption DEF Stages
  <1>1. ASSUME CallTypeOK PROVE \A c \in Callers : StepsLeft(c) \in 0..(4 * Length + 4)
    <2>1. ASSUME NEW c \in Callers PROVE StepsLeft(c) \in 0..(4 * Length + 4)
      <3>1. at[c] \in 1..(Length + 1) /\ pc[c] \in Stages /\ Length \in Nat  BY <1>1 DEF CallTypeOK
      <3>2. 4 * (Length + 1 - at[c]) \in 0..(4 * Length)  BY <3>1
      <3> QED  BY <3>1, <3>2 DEF StepsLeft
    <2> QED  BY <2>1
  <1>2. ASSUME CallTypeOK, [Next]_vars, NEW c \in Callers, pc[c] # "idle"
        PROVE  StepsLeft(c)' < StepsLeft(c) \/ UNCHANGED <<pc[c], at[c], upto[c]>>
    <2>0. /\ pc \in [Callers -> Stages] /\ at \in [Callers -> 1..(Length + 1)] /\ DOMAIN upto = Callers
          /\ at[c] \in Nat /\ Length \in Nat
      BY <1>2 DEF CallTypeOK
    <2>1. CASE UNCHANGED callVars  BY <2>1 DEF callVars
    <2>2. CASE Tick  BY <2>2 DEF Tick
    <2>3. ASSUME NEW d \in Callers, Start(d) \/ Execute(d), d # c PROVE UNCHANGED <<pc[c], at[c], upto[c]>>
      BY <2>0, <2>3 DEF Start, Execute, GiveUp, Ask, Reject, Permit, Probe, Succeed, Fail, Advance, Return, Goto
    <2>4. CASE Start(c)  BY <1>2, <2>4 DEF Start, Goto
    <2>5. CASE Execute(c)
      <3>1. CASE GiveUp(c) \/ Succeed(c)
        <4>1. pc'[c] = "idle" /\ pc[c] \in {"next", "execute"}
          BY <2>0, <3>1 DEF GiveUp, Succeed, Return, Goto
        <4> QED  BY <2>0, <4>1 DEF StepsLeft
      <3>2. CASE Ask(c) \/ Permit(c) \/ Probe(c)
        <4>1. at' = at /\ \/ pc[c] = "next" /\ pc'[c] \in {"execute", "judge"}
                          \/ pc[c] = "judge" /\ pc'[c] = "half_open"
                          \/ pc[c] = "half_open" /\ pc'[c] = "execute"
          BY <2>0, <3>2 DEF Ask, Permit, Probe, Goto
        <4> QED  BY <2>0, <4>1 DEF StepsLeft
      <3>3. CASE Reject(c) \/ Fail(c)
        <4>1. at'[c] = at[c] + 1 /\ pc'[c] = "next" /\ pc[c] \in {"judge", "execute"}
          BY <2>0, <3>3 DEF Reject, Fail, Advance, Goto
        <4> QED  BY <2>0, <4>1 DEF StepsLeft
      <3> QED  BY <2>5, <3>1, <3>2, <3>3 DEF Execute
    <2>6. CASE AddProvider \/ \E b \in Breakers : Restore(b)  BY <2>1, <2>6 DEF AddProvider, Restore
    <2> QED  BY <1>2, <2>1, <2>2, <2>3, <2>4, <2>5, <2>6 DEF Next, vars
  <1>3. TypeOK => CallTypeOK  BY DEF TypeOK
  <1>4. TypeOK => \A c \in Callers : StepsLeft(c) \in 0..(4 * Length + 4)  BY <1>1, <1>3
  <1>5. TypeOK /\ [Next]_vars =>
          [\A c \in Callers :
             pc[c] # "idle" => StepsLeft(c)' < StepsLeft(c) \/ UNCHANGED <<pc[c], at[c], upto[c]>>]_vars
    BY <1>2, <1>3
  <1> QED  BY <1>4, <1>5, TypeCorrect, PTL DEF Spec, ExecuteIsBounded
===============================================================================
