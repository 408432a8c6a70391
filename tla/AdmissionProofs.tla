--------------------------- MODULE AdmissionProofs ---------------------------
(***************************************************************************)
(* Theorems about the tenants' quotas, the rate limiter and the keys of     *)
(* tickets, for every number of workers, tenants and tickets, every quota,  *)
(* every length of the windows, and without a bound on crashes, pushes or   *)
(* time.                                                                   *)
(***************************************************************************)
EXTENDS Admission, FiniteSetTheorems, SequenceTheorems, TLAPS

Tasks == [at: Steps, ticket: Tickets, attempt: Nat, done: BOOLEAN]

TypeOK ==
    /\ now \in Nat
    /\ usage \in [Tenants -> Usages \union {Unknown}]
    /\ store \in [Tenants -> Usages \union {Unknown}]
    /\ queue \subseteq Tickets
    /\ worker \in [Workers -> Tasks \union {Idle}]
    /\ crashes \in Nat
    /\ loose \subseteq Tenants

\* Room for one more ticket.
Room(t) ==
    IF usage[t] = Unknown
    THEN 0 < MaxConcurrentTickets /\ 0 < MaxTicketsPerHour
    ELSE usage[t].concurrent < MaxConcurrentTickets /\ usage[t].hour < MaxTicketsPerHour

\* Running tickets are known, and counted.
Counted(t) ==
    Running(t) # {} => usage[t] # Unknown /\ usage[t].concurrent >= Cardinality(Running(t))

\* At most one ticket of the tenant has been checked, and there still is room for it.
Single(t) ==
    t \notin loose =>
        /\ \A v, w \in Checked(t) : v = w
        /\ Checked(t) # {} => Room(t)
        /\ usage[t] # Unknown => usage[t].concurrent <= MaxConcurrentTickets /\ usage[t].hour <= MaxTicketsPerHour

\* What is saved was in memory before; after a crash nothing is relied on.
Fresh(t) ==
    /\ crashes = 0 /\ usage[t] = Unknown => store[t] = Unknown
    /\ crashes # 0 /\ (usage[t] # Unknown \/ Checked(t) # {}) => t \in loose

TenantInv(t) == Counted(t) /\ Single(t) /\ Fresh(t)

AInv == TypeOK /\ \A t \in Tenants : TenantInv(t)

-------------------------------------------------------------------------------

LEMMA UnknownIsNone == \A u \in Usages : u # Unknown
  BY DEF Usages, Unknown

\* A window that ends never raises a counter, and leaves the running tickets counted.
LEMMA ResetKeeps ==
    ASSUME now \in Nat, NEW u \in Usages
    PROVE  /\ ResetIfExpired(u) \in Usages
           /\ ResetIfExpired(u).concurrent = u.concurrent
           /\ ResetIfExpired(u).hour <= u.hour
  <1>1. now + Hour \in Nat /\ now + Day \in Nat  BY QuotaAssumption
  <1>2. u.hour \in Nat /\ 0 <= u.hour  BY DEF Usages
  <1> DEFINE hourly == IF now > u.hourEnd THEN [u EXCEPT !.hour = 0, !.hourEnd = now + Hour] ELSE u
  <1>3. hourly \in Usages /\ hourly.concurrent = u.concurrent /\ hourly.hour <= u.hour
    <2>1. CASE now > u.hourEnd
      <3>1. hourly = [u EXCEPT !.hour = 0, !.hourEnd = now + Hour]  BY <2>1
      <3>2. hourly.hour = 0 /\ hourly.concurrent = u.concurrent /\ hourly \in Usages
        BY <3>1, <1>1, <1>2 DEF Usages
      <3> QED  BY <3>2, <1>2
    <2>2. CASE ~(now > u.hourEnd)
      <3>1. hourly = u  BY <2>2
      <3> QED  BY <3>1, <1>2
    <2> QED  BY <2>1, <2>2
  <1> DEFINE daily == IF now > hourly.dayEnd THEN [hourly EXCEPT !.tokens = 0, !.dayEnd = now + Day] ELSE hourly
  <1> HIDE DEF hourly
  <1>4. daily \in Usages /\ daily.concurrent = hourly.concurrent /\ daily.hour = hourly.hour
    BY <1>1, <1>3 DEF Usages
  <1>5. ResetIfExpired(u) = daily  BY DEF ResetIfExpired, hourly
  <1> QED  BY <1>3, <1>4, <1>5

LEMMA UnusedIsUsage == ASSUME now \in Nat PROVE Unused \in Usages
  <1>1. now + Hour \in Nat /\ now + Day \in Nat  BY QuotaAssumption
  <1> QED  BY <1>1 DEF Unused, Usages

LEMMA RunningIsFinite ==
    ASSUME NEW t
    PROVE  IsFiniteSet(Running(t)) /\ Cardinality(Running(t)) \in Nat
  <1>1. Running(t) \in SUBSET Workers  BY DEF Running
  <1>2. IsFiniteSet(Running(t))  BY <1>1, AdmissionAssumption, FS_Subset
  <1> QED  BY <1>2, FS_CardinalityType

\* The workers who run and have checked tickets are the same after a step of one worker that
\* neither starts nor ends a ticket, nor checks a quota.
LEMMA SameTickets ==
    ASSUME TypeOK, TypeOK', NEW w \in Workers,
           \A v \in Workers \ {w} : worker'[v] = worker[v],
           worker'[w].at \in {"try", "tokens", "letter", "end"} <=> worker[w].at \in {"try", "tokens", "letter", "end"},
           worker'[w].at = "start" <=> worker[w].at = "start",
           worker[w].at \in {"start", "try", "tokens", "letter", "end"} => worker'[w].ticket = worker[w].ticket,
           NEW t
    PROVE  Running(t)' = Running(t) /\ Checked(t)' = Checked(t)
  <1>1. \A v \in Workers :
          /\ worker'[v].at \in {"try", "tokens", "letter", "end"} /\ Tenant(v)' = t
             <=> worker[v].at \in {"try", "tokens", "letter", "end"} /\ Tenant(v) = t
          /\ worker'[v].at = "start" /\ Tenant(v)' = t <=> worker[v].at = "start" /\ Tenant(v) = t
    <2> TAKE v \in Workers
    <2>1. CASE v # w  BY <2>1 DEF Tenant
    <2>2. CASE v = w  BY <2>2 DEF Tenant
    <2> QED  BY <2>1, <2>2
  <1> QED  BY <1>1 DEF Running, Checked

\* A step that leaves the running and checked tickets of a tenant alone, and changes of its usage
\* at most what a window resets.
LEMMA Aside ==
    ASSUME TypeOK, NEW t \in Tenants, TenantInv(t),
           Running(t)' = Running(t), Checked(t)' = Checked(t),
           UNCHANGED crashes, loose \subseteq loose',
           \/ usage'[t] = usage[t] /\ store'[t] = store[t]
           \/ /\ usage[t] # Unknown /\ usage'[t] \in Usages
              /\ usage'[t].concurrent = usage[t].concurrent /\ usage'[t].hour <= usage[t].hour
    PROVE  TenantInv(t)'
  <1>0. Counted(t) /\ Single(t) /\ Fresh(t)  BY DEF TenantInv
  <1>1. /\ usage'[t] = Unknown <=> usage[t] = Unknown
        /\ usage[t] # Unknown => /\ usage'[t].concurrent = usage[t].concurrent
                                 /\ usage'[t].hour <= usage[t].hour
                                 /\ usage[t] \in Usages /\ usage'[t] \in Usages
        /\ usage[t] = Unknown => store'[t] = store[t]
    <2>1. usage[t] # Unknown => usage[t] \in Usages /\ usage[t].hour <= usage[t].hour
      BY DEF TypeOK, Usages
    <2> QED  BY <2>1, UnknownIsNone
  <1>2. Counted(t)'  BY <1>0, <1>1 DEF Counted
  <1>3. Single(t)'
    <2>1. SUFFICES ASSUME t \notin loose
                   PROVE  /\ Checked(t) # {} => Room(t)'
                          /\ usage[t] # Unknown => usage'[t].concurrent <= MaxConcurrentTickets /\ usage'[t].hour <= MaxTicketsPerHour
      BY <1>0, <1>1 DEF Single
    <2>2. /\ Checked(t) # {} => Room(t)
          /\ usage[t] # Unknown => usage[t].concurrent <= MaxConcurrentTickets /\ usage[t].hour <= MaxTicketsPerHour
      BY <1>0, <2>1 DEF Single
    <2>3. usage[t] # Unknown => usage[t].hour \in Nat /\ usage'[t].hour \in Nat /\ usage[t].concurrent \in Nat
      BY <1>1 DEF Usages
    <2> QED  BY <1>1, <2>2, <2>3, QuotaAssumption DEF Room
  <1>4. Fresh(t)'  BY <1>0, <1>1 DEF Fresh
  <1> QED  BY <1>2, <1>3, <1>4 DEF TenantInv

LEMMA AInit == ASSUME Init PROVE AInv
  <1>1. ASSUME NEW t \in Tenants PROVE TenantInv(t)
    <2>1. Running(t) = {} /\ Checked(t) = {} /\ usage[t] = Unknown /\ store[t] = Unknown /\ crashes = 0
      BY DEF Init, Running, Checked, Idle, QuotaInit
    <2> QED  BY <2>1 DEF TenantInv, Counted, Single, Fresh
  <1>2. TypeOK  BY DEF TypeOK, Init, QuotaInit
  <1> QED  BY <1>1, <1>2 DEF AInv

\* Every step has the types.
LEMMA TypeStep == ASSUME TypeOK, Next PROVE TypeOK'
  <1> USE DEF TypeOK, Tasks, Steps
  <1>1. ASSUME NEW t \in Tenants PROVE Loaded(t) \subseteq Usages
    BY UnusedIsUsage DEF Loaded
  <1>2. ASSUME NEW t \in Tenants, NEW u \in Usages, Persist(t, u)
        PROVE  /\ now' \in Nat
               /\ usage' \in [Tenants -> Usages \union {Unknown}]
               /\ store' \in [Tenants -> Usages \union {Unknown}]
    BY <1>2 DEF Persist
  <1>3. \A w \in Workers : worker[w].at \in Steps => worker[w] \in Tasks /\ Tenant(w) \in Tenants
    BY AdmissionAssumption DEF Tenant, Idle
  <1>4. ASSUME NEW w \in Workers, NEW at \in Steps, worker[w].at \in Steps, To(w, at)
        PROVE  worker' \in [Workers -> Tasks \union {Idle}]
    BY <1>3, <1>4 DEF To
  <1>5. ASSUME NEW w \in Workers, Give(w) PROVE worker' \in [Workers -> Tasks \union {Idle}]
    BY <1>5 DEF Give
  <1>6. ASSUME NEW ticket \in Tickets, Push(ticket) PROVE TypeOK'
    BY <1>6 DEF Push, quotaVars
  <1>7. CASE Crash  BY <1>7 DEF Crash, QuotaLost
  <1>8. CASE Around  BY <1>8 DEF Around, quotaVars, admissionVars, Tick
  <1>9. ASSUME NEW w \in Workers,
               \/ Pop(w) \/ CheckKey(w) \/ CheckTenant(w) \/ Start(w) \/ Attempt(w) \/ AttemptFails(w)
               \/ CountTokens(w) \/ WriteLetter(w) \/ End(w) \/ RecordKey(w)
        PROVE  TypeOK'
    <2>1. CASE Pop(w)
      <3>1. PICK ticket \in queue :
              worker' = [worker EXCEPT ![w] = [at |-> "key", ticket |-> ticket, attempt |-> 0, done |-> FALSE]]
        BY <2>1 DEF Pop
      <3>2. [at |-> "key", ticket |-> ticket, attempt |-> 0, done |-> FALSE] \in Tasks  BY <3>1
      <3> HIDE DEF Tasks
      <3>3. worker' \in [Workers -> Tasks \union {Idle}]  BY <3>1, <3>2
      <3> QED  BY <2>1, <3>3 DEF Pop, quotaVars
    <2>2. CASE CheckKey(w)  BY <2>2, <1>4, <1>5 DEF CheckKey, quotaVars
    <2>3. CASE CheckTenant(w)
      <3>1. Tenant(w) \in Tenants /\ worker' \in [Workers -> Tasks \union {Idle}]
        BY <2>3, <1>3, <1>4, <1>5 DEF CheckTenant
      <3>2. now' \in Nat /\ usage' \in [Tenants -> Usages \union {Unknown}] /\ UNCHANGED store
        BY <2>3, <3>1, ResetKeeps DEF CheckTenant, CheckQuota, Seen
      <3> QED  BY <2>3, <3>1, <3>2 DEF CheckTenant
    <2>4. CASE Start(w)
      <3>1. Tenant(w) \in Tenants /\ worker' \in [Workers -> Tasks \union {Idle}]
        BY <2>4, <1>3, <1>4 DEF Start
      <3>2. PICK u \in Loaded(Tenant(w)) :
              Persist(Tenant(w), [ResetIfExpired(u) EXCEPT !.concurrent = @ + 1, !.hour = @ + 1])
        BY <2>4 DEF Start, RecordTicketStart
      <3>3. ResetIfExpired(u) \in Usages  BY <1>1, <3>1, ResetKeeps
      <3>4. \A r \in Usages : [r EXCEPT !.concurrent = @ + 1, !.hour = @ + 1] \in Usages
        <4> TAKE r \in Usages
        <4>1. r.concurrent + 1 \in Nat /\ r.hour + 1 \in Nat  BY DEF Usages
        <4> QED  BY <4>1, Zenon DEF Usages
      <3> QED  BY <2>4, <3>1, <3>2, <3>3, <3>4, <1>2 DEF Start
    <2>5. CASE Attempt(w)
      <3> DEFINE new == [worker[w] EXCEPT !.at = "tokens", !.done = TRUE]
      <3>1. worker[w] \in Tasks  BY <2>5, <1>3 DEF Attempt
      <3>3. new \in Tasks  BY <3>1
      <3>4. worker' = [worker EXCEPT ![w] = new]  BY <2>5 DEF Attempt
      <3> HIDE DEF Tasks, new
      <3>2. worker' \in [Workers -> Tasks \union {Idle}]  BY <3>3, <3>4
      <3> QED  BY <2>5, <3>2 DEF Attempt, quotaVars
    <2>6. CASE AttemptFails(w)
      <3>1. worker' \in [Workers -> Tasks \union {Idle}]
        BY <2>6, <1>3, <1>4 DEF AttemptFails
      <3> QED  BY <2>6, <3>1 DEF AttemptFails, quotaVars
    <2>7. CASE CountTokens(w)
      <3>1. Tenant(w) \in Tenants /\ worker' \in [Workers -> Tasks \union {Idle}]
        BY <2>7, <1>3, <1>4 DEF CountTokens
      <3>2. PICK tokens \in Tokens, u \in Loaded(Tenant(w)) :
              Persist(Tenant(w), [ResetIfExpired(u) EXCEPT !.tokens = @ + tokens])
        BY <2>7 DEF CountTokens, RecordTokens
      <3>3. ResetIfExpired(u) \in Usages /\ tokens \in Nat
        BY <1>1, <3>1, ResetKeeps, AdmissionAssumption
      <3>4. [ResetIfExpired(u) EXCEPT !.tokens = @ + tokens] \in Usages  BY <3>3 DEF Usages
      <3> QED  BY <2>7, <3>1, <3>2, <3>4, <1>2 DEF CountTokens
    <2>8. CASE WriteLetter(w)  BY <2>8, <1>4 DEF WriteLetter, quotaVars
    <2>9. CASE End(w)
      <3>1. Tenant(w) \in Tenants /\ worker' \in [Workers -> Tasks \union {Idle}]
        BY <2>9, <1>3, <1>4, <1>5 DEF End
      <3>2. PICK u \in Loaded(Tenant(w)) :
              Persist(Tenant(w), [u EXCEPT !.concurrent = IF @ > 0 THEN @ - 1 ELSE @])
        BY <2>9 DEF End, RecordTicketEnd
      <3>3. u \in Usages  BY <1>1, <3>1
      <3>4. [u EXCEPT !.concurrent = IF @ > 0 THEN @ - 1 ELSE @] \in Usages  BY <3>3 DEF Usages
      <3> QED  BY <2>9, <3>1, <3>2, <3>4, <1>2 DEF End
    <2>10. CASE RecordKey(w)  BY <2>10, <1>5 DEF RecordKey, quotaVars
    <2> QED  BY <1>9, <2>1, <2>2, <2>3, <2>4, <2>5, <2>6, <2>7, <2>8, <2>9, <2>10
  <1> QED  BY <1>6, <1>7, <1>8, <1>9 DEF Next

\* The steps of a worker that neither start nor end a ticket.
LEMMA AsideStep ==
    ASSUME AInv, TypeOK', NEW w \in Workers,
           \/ Pop(w) \/ CheckKey(w) \/ Attempt(w) \/ AttemptFails(w)
           \/ CountTokens(w) \/ WriteLetter(w) \/ RecordKey(w)
    PROVE  AInv'
  <1>0. TypeOK  BY DEF AInv
  <1>1. /\ \A v \in Workers \ {w} : worker'[v] = worker[v]
        /\ worker'[w].at \in {"try", "tokens", "letter", "end"} <=> worker[w].at \in {"try", "tokens", "letter", "end"}
        /\ worker'[w].at = "start" <=> worker[w].at = "start"
        /\ worker[w].at \in {"start", "try", "tokens", "letter", "end"} => worker'[w].ticket = worker[w].ticket
    BY <1>0 DEF Pop, CheckKey, Attempt, AttemptFails, CountTokens, WriteLetter, RecordKey, To, Give, Idle, TypeOK, Tasks
  <1>2. \A t \in Tenants : Running(t)' = Running(t) /\ Checked(t)' = Checked(t)
    BY <1>0, <1>1, SameTickets
  <1>3. UNCHANGED crashes /\ loose \subseteq loose'
    BY DEF Pop, CheckKey, Attempt, AttemptFails, CountTokens, WriteLetter, RecordKey, quotaVars
  <1>4. CASE ~CountTokens(w)
    <2>1. UNCHANGED <<usage, store>>
      BY <1>4 DEF Pop, CheckKey, Attempt, AttemptFails, WriteLetter, RecordKey, quotaVars
    <2> QED  BY <1>0, <1>2, <1>3, <2>1, Aside DEF AInv
  <1>5. CASE CountTokens(w)
    <2> DEFINE o == Tenant(w)
    <2>1. w \in Running(o) /\ o \in Tenants
      BY <1>0, <1>5, AdmissionAssumption DEF CountTokens, Running, TypeOK, Tasks, Idle, Tenant
    <2>2. usage[o] # Unknown /\ usage[o] \in Usages
      BY <1>0, <2>1 DEF AInv, TenantInv, Counted, TypeOK
    <2>3. PICK tokens \in Tokens : Persist(o, [ResetIfExpired(usage[o]) EXCEPT !.tokens = @ + tokens])
      BY <1>5, <2>2 DEF CountTokens, RecordTokens, Loaded
    <2> DEFINE r == ResetIfExpired(usage[o])
    <2>4. r \in Usages /\ r.concurrent = usage[o].concurrent /\ r.hour <= usage[o].hour
      BY <1>0, <2>2, ResetKeeps DEF TypeOK
    <2> HIDE DEF o, r
    <2>5. usage' = [usage EXCEPT ![o] = [r EXCEPT !.tokens = @ + tokens]]
          /\ (UNCHANGED store \/ store' = [store EXCEPT ![o] = [r EXCEPT !.tokens = @ + tokens]])
      BY <2>3 DEF Persist, r
    <2>6. usage'[o] = [r EXCEPT !.tokens = @ + tokens]  BY <1>0, <2>1, <2>5 DEF TypeOK
    <2>7. tokens \in Nat  BY AdmissionAssumption
    <2>8. usage'[o] \in Usages /\ usage'[o].concurrent = r.concurrent /\ usage'[o].hour = r.hour
      BY <2>4, <2>6, <2>7 DEF Usages
    <2>9. \A t \in Tenants \ {o} : usage'[t] = usage[t] /\ store'[t] = store[t]
      BY <1>0, <2>1, <2>5 DEF TypeOK
    <2> QED  BY <1>0, <1>2, <1>3, <2>2, <2>4, <2>8, <2>9, Aside DEF AInv
  <1> QED  BY <1>4, <1>5

\* A check that passes found room; whoever is checked besides, or after a crash, is loose.
LEMMA CheckStep == ASSUME AInv, TypeOK', NEW w \in Workers, CheckTenant(w) PROVE AInv'
  <1>0. TypeOK /\ (\A t \in Tenants : TenantInv(t)) /\ now \in Nat  BY DEF AInv, TypeOK
  <1>a. Tenant(w) \in Tenants /\ worker[w].at = "quota" /\ worker[w] \in Tasks
    BY <1>0, AdmissionAssumption DEF CheckTenant, TypeOK, Tasks, Idle, Tenant
  <1>1. PICK o \in Tenants : o = Tenant(w) /\ worker[w].at = "quota" /\ worker[w] \in Tasks
    BY <1>a
  <1>2. UNCHANGED <<crashes, store>> /\ loose \subseteq loose'  BY DEF CheckTenant, CheckQuota
  <1>3. \A t \in Tenants \ {o} : usage'[t] = usage[t]  BY <1>0, <1>1 DEF CheckTenant, CheckQuota, TypeOK
  <1>4. usage[o] = Unknown => usage'[o] = Unknown  BY <1>1 DEF CheckTenant, CheckQuota
  <1>5. usage[o] # Unknown =>
          /\ usage[o] \in Usages /\ usage'[o] = Seen(o)
          /\ usage'[o] \in Usages /\ usage'[o].concurrent = usage[o].concurrent /\ usage'[o].hour <= usage[o].hour
    BY <1>0, <1>1, ResetKeeps DEF CheckTenant, CheckQuota, TypeOK, Seen
  <1>6. \A v \in Workers \ {w} : worker'[v] = worker[v]
    BY <1>0 DEF CheckTenant, To, Give, TypeOK
  <1>7. CASE ~WithinQuota(o)
    <2>1. worker'[w] = Idle  BY <1>0, <1>1, <1>7 DEF CheckTenant, Give, TypeOK
    <2>2. \A t \in Tenants : Running(t)' = Running(t) /\ Checked(t)' = Checked(t)
      BY <1>0, <1>1, <1>6, <2>1, SameTickets DEF Idle
    <2> QED  BY <1>0, <1>2, <1>3, <1>4, <1>5, <2>2, Aside DEF AInv
  <1>8. CASE WithinQuota(o)
    <2>1. worker'[w] = [worker[w] EXCEPT !.at = "start"]  BY <1>0, <1>1, <1>8 DEF CheckTenant, To, TypeOK
    <2>2. worker'[w].at = "start" /\ Tenant(w)' = o  BY <1>1, <2>1 DEF Tasks, Tenant
    <2>3. \A v \in Workers \ {w} : Tenant(v)' = Tenant(v) /\ worker'[v] = worker[v]  BY <1>6 DEF Tenant
    <2>4. \A t \in Tenants : Running(t)' = Running(t)
      BY <1>1, <2>2, <2>3 DEF Running
    <2>5. \A t \in Tenants \ {o} : Checked(t)' = Checked(t)
      BY <1>1, <2>2, <2>3 DEF Checked
    <2>6. Checked(o)' = Checked(o) \union {w}
      BY <1>1, <2>2, <2>3 DEF Checked
    <2>7. \A t \in Tenants \ {o} : TenantInv(t)'
      BY <1>0, <1>2, <1>3, <2>4, <2>5, Aside
    <2>8. Counted(o)'
      BY <1>0, <1>1, <1>4, <1>5, <2>4, UnknownIsNone DEF TenantInv, Counted
    <2>9. o \notin loose' => crashes = 0 /\ Checked(o) = {} /\ o \notin loose
      <3>1. loose' = loose \union (IF Checked(o) # {} \/ crashes > 0 THEN {o} ELSE {})
        BY <1>1 DEF CheckTenant
      <3> QED  BY <1>0, <3>1 DEF TypeOK
    <2>10. Fresh(o)'
      BY <1>0, <1>1, <1>2, <1>4, <1>5, <2>9, UnknownIsNone DEF TenantInv, Fresh
    <2>11. Room(o)'
      <3>1. Seen(o).concurrent < MaxConcurrentTickets /\ Seen(o).hour < MaxTicketsPerHour
        BY <1>8 DEF WithinQuota
      <3>2. CASE usage[o] # Unknown  BY <1>5, <3>1, <3>2, UnknownIsNone DEF Room
      <3>3. CASE usage[o] = Unknown
        <4>1. Seen(o) = ResetIfExpired(Unused)  BY <3>3 DEF Seen
        <4>2. Seen(o) \in Usages /\ Seen(o).concurrent = Unused.concurrent /\ Seen(o).hour <= Unused.hour
          BY <1>0, <4>1, UnusedIsUsage, ResetKeeps
        <4>3. Seen(o).concurrent = 0 /\ Seen(o).hour \in Nat /\ Seen(o).hour <= 0
          BY <4>2 DEF Usages, Unused
        <4> QED  BY <3>1, <3>3, <4>3, <1>4, QuotaAssumption DEF Room
      <3> QED  BY <3>2, <3>3
    <2>12. Single(o)'
      <3>1. usage'[o] # Unknown => usage'[o].concurrent <= MaxConcurrentTickets /\ usage'[o].hour <= MaxTicketsPerHour
        BY <1>4, <1>5, <2>11, QuotaAssumption DEF Room, Usages
      <3> QED  BY <2>6, <2>9, <2>11, <3>1 DEF Single
    <2> QED  BY <2>7, <2>8, <2>10, <2>12 DEF AInv, TenantInv
  <1> QED  BY <1>7, <1>8

\* A start uses the room its check found, and is counted.
LEMMA StartStep == ASSUME AInv, TypeOK', NEW w \in Workers, Start(w) PROVE AInv'
  <1>0. TypeOK /\ (\A t \in Tenants : TenantInv(t)) /\ now \in Nat  BY DEF AInv, TypeOK
  <1>a. Tenant(w) \in Tenants /\ worker[w].at = "start" /\ worker[w] \in Tasks
    BY <1>0, AdmissionAssumption DEF Start, TypeOK, Tasks, Idle, Tenant
  <1>1. PICK o \in Tenants : o = Tenant(w) /\ worker[w].at = "start" /\ worker[w] \in Tasks
    BY <1>a
  <1>2. UNCHANGED <<crashes, loose>>  BY DEF Start
  <1>3. PICK u \in Loaded(o) : Persist(o, [ResetIfExpired(u) EXCEPT !.concurrent = @ + 1, !.hour = @ + 1])
    BY <1>1 DEF Start, RecordTicketStart
  <1>4. /\ u \in Usages
        /\ usage[o] # Unknown => u = usage[o]
        /\ usage[o] = Unknown /\ crashes = 0 => u.concurrent = 0 /\ u.hour = 0
    BY <1>0, <1>1, UnusedIsUsage DEF Loaded, TypeOK, TenantInv, Fresh, Unused
  <1> DEFINE r == ResetIfExpired(u)
  <1>5. r \in Usages /\ r.concurrent = u.concurrent /\ r.hour <= u.hour  BY <1>0, <1>4, ResetKeeps
  <1>6. /\ usage' = [usage EXCEPT ![o] = [r EXCEPT !.concurrent = @ + 1, !.hour = @ + 1]]
        /\ \A t \in Tenants \ {o} : store'[t] = store[t]
    BY <1>0, <1>3 DEF Persist, TypeOK
  <1> HIDE DEF r
  <1>7. /\ usage'[o] = [r EXCEPT !.concurrent = @ + 1, !.hour = @ + 1]
        /\ \A t \in Tenants \ {o} : usage'[t] = usage[t]
    BY <1>0, <1>6 DEF TypeOK
  <1>8. /\ usage'[o].concurrent = u.concurrent + 1 /\ usage'[o].hour <= u.hour + 1
        /\ u.concurrent \in Nat /\ u.hour \in Nat /\ usage'[o].hour \in Nat /\ usage'[o] # Unknown
    <2>1. usage'[o].concurrent = r.concurrent + 1 /\ usage'[o].hour = r.hour + 1
      BY <1>5, <1>7 DEF Usages
    <2>2. u.concurrent \in Nat /\ u.hour \in Nat /\ r.hour \in Nat  BY <1>4, <1>5 DEF Usages
    <2>3. usage'[o] # Unknown  BY <2>1, <2>2, <1>5, <1>7 DEF Unknown, Usages
    <2> QED  BY <1>5, <2>1, <2>2, <2>3
  <1>9. \A v \in Workers \ {w} : worker'[v] = worker[v] /\ Tenant(v)' = Tenant(v)
    BY <1>0 DEF Start, To, TypeOK, Tenant
  <1>10. worker'[w].at = "try" /\ Tenant(w)' = o  BY <1>0, <1>1 DEF Start, To, TypeOK, Tasks, Tenant
  <1>11. \A t \in Tenants \ {o} : Running(t)' = Running(t) /\ Checked(t)' = Checked(t)
    BY <1>1, <1>9, <1>10 DEF Running, Checked
  <1>12. Running(o)' = Running(o) \union {w} /\ w \notin Running(o)
    BY <1>1, <1>9, <1>10 DEF Running
  <1>13. Checked(o)' = Checked(o) \ {w} /\ w \in Checked(o)
    BY <1>1, <1>9, <1>10 DEF Checked
  <1>14. \A t \in Tenants \ {o} : TenantInv(t)'  BY <1>0, <1>2, <1>6, <1>7, <1>11, Aside
  <1>15. Counted(o)'
    <2>1. Cardinality(Running(o)') = Cardinality(Running(o)) + 1
      BY <1>12, RunningIsFinite, FS_AddElement
    <2>2. CASE Running(o) # {}
      <3>1. u.concurrent >= Cardinality(Running(o))  BY <1>0, <1>4, <2>2 DEF TenantInv, Counted
      <3> QED  BY <3>1, <2>1, <1>8, RunningIsFinite DEF Counted
    <2>3. CASE Running(o) = {}
      <3>1. Cardinality(Running(o)') = 1  BY <2>1, <2>3, FS_EmptySet
      <3> QED  BY <3>1, <1>8 DEF Counted
    <2> QED  BY <2>2, <2>3
  <1>16. Fresh(o)'  BY <1>0, <1>2, <1>8, <1>13 DEF TenantInv, Fresh
  <1>17. Single(o)'
    <2>1. SUFFICES ASSUME o \notin loose
                   PROVE  /\ Checked(o)' = {}
                          /\ usage'[o].concurrent <= MaxConcurrentTickets /\ usage'[o].hour <= MaxTicketsPerHour
      BY <1>2 DEF Single
    <2>2. Room(o) /\ \A v \in Checked(o) : v = w  BY <1>0, <1>13, <2>1 DEF TenantInv, Single
    <2>3. crashes = 0  BY <1>0, <1>13, <2>1 DEF TenantInv, Fresh
    <2>4. u.concurrent < MaxConcurrentTickets /\ u.hour < MaxTicketsPerHour
      BY <1>4, <2>2, <2>3 DEF Room
    <2> QED  BY <1>8, <1>13, <2>2, <2>4, QuotaAssumption
  <1> QED  BY <1>14, <1>15, <1>16, <1>17 DEF AInv, TenantInv

\* An end takes off the one ticket that ends.
LEMMA EndStep == ASSUME AInv, TypeOK', NEW w \in Workers, End(w) PROVE AInv'
  <1>0. TypeOK /\ (\A t \in Tenants : TenantInv(t)) /\ now \in Nat  BY DEF AInv, TypeOK
  <1>a. Tenant(w) \in Tenants /\ worker[w].at = "end" /\ worker[w] \in Tasks
    BY <1>0, AdmissionAssumption DEF End, TypeOK, Tasks, Idle, Tenant
  <1>1. PICK o \in Tenants : o = Tenant(w) /\ worker[w].at = "end" /\ worker[w] \in Tasks
    BY <1>a
  <1>2. UNCHANGED <<crashes, loose>>  BY DEF End
  <1>3. w \in Running(o)  BY <1>1 DEF Running
  <1>4. usage[o] # Unknown /\ usage[o] \in Usages /\ usage[o].concurrent >= Cardinality(Running(o))
    BY <1>0, <1>3 DEF TenantInv, Counted, TypeOK
  <1>5. Cardinality(Running(o) \ {w}) = Cardinality(Running(o)) - 1 /\ Cardinality(Running(o)) \in Nat
        /\ Cardinality(Running(o) \ {w}) \in Nat
    BY <1>3, RunningIsFinite, FS_RemoveElement, FS_CardinalityType
  <1>6. usage[o].concurrent \in Nat /\ usage[o].concurrent > 0  BY <1>4, <1>5 DEF Usages
  <1>7. /\ usage' = [usage EXCEPT ![o] = [usage[o] EXCEPT !.concurrent = @ - 1]]
        /\ \A t \in Tenants \ {o} : store'[t] = store[t]
    BY <1>0, <1>1, <1>4, <1>6 DEF End, RecordTicketEnd, Loaded, Persist, TypeOK
  <1>8. /\ usage'[o] = [usage[o] EXCEPT !.concurrent = @ - 1]
        /\ \A t \in Tenants \ {o} : usage'[t] = usage[t]
    BY <1>0, <1>7 DEF TypeOK
  <1>9. usage'[o].concurrent = usage[o].concurrent - 1 /\ usage'[o].hour = usage[o].hour /\ usage'[o] # Unknown
    BY <1>4, <1>6, <1>8 DEF Usages, Unknown
  <1>10. \A v \in Workers \ {w} : worker'[v] = worker[v] /\ Tenant(v)' = Tenant(v)
    BY <1>0 DEF End, To, Give, TypeOK, Tenant
  <1>11. worker'[w].at \in {"record", "idle"}  BY <1>0, <1>1 DEF End, To, Give, Idle, TypeOK, Tasks
  <1>12. \A t \in Tenants : Checked(t)' = Checked(t)  BY <1>1, <1>10, <1>11 DEF Checked
  <1>13. \A t \in Tenants \ {o} : Running(t)' = Running(t)  BY <1>1, <1>10, <1>11 DEF Running
  <1>14. Running(o)' = Running(o) \ {w}  BY <1>1, <1>10, <1>11 DEF Running
  <1>15. \A t \in Tenants \ {o} : TenantInv(t)'  BY <1>0, <1>2, <1>7, <1>8, <1>12, <1>13, Aside
  <1>16. Counted(o)'  BY <1>4, <1>5, <1>6, <1>9, <1>14 DEF Counted
  <1>17. Fresh(o)'  BY <1>0, <1>2, <1>4, <1>9, <1>12 DEF TenantInv, Fresh
  <1>18. Single(o)'
    <2>1. o \notin loose => /\ \A v, x \in Checked(o) : v = x
                            /\ Checked(o) # {} => Room(o)
                            /\ usage[o].concurrent <= MaxConcurrentTickets /\ usage[o].hour <= MaxTicketsPerHour
      BY <1>0, <1>4 DEF TenantInv, Single
    <2>2. Room(o) => Room(o)'  BY <1>4, <1>6, <1>9, QuotaAssumption DEF Room
    <2> QED  BY <1>2, <1>6, <1>9, <1>12, <2>1, <2>2, QuotaAssumption DEF Single
  <1> QED  BY <1>15, <1>16, <1>17, <1>18 DEF AInv, TenantInv

LEMMA AStep == ASSUME AInv, [Next]_vars PROVE AInv'
  <1>0. TypeOK /\ (\A t \in Tenants : TenantInv(t))  BY DEF AInv
  <1>1. CASE Next
    <2>1. TypeOK'  BY <1>0, <1>1, TypeStep
    <2>2. ASSUME NEW ticket \in Tickets, Push(ticket) PROVE AInv'
      BY <1>0, <2>1, <2>2, Aside DEF Push, quotaVars, AInv, Running, Checked, Tenant
    <2>3. ASSUME NEW w \in Workers,
                 \/ Pop(w) \/ CheckKey(w) \/ CheckTenant(w) \/ Start(w) \/ Attempt(w) \/ AttemptFails(w)
                 \/ CountTokens(w) \/ WriteLetter(w) \/ End(w) \/ RecordKey(w)
          PROVE  AInv'
      BY <2>1, <2>3, AsideStep, CheckStep, StartStep, EndStep
    <2>4. CASE Crash
      <3>1. crashes' # 0  BY <1>0, <2>4 DEF Crash, TypeOK
      <3>2. \A t \in Tenants : Running(t)' = {} /\ Checked(t)' = {} /\ usage'[t] = Unknown
        BY <2>4 DEF Crash, QuotaLost, Running, Checked, Idle
      <3> QED  BY <2>1, <3>1, <3>2 DEF AInv, TenantInv, Counted, Single, Fresh
    <2>5. CASE Around
      <3>1. UNCHANGED <<usage, store, worker, crashes, loose>>
        BY <2>5 DEF Around, quotaVars, admissionVars, Tick
      <3> QED  BY <1>0, <2>1, <3>1, Aside DEF AInv, Running, Checked, Tenant
    <2> QED  BY <1>1, <2>2, <2>3, <2>4, <2>5 DEF Next
  <1>2. CASE UNCHANGED vars
    <2>1. UNCHANGED <<now, usage, store, queue, worker, crashes, loose>>
      BY <1>2 DEF vars, quotaVars, admissionVars
    <2>2. TypeOK'  BY <1>0, <2>1 DEF TypeOK
    <2> QED  BY <1>0, <2>1, <2>2, Aside DEF AInv, Running, Checked, Tenant
  <1> QED  BY <1>1, <1>2

-------------------------------------------------------------------------------

\* The quota manager never counts fewer tickets of a tenant than run, whatever windows end, saves
\* and loads fail, or crashes there were.
THEOREM NothingUndercounted == Spec => []NeverUndercounts
  <1>1. Init => AInv  BY AInit
  <1>2. AInv /\ [Next]_vars => AInv'  BY AStep
  <1>3. AInv => NeverUndercounts  BY DEF AInv, TenantInv, Counted, NeverUndercounts
  <1> QED  BY <1>1, <1>2, <1>3, PTL DEF Spec

\* A tenant whose tickets are checked and started one at a time, before any crash, stays within
\* its quota.
THEOREM QuotasHold == Spec => []QuotaHolds
  <1>1. Init => AInv  BY AInit
  <1>2. AInv /\ [Next]_vars => AInv'  BY AStep
  <1>3. AInv => QuotaHolds  BY DEF AInv, TenantInv, Single, QuotaHolds
  <1> QED  BY <1>1, <1>2, <1>3, PTL DEF Spec

-------------------------------------------------------------------------------

\* Requests that were allowed and pruned since.
Forgotten == Len(allowed) - Len(requests)

Within(start) == {i \in 1..Len(allowed) : allowed[i] \in start..(start + Window)}

\* The log is the end of what was allowed, in order; what is not in it any more is older than the
\* window; and every window has room in the log.
LimiterInv ==
    /\ now \in Nat /\ requests \in Seq(Nat) /\ allowed \in Seq(Nat)
    /\ Len(requests) <= Len(allowed) /\ Len(requests) <= MaxRequests
    /\ \A i \in 1..Len(requests) : requests[i] = allowed[i + Forgotten]
    /\ \A i \in 1..Forgotten : allowed[i] < now - Window
    /\ \A i, j \in 1..Len(allowed) : i <= j => allowed[i] <= allowed[j]
    /\ \A i \in 1..Len(allowed) : allowed[i] <= now
    /\ \A start \in Nat : Cardinality(Within(start)) <= MaxRequests

\* The log is sorted, so the binary search drops the requests before the window, and no other.
LEMMA PrunedKeepsEnd ==
    ASSUME LimiterInv, NEW kept \in Pruned(now)
    PROVE  /\ kept \in Seq(Nat) /\ Len(kept) <= Len(requests)
           /\ \A i \in 1..Len(kept) : kept[i] = allowed[i + (Len(allowed) - Len(kept))]
           /\ \A i \in 1..(Len(allowed) - Len(kept)) : allowed[i] < now - Window
  <1>1. PICK n \in Cuts(requests, now - Window) : kept = SubSeq(requests, n + 1, Len(requests))
    BY DEF Pruned
  <1>0. /\ requests \in Seq(Nat) /\ Len(requests) <= Len(allowed) /\ Len(allowed) \in Nat
        /\ \A i \in 1..Len(requests) : requests[i] = allowed[i + Forgotten]
        /\ \A i \in 1..Forgotten : allowed[i] < now - Window
        /\ \A i, j \in 1..Len(allowed) : i <= j => allowed[i] <= allowed[j]
        /\ \A i \in 1..Len(allowed) : allowed[i] \in Nat
        /\ Forgotten = Len(allowed) - Len(requests) /\ now - Window \in Int
    BY ResilienceAssumption DEF LimiterInv, Forgotten
  <1>2. n \in 0..Len(requests) /\ (n > 0 => requests[n] < now - Window)
    BY DEF Cuts
  <1>3. Len(requests) \in Nat /\ \A i \in (n + 1)..Len(requests) : requests[i] \in Nat
    BY <1>0, <1>2
  <1>4. /\ kept \in Seq(Nat)
        /\ Len(kept) = Len(requests) - n
        /\ \A i \in 1..Len(kept) : kept[i] = requests[n + i]
    <2>1. /\ kept \in Seq(Nat)
          /\ Len(kept) = IF n + 1 <= Len(requests) THEN Len(requests) - (n + 1) + 1 ELSE 0
          /\ \A i \in 1..(Len(requests) - (n + 1) + 1) : kept[i] = requests[(n + 1) + i - 1]
      BY <1>1, <1>2, <1>3, SubSeqProperties
    <2>2. Len(kept) = Len(requests) - n  BY <1>2, <1>3, <2>1
    <2>3. \A i \in 1..Len(kept) : (n + 1) + i - 1 = n + i /\ i \in 1..(Len(requests) - (n + 1) + 1)
      BY <1>2, <1>3, <2>2
    <2> QED  BY <2>1, <2>2, <2>3
  <1>5. \A i \in 1..Len(kept) : kept[i] = allowed[i + (Len(allowed) - Len(kept))]
    <2> TAKE i \in 1..Len(kept)
    <2>1. n + i \in 1..Len(requests) /\ (n + i) + Forgotten = i + (Len(allowed) - Len(kept))
      BY <1>0, <1>2, <1>3, <1>4
    <2> QED  BY <1>0, <1>4, <2>1
  <1>6. ASSUME NEW i \in 1..(Len(allowed) - Len(kept)) PROVE allowed[i] < now - Window
    <2>0. i \in 1..Len(allowed) /\ i <= n + Forgotten /\ Forgotten \in Nat  BY <1>0, <1>2, <1>3, <1>4
    <2>1. CASE i <= Forgotten  BY <1>0, <2>0, <2>1
    <2>2. CASE i > Forgotten
      <3>0. n \in 1..Len(requests) /\ n + Forgotten \in 1..Len(allowed)  BY <1>0, <1>2, <1>3, <2>0, <2>2
      <3>1. PICK last \in 1..Len(allowed) : last = n + Forgotten /\ n \in 1..Len(requests) /\ i <= last
        BY <2>0, <3>0
      <3>2. allowed[last] < now - Window  BY <1>0, <1>2, <3>1
      <3>3. allowed[i] <= allowed[last] /\ allowed[i] \in Nat /\ allowed[last] \in Nat  BY <1>0, <2>0, <3>1
      <3> QED  BY <1>0, <3>2, <3>3
    <2> QED  BY <2>0, <2>1, <2>2
  <1> QED  BY <1>0, <1>2, <1>3, <1>4, <1>5, <1>6

LEMMA LimiterInit == ASSUME Init PROVE LimiterInv
  <1>1. now = 0 /\ requests = <<>> /\ allowed = <<>>  BY DEF Init, QuotaInit, ResilienceInit
  <1>2. \A start \in Nat : Cardinality(Within(start)) = 0
    BY <1>1, FS_EmptySet DEF Within
  <1> QED  BY <1>1, <1>2, ResilienceAssumption DEF LimiterInv, Forgotten

\* A request is allowed only when the log, which holds everything of the window that ends now, has
\* room for it.
LEMMA AllowKeeps == ASSUME LimiterInv, UNCHANGED now, Allow(now) PROVE LimiterInv'
  <1>1. PICK kept \in Pruned(now) :
          Len(kept) < MaxRequests /\ requests' = Append(kept, now) /\ allowed' = Append(allowed, now)
    BY DEF Allow
  <1>2. /\ kept \in Seq(Nat) /\ Len(kept) <= Len(requests)
        /\ \A i \in 1..Len(kept) : kept[i] = allowed[i + (Len(allowed) - Len(kept))]
        /\ \A i \in 1..(Len(allowed) - Len(kept)) : allowed[i] < now - Window
    BY PrunedKeepsEnd
  <1>0. Len(allowed) \in Nat /\ Len(kept) \in Nat  BY <1>2 DEF LimiterInv
  <1>a. PICK a \in Nat, k \in Nat : a = Len(allowed) /\ k = Len(kept)  BY <1>0
  <1>3. /\ k <= a /\ MaxRequests \in Nat /\ Window \in Nat /\ now \in Nat
        /\ \A i \in 1..a : allowed[i] \in Nat /\ allowed[i] <= now
        /\ \A i \in 1..k : kept[i] = allowed[i + (a - k)]
        /\ \A i \in 1..(a - k) : allowed[i] < now - Window
    BY <1>2, <1>a, ResilienceAssumption DEF LimiterInv
  <1>4. /\ requests' \in Seq(Nat) /\ Len(requests') = k + 1 /\ requests'[k + 1] = now
        /\ \A i \in 1..k : requests'[i] = kept[i]
    BY <1>1, <1>2, <1>a DEF LimiterInv
  <1>5. /\ allowed' \in Seq(Nat) /\ Len(allowed') = a + 1 /\ allowed'[a + 1] = now
        /\ \A i \in 1..a : allowed'[i] = allowed[i]
    BY <1>1, <1>a DEF LimiterInv
  <1>6. Forgotten' = a - k  BY <1>3, <1>4, <1>5 DEF Forgotten
  <1>7. \A i \in 1..Len(requests') : requests'[i] = allowed'[i + Forgotten']
    <2>1. ASSUME NEW i \in 1..k PROVE requests'[i] = allowed'[i + (a - k)]
      <3>1. i + (a - k) \in 1..a  BY <1>3
      <3> QED  BY <3>1, <1>3, <1>4, <1>5
    <2>2. (k + 1) + (a - k) = a + 1  BY <1>3
    <2>3. \A i \in 1..(k + 1) : i \in 1..k \/ i = k + 1  BY <1>3
    <2> QED  BY <2>1, <2>2, <2>3, <1>4, <1>5, <1>6
  <1>8. \A i \in 1..Forgotten' : allowed'[i] < now - Window
    <2> TAKE i \in 1..Forgotten'
    <2>1. i \in 1..a /\ i \in 1..(a - k)  BY <1>3, <1>6
    <2> QED  BY <2>1, <1>3, <1>5
  <1>9. \A i \in 1..Len(allowed') : allowed'[i] <= now
    <2>1. \A i \in 1..(a + 1) : i \in 1..a \/ i = a + 1  BY <1>3
    <2> QED  BY <2>1, <1>3, <1>5
  <1>10. \A i, j \in 1..Len(allowed') : i <= j => allowed'[i] <= allowed'[j]
    <2> TAKE i, j \in 1..Len(allowed')
    <2>1. CASE j = a + 1  BY <2>1, <1>5, <1>9
    <2>2. CASE j \in 1..a /\ i <= j
      <3>1. i \in 1..a  BY <2>2, <1>3, <1>5
      <3> QED  BY <2>2, <3>1, <1>5, <1>a DEF LimiterInv
    <2> QED  BY <2>1, <2>2, <1>3, <1>5
  <1>11. ASSUME NEW start \in Nat PROVE Cardinality(Within(start)') <= MaxRequests
    <2>1. CASE now \notin start..(start + Window)
      <3>1. Within(start)' = Within(start)
        BY <2>1, <1>a, <1>3, <1>5 DEF Within
      <3> QED  BY <3>1 DEF LimiterInv
    <2>2. CASE now \in start..(start + Window)
      <3>1. ASSUME NEW i \in Within(start)' PROVE i \in (a - k + 1)..(a + 1)
        <4>1. i \in 1..(a + 1) /\ allowed'[i] >= now - Window  BY <2>2, <1>3, <1>5 DEF Within
        <4>2. ~(i \in 1..(a - k))
          <5>1. ASSUME i \in 1..(a - k) PROVE FALSE
            BY <5>1, <4>1, <1>3, <1>5, <1>6, <1>8
          <5> QED  BY <5>1
        <4> QED  BY <4>1, <4>2, <1>3
      <3>2. IsFiniteSet((a - k + 1)..(a + 1)) /\ Cardinality((a - k + 1)..(a + 1)) = k + 1
        BY <1>3, FS_Interval
      <3>3. Within(start)' \in SUBSET ((a - k + 1)..(a + 1))  BY <3>1
      <3>4. Cardinality(Within(start)') <= k + 1 /\ Cardinality(Within(start)') \in Nat
        BY <3>2, <3>3, FS_Subset, FS_CardinalityType
      <3> QED  BY <3>4, <1>1, <1>a, <1>3
    <2> QED  BY <2>1, <2>2
  <1>12. UNCHANGED now /\ k + 1 <= MaxRequests  BY <1>1, <1>a, <1>3
  <1> QED  BY <1>3, <1>4, <1>5, <1>7, <1>8, <1>9, <1>10, <1>11, <1>12 DEF LimiterInv

LEMMA RefuseKeeps == ASSUME LimiterInv, UNCHANGED now, Refuse(now) PROVE LimiterInv'
  <1>1. PICK kept \in Pruned(now) : requests' = kept /\ UNCHANGED allowed  BY DEF Refuse
  <1>2. /\ kept \in Seq(Nat) /\ Len(kept) <= Len(requests)
        /\ \A i \in 1..Len(kept) : kept[i] = allowed[i + (Len(allowed) - Len(kept))]
        /\ \A i \in 1..(Len(allowed) - Len(kept)) : allowed[i] < now - Window
    BY PrunedKeepsEnd
  <1>3. \A start \in Nat : Within(start)' = Within(start)  BY <1>1 DEF Within
  <1> QED  BY <1>1, <1>2, <1>3, ResilienceAssumption DEF LimiterInv, Forgotten

LEMMA LimiterStep == ASSUME LimiterInv, [Next]_vars PROVE LimiterInv'
  <1>1. CASE Next
    <2>1. CASE UNCHANGED now /\ (Allow(now) \/ Refuse(now))  BY <2>1, AllowKeeps, RefuseKeeps
    <2>2. CASE UNCHANGED <<requests, allowed>> /\ (UNCHANGED now \/ now' = now + 1)
      <3>1. now' \in Nat /\ now <= now' /\ UNCHANGED Forgotten /\ \A start \in Nat : Within(start)' = Within(start)
        BY <2>2 DEF LimiterInv, Forgotten, Within
      <3>2. \A i \in 1..Len(allowed) : allowed[i] \in Nat /\ (allowed[i] <= now => allowed[i] <= now')
        BY <3>1 DEF LimiterInv
      <3>3. \A i \in 1..Forgotten : i \in 1..Len(allowed)  BY DEF LimiterInv, Forgotten
      <3>4. \A i \in 1..Forgotten : allowed[i] < now' - Window
        BY <3>1, <3>2, <3>3, ResilienceAssumption DEF LimiterInv
      <3> QED  BY <2>2, <3>1, <3>2, <3>4 DEF LimiterInv
    <2>3. CASE UNCHANGED now /\ requests' = <<>> /\ allowed' = <<>>
      <3>1. \A start \in Nat : Cardinality(Within(start)') = 0  BY <2>3, FS_EmptySet DEF Within
      <3> QED  BY <2>3, <3>1, ResilienceAssumption DEF LimiterInv, Forgotten
    <2>4. ASSUME NEW ticket \in Tickets, Push(ticket) PROVE LimiterInv'
      BY <2>2, <2>4 DEF Push, quotaVars, resilienceVars
    <2>5. ASSUME NEW w \in Workers,
                 \/ Pop(w) \/ CheckKey(w) \/ CheckTenant(w) \/ Start(w) \/ Attempt(w) \/ AttemptFails(w)
                 \/ CountTokens(w) \/ WriteLetter(w) \/ End(w) \/ RecordKey(w)
          PROVE  LimiterInv'
      <3>1. CASE Attempt(w) \/ AttemptFails(w)  BY <2>1, <3>1 DEF Attempt, AttemptFails, quotaVars
      <3>2. CASE \/ Pop(w) \/ CheckKey(w) \/ CheckTenant(w) \/ Start(w)
                 \/ CountTokens(w) \/ WriteLetter(w) \/ End(w) \/ RecordKey(w)
        BY <2>2, <3>2 DEF Pop, CheckKey, CheckTenant, Start, CountTokens, WriteLetter, End, RecordKey, quotaVars,
                          resilienceVars, CheckQuota, RecordTicketStart, RecordTokens, RecordTicketEnd, Persist
      <3> QED  BY <2>5, <3>1, <3>2
    <2>6. CASE Crash  BY <2>3, <2>6 DEF Crash, QuotaLost
    <2>7. CASE Around  BY <2>2, <2>7 DEF Around, quotaVars, resilienceVars, Tick
    <2> QED  BY <1>1, <2>4, <2>5, <2>6, <2>7 DEF Next
  <1>2. CASE UNCHANGED vars
    BY <1>2 DEF vars, quotaVars, resilienceVars, LimiterInv, Forgotten, Within
  <1> QED  BY <1>1, <1>2

\* No stretch of time as long as the window has more requests than allowed: every length of the
\* window, every number of requests, and any number of workers that are refused or crash.
THEOREM RateIsLimited == Spec => []WindowHolds
  <1>1. Init => LimiterInv  BY LimiterInit
  <1>2. LimiterInv /\ [Next]_vars => LimiterInv'  BY LimiterStep
  <1>3. LimiterInv => WindowHolds  BY DEF LimiterInv, WindowHolds, Within
  <1> QED  BY <1>1, <1>2, <1>3, PTL DEF Spec

-------------------------------------------------------------------------------

\* A key that no two workers were under at once has at most one, and none when it is recorded.
KeyInv(k) == Under(k) # {} => ~Duplicate(k) /\ \A v, w \in Under(k) : v = w

KeysInv == TypeOK /\ recorded \in [Keys -> Int] /\ \A k \in Keys \ beside : KeyInv(k)

LEMMA KeysInit == ASSUME Init PROVE KeysInv
  <1>1. TypeOK  BY AInit DEF AInv
  <1>2. recorded \in [Keys -> Int]  BY DEF Init, ResilienceInit, Never
  <1>3. \A k \in Keys : Under(k) = {}  BY DEF Init, Under, Idle, Steps
  <1> QED  BY <1>1, <1>2, <1>3 DEF KeysInv, KeyInv

\* A step that records nothing and puts no worker under a key.
LEMMA UnderLess ==
    ASSUME NEW k \in Keys, KeyInv(k), Under(k)' \subseteq Under(k), Duplicate(k)' => Duplicate(k)
    PROVE  KeyInv(k)'
  BY DEF KeyInv

\* A step of one worker, other than the check of its key.
LEMMA UnderStep ==
    ASSUME TypeOK, NEW w \in Workers, worker[w].at \in Steps \ {"key"},
           \A v \in Workers \ {w} : worker'[v] = worker[v],
           worker'[w] = Idle \/ worker'[w].ticket = worker[w].ticket,
           NEW k
    PROVE  Under(k)' \subseteq Under(k)
  BY DEF Under, Key, TypeOK, Tasks, Idle, Steps

LEMMA KeysStep == ASSUME KeysInv, [Next]_vars PROVE KeysInv'
  <1>0. TypeOK /\ recorded \in [Keys -> Int]  BY DEF KeysInv
  <1>1. TypeOK'
    <2>1. CASE Next  BY <1>0, <2>1, TypeStep
    <2>2. CASE UNCHANGED vars
      BY <1>0, <2>2 DEF vars, quotaVars, admissionVars, TypeOK
    <2> QED  BY <2>1, <2>2
  <1>2. CASE Next
    <2>1. ASSUME UNCHANGED recorded, beside \subseteq beside', \A k \in Keys : Under(k)' \subseteq Under(k)
          PROVE  KeysInv'
      <3>1. \A k \in Keys : UNCHANGED Duplicate(k)  BY <2>1 DEF Duplicate
      <3> QED  BY <1>1, <2>1, <3>1, UnderLess DEF KeysInv
    <2>2. ASSUME NEW ticket \in Tickets, Push(ticket) PROVE KeysInv'
      BY <2>1, <2>2 DEF Push, resilienceVars, Under, Key
    <2>3. ASSUME NEW w \in Workers,
                 \/ Pop(w) \/ CheckKey(w) \/ CheckTenant(w) \/ Start(w) \/ Attempt(w) \/ AttemptFails(w)
                 \/ CountTokens(w) \/ WriteLetter(w) \/ End(w) \/ RecordKey(w)
          PROVE  KeysInv'
      <3>1. \A v \in Workers \ {w} : worker'[v] = worker[v] /\ Key(v)' = Key(v)
        BY <2>3, <1>0 DEF Pop, CheckKey, CheckTenant, Start, Attempt, AttemptFails, CountTokens, WriteLetter, End,
                          RecordKey, To, Give, TypeOK, Key
      <3>2. CASE Pop(w)
        <4>1. worker'[w].at = "key"  BY <3>2, <1>0 DEF Pop, TypeOK
        <4>2. \A k \in Keys : Under(k)' \subseteq Under(k)  BY <3>1, <4>1 DEF Under
        <4> QED  BY <2>1, <3>2, <4>2 DEF Pop, resilienceVars
      <3>3. CASE CheckKey(w)
        <4>1. worker[w].at = "key" /\ worker[w] \in Tasks /\ Key(w) \in Keys
          BY <3>3, <1>0, AdmissionAssumption DEF CheckKey, TypeOK, Tasks, Idle, Key
        <4>2. CASE Give(w) /\ UNCHANGED beside
          <5>1. worker'[w] = Idle  BY <4>2, <1>0 DEF Give, TypeOK
          <5>2. \A k \in Keys : Under(k)' \subseteq Under(k)  BY <3>1, <5>1 DEF Under, Idle, Steps
          <5> QED  BY <2>1, <3>3, <4>2, <5>2 DEF CheckKey, resilienceVars
        <4>3. CASE /\ ~Duplicate(Key(w)) /\ To(w, "quota")
                   /\ beside' = beside \union (IF Under(Key(w)) # {} THEN {Key(w)} ELSE {})
          <5>1. worker'[w].at = "quota" /\ Key(w)' = Key(w)
            BY <4>1, <4>3, <1>0 DEF To, TypeOK, Tasks, Key
          <5>2. UNCHANGED recorded /\ \A k \in Keys : UNCHANGED Duplicate(k)
            BY <3>3 DEF CheckKey, resilienceVars, Duplicate
          <5>3. ASSUME NEW k \in Keys \ beside' PROVE KeyInv(k)'
            <6>1. k \notin beside /\ KeyInv(k)  BY <4>3, <5>3 DEF KeysInv
            <6>2. CASE k # Key(w)
              <7>1. Under(k)' \subseteq Under(k)  BY <3>1, <5>1, <6>2 DEF Under
              <7> QED  BY <5>2, <6>1, <7>1, UnderLess
            <6>3. CASE k = Key(w)
              <7>1. Under(k) = {}  BY <4>3, <6>3
              <7>2. Under(k)' \subseteq {w}  BY <3>1, <7>1 DEF Under
              <7> QED  BY <4>3, <5>2, <6>3, <7>2 DEF KeyInv
            <6> QED  BY <6>2, <6>3
          <5> QED  BY <1>0, <1>1, <5>2, <5>3 DEF KeysInv
        <4> QED  BY <3>3, <4>2, <4>3 DEF CheckKey
      <3>4. CASE \/ CheckTenant(w) \/ Start(w) \/ Attempt(w) \/ AttemptFails(w)
                 \/ CountTokens(w) \/ WriteLetter(w) \/ End(w)
        <4>1. /\ worker[w].at \in Steps \ {"key"}
              /\ worker'[w] = Idle \/ worker'[w].ticket = worker[w].ticket
          BY <3>4, <1>0 DEF CheckTenant, Start, Attempt, AttemptFails, CountTokens, WriteLetter, End, To, Give,
                            TypeOK, Tasks, Idle, Steps
        <4>2. \A k \in Keys : Under(k)' \subseteq Under(k)  BY <1>0, <3>1, <4>1, UnderStep
        <4>3. UNCHANGED <<recorded, beside>>
          BY <3>4 DEF CheckTenant, Start, Attempt, AttemptFails, CountTokens, WriteLetter, End, resilienceVars
        <4> QED  BY <2>1, <4>2, <4>3
      <3>5. CASE RecordKey(w)
        <4>1. worker[w].at = "record" /\ worker'[w] = Idle /\ UNCHANGED beside
          BY <3>5, <1>0 DEF RecordKey, Give, TypeOK
        <4>2. worker[w].at \in Steps \ {"key"} /\ Key(w) \in Keys
          BY <4>1, <1>0, AdmissionAssumption DEF TypeOK, Tasks, Idle, Steps, Key
        <4>3. \A k \in Keys : Under(k)' \subseteq Under(k)  BY <1>0, <3>1, <4>1, <4>2, UnderStep
        <4>4. recorded' \in [Keys -> Int] /\ \A k \in Keys \ {Key(w)} : recorded'[k] = recorded[k]
          BY <3>5, <1>0, <4>2 DEF RecordKey, Record, TypeOK
        <4>5. ASSUME NEW k \in Keys \ beside' PROVE KeyInv(k)'
          <5>1. k \notin beside /\ KeyInv(k)  BY <4>1, <4>5 DEF KeysInv
          <5>2. CASE k # Key(w)
            <6>1. UNCHANGED Duplicate(k)  BY <4>4, <5>2 DEF Duplicate
            <6> QED  BY <4>3, <5>1, <6>1, UnderLess
          <5>3. CASE k = Key(w)
            <6>1. w \in Under(k)  BY <4>2, <5>3 DEF Under
            <6>2. w \notin Under(k)'  BY <4>1 DEF Under, Idle, Steps
            <6>3. Under(k)' = {}  BY <4>3, <5>1, <6>1, <6>2 DEF KeyInv
            <6> QED  BY <6>3 DEF KeyInv
          <5> QED  BY <5>2, <5>3
        <4> QED  BY <1>1, <4>4, <4>5 DEF KeysInv
      <3> QED  BY <2>3, <3>2, <3>3, <3>4, <3>5
    <2>4. CASE Crash
      <3>1. \A k \in Keys : Under(k)' = {}  BY <2>4 DEF Crash, Under, Idle, Steps
      <3> QED  BY <2>1, <2>4, <3>1 DEF Crash
    <2>5. CASE Around
      <3>1. UNCHANGED <<worker, beside>> /\ (UNCHANGED recorded \/ CleanUp(now))
        BY <2>5 DEF Around, quotaVars, resilienceVars, admissionVars, Tick
      <3>2. \A k \in Keys : Under(k)' = Under(k)  BY <3>1 DEF Under, Key
      <3>3. CASE UNCHANGED recorded  BY <2>1, <3>1, <3>2, <3>3
      <3>4. CASE CleanUp(now)
        <4>1. recorded' \in [Keys -> Int] /\ \A k \in Keys : recorded'[k] = Never \/ recorded'[k] = recorded[k]
          BY <3>4, <1>0 DEF CleanUp, Never
        <4>2. \A k \in Keys : Duplicate(k)' => Duplicate(k)  BY <4>1 DEF Duplicate
        <4> QED  BY <1>1, <3>1, <3>2, <4>1, <4>2, UnderLess DEF KeysInv
      <3> QED  BY <3>1, <3>3, <3>4
    <2> QED  BY <1>2, <2>2, <2>3, <2>4, <2>5 DEF Next
  <1>3. CASE UNCHANGED vars
    <2>1. UNCHANGED <<recorded, worker, beside>>  BY <1>3 DEF vars, resilienceVars, admissionVars
    <2>2. \A k \in Keys : UNCHANGED Duplicate(k) /\ UNCHANGED Under(k)  BY <2>1 DEF Duplicate, Under, Key
    <2> QED  BY <1>0, <1>1, <2>1, <2>2, UnderLess DEF KeysInv
  <1> QED  BY <1>2, <1>3

\* Whatever crashes, failed records, clean-ups and repeated tickets there are, nobody works under a
\* key that is recorded, unless two workers found that key new beside each other.
THEOREM NoKeyIsRepeated == Spec => []RecordedIsNotRepeated
  <1>1. Init => KeysInv  BY KeysInit
  <1>2. KeysInv /\ [Next]_vars => KeysInv'  BY KeysStep
  <1>3. KeysInv => RecordedIsNotRepeated  BY DEF KeysInv, KeyInv, RecordedIsNotRepeated
  <1> QED  BY <1>1, <1>2, <1>3, PTL DEF Spec
=============================================================================
