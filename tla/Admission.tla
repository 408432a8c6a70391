------------------------------ MODULE Admission ------------------------------
(***************************************************************************)
(* Workers that take tickets from the priority queue                       *)
(* (internal/dispatch/priority_queue.go) and put them through the library   *)
(* of internal/resilience and the quota manager, in the order of            *)
(* docs/architecture/overview.md:92-109.  Nothing in src calls these yet:   *)
(* the order is the caller's, the operations are the library's.            *)
(*                                                                         *)
(* Bounds: MaxTime ticks, MaxPushes pushes, MaxCrashes crashes.             *)
(***************************************************************************)
EXTENDS Quota, Resilience

CONSTANTS
    Workers,
    Tickets,
    TenantOf, KeyOf, PriorityOf,    \* of a ticket
    Tokens,                         \* a run may use
    MaxPushes, MaxCrashes

ASSUME AdmissionAssumption ==
    /\ IsFiniteSet(Workers)
    /\ TenantOf \in [Tickets -> Tenants] /\ KeyOf \in [Tickets -> Keys] /\ PriorityOf \in [Tickets -> Int]
    /\ Tokens \subseteq Nat
    /\ MaxPushes \in Nat /\ MaxCrashes \in Nat

VARIABLES
    queue,      \* tickets in the heap
    worker,     \* what each worker is doing
    pushes, crashes,
    loose,      \* ghost: tenants checked for two tickets at once, or after a crash
    beside      \* ghost: keys that one worker found new while another worked under them

admissionVars == <<queue, worker, pushes, crashes, loose, beside>>
vars == <<quotaVars, resilienceVars, admissionVars>>

Idle == [at |-> "idle"]
Steps == {"key", "quota", "start", "try", "tokens", "letter", "end", "record"}

Init ==
    /\ QuotaInit /\ ResilienceInit
    /\ queue = {}
    /\ worker = [w \in Workers |-> Idle]
    /\ pushes = 0 /\ crashes = 0
    /\ loose = {} /\ beside = {}

To(w, at)  == worker' = [worker EXCEPT ![w].at = at]
Give(w)    == worker' = [worker EXCEPT ![w] = Idle]
Tenant(w)  == TenantOf[worker[w].ticket]
Key(w)     == KeyOf[worker[w].ticket]

\* Workers whose check of the quota of t passed and is not yet recorded.
Checked(t) == {w \in Workers : worker[w].at = "start" /\ Tenant(w) = t}

\* Tickets of t that run, as far as the quota manager has been told.
Running(t) == {w \in Workers : worker[w].at \in {"try", "tokens", "letter", "end"} /\ Tenant(w) = t}

\* Workers whose check found the key new, and whose ticket is not over.
Under(k) == {w \in Workers : worker[w].at \in Steps \ {"key"} /\ Key(w) = k}

\* Push: a ticket may come again once it was taken.
Push(ticket) ==
    /\ pushes < MaxPushes /\ ticket \notin queue
    /\ queue' = queue \union {ticket}
    /\ pushes' = pushes + 1
    /\ UNCHANGED <<quotaVars, resilienceVars, worker, crashes, loose, beside>>

\* Pop: one of the highest priority, in no order among those.
Pop(w) ==
    \E ticket \in queue :
        /\ worker[w] = Idle
        /\ \A other \in queue : PriorityOf[other] <= PriorityOf[ticket]
        /\ queue' = queue \ {ticket}
        /\ worker' = [worker EXCEPT ![w] = [at |-> "key", ticket |-> ticket, attempt |-> 0, done |-> FALSE]]
        /\ UNCHANGED <<quotaVars, resilienceVars, pushes, crashes, loose, beside>>

\* Mutant: a check that fails lets the ticket through.
CheckKeyOpen(w) ==
    /\ worker[w].at = "key"
    /\ To(w, "quota")
    /\ beside' = beside \union (IF Under(Key(w)) # {} THEN {Key(w)} ELSE {})
    /\ UNCHANGED <<quotaVars, resilienceVars, queue, pushes, crashes, loose>>

\* A key that is there is a duplicate; a check that fails ends it too.
CheckKey(w) ==
    /\ worker[w].at = "key"
    /\ \/ /\ ~Duplicate(Key(w)) /\ To(w, "quota")
          /\ beside' = beside \union (IF Under(Key(w)) # {} THEN {Key(w)} ELSE {})
       \/ Give(w) /\ UNCHANGED beside
    /\ UNCHANGED <<quotaVars, resilienceVars, queue, pushes, crashes, loose>>

CheckTenant(w) ==
    /\ worker[w].at = "quota"
    /\ CheckQuota(Tenant(w))
    /\ IF WithinQuota(Tenant(w)) THEN To(w, "start") ELSE Give(w)
    /\ loose' = loose \union (IF Checked(Tenant(w)) # {} \/ crashes > 0 THEN {Tenant(w)} ELSE {})
    /\ UNCHANGED <<resilienceVars, queue, pushes, crashes, beside>>

Start(w) ==
    /\ worker[w].at = "start"
    /\ RecordTicketStart(Tenant(w))
    /\ To(w, "try")
    /\ UNCHANGED <<resilienceVars, queue, pushes, crashes, loose, beside>>

\* The function given to RetryWithBackoff asks the limiter, then works.
Attempt(w) ==
    /\ worker[w].at = "try"
    /\ Allow(now)
    /\ worker' = [worker EXCEPT ![w].at = "tokens", ![w].done = TRUE]
    /\ UNCHANGED <<quotaVars, recorded, letters, queue, pushes, crashes, loose, beside>>

\* Refused by the limiter, or failed.  The last failure, and one during which the context is
\* cancelled, end it.
AttemptFails(w) ==
    /\ worker[w].at = "try"
    /\ Allow(now) \/ Refuse(now)
    /\ \/ RetryAfter(worker[w].attempt) /\ worker' = [worker EXCEPT ![w].attempt = @ + 1]
       \/ To(w, "letter")
    /\ UNCHANGED <<quotaVars, recorded, letters, queue, pushes, crashes, loose, beside>>

CountTokens(w) ==
    \E tokens \in Tokens :
        /\ worker[w].at = "tokens"
        /\ RecordTokens(Tenant(w), tokens)
        /\ To(w, "end")
        /\ UNCHANGED <<resilienceVars, queue, pushes, crashes, loose, beside>>

\* A letter that cannot be written is lost.
WriteLetter(w) ==
    /\ worker[w].at = "letter"
    /\ Enqueue(Letter(worker[w].ticket, worker[w].attempt + 1)) \/ UNCHANGED letters
    /\ To(w, "end")
    /\ UNCHANGED <<quotaVars, requests, allowed, recorded, queue, pushes, crashes, loose, beside>>

End(w) ==
    /\ worker[w].at = "end"
    /\ RecordTicketEnd(Tenant(w))
    /\ IF worker[w].done THEN To(w, "record") ELSE Give(w)
    /\ UNCHANGED <<resilienceVars, queue, pushes, crashes, loose, beside>>

RecordKey(w) ==
    /\ worker[w].at = "record"
    /\ Record(Key(w), now) \/ UNCHANGED recorded
    /\ Give(w)
    /\ UNCHANGED <<quotaVars, requests, allowed, letters, queue, pushes, crashes, loose, beside>>

\* The process ends: what it had in memory is gone, the tables stay.
Crash ==
    /\ crashes < MaxCrashes
    /\ crashes' = crashes + 1
    /\ QuotaLost
    /\ requests' = <<>> /\ allowed' = <<>>
    /\ queue' = {}
    /\ worker' = [w \in Workers |-> Idle]
    /\ UNCHANGED <<recorded, letters, pushes, loose, beside>>

\* An operator, pg_cron and the clock.
Around ==
    \/ \E i \in 1..Len(letters) :
          Resolve(i) /\ UNCHANGED <<quotaVars, requests, allowed, recorded, admissionVars>>
    \/ CleanUp(now) /\ UNCHANGED <<quotaVars, requests, allowed, letters, admissionVars>>
    \/ Tick /\ UNCHANGED <<resilienceVars, admissionVars>>

Next ==
    \/ \E ticket \in Tickets : Push(ticket)
    \/ \E w \in Workers :
          \/ Pop(w) \/ CheckKey(w) \/ CheckTenant(w) \/ Start(w) \/ Attempt(w) \/ AttemptFails(w)
          \/ CountTokens(w) \/ WriteLetter(w) \/ End(w) \/ RecordKey(w)
    \/ Crash
    \/ Around

Spec == Init /\ [][Next]_vars

-------------------------------------------------------------------------------

\* The manager counts every ticket that runs: no window that ends, no failed save or load, no
\* usage loaded after a crash makes the count of a tenant smaller than its tickets.
NeverUndercounts ==
    \A t \in Tenants : Running(t) # {} => usage[t].concurrent >= Cardinality(Running(t))

\* A tenant of whom one ticket at a time is checked and started, in a process that has not been
\* restarted, never runs more tickets, and never starts more in an hour, than its quota.
QuotaHolds ==
    \A t \in Tenants \ loose :
        usage[t] # Unknown =>
            usage[t].concurrent <= MaxConcurrentTickets /\ usage[t].hour <= MaxTicketsPerHour

\* While a key is recorded nobody works under it, unless it was found new beside another worker:
\* no crash, failed record, key that is cleaned up or ticket that comes again makes work whose key
\* is recorded be done once more.
RecordedIsNotRepeated ==
    \A k \in Keys \ beside : Duplicate(k) => Under(k) = {}

\* No stretch of time as long as the window, its two ends included, has more requests than
\* allowed, however many were refused and forgotten meanwhile.
WindowHolds ==
    \A start \in 0..now :
        Cardinality({i \in 1..Len(allowed) : allowed[i] \in start..(start + Window)}) <= MaxRequests
===============================================================================
