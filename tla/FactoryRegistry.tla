--------------------------- MODULE FactoryRegistry ---------------------------
(***************************************************************************)
(* The factory registry: internal/factory/registry.go over the tables       *)
(* workers and stations, with the heartbeat listener of heartbeat.go.       *)
(*                                                                         *)
(* Every partir process starts a heartbeat listener on a Registry of its    *)
(* own, and its factory commands open another: a Registry's mutex orders    *)
(* the operations of that Registry and of no other.  Registry operations    *)
(* of one SQL statement are one step; AssignWorkerToStation and             *)
(* DetectCrashedWorkers read the tables in one step and write in a later    *)
(* one.  Workers are outside the repository: their heartbeats arrive late,  *)
(* at any listener, more than once or never.                                *)
(***************************************************************************)
EXTENDS Integers, FiniteSets

CONSTANTS
    Registries,     \* Registry values, over all processes
    Workers,        \* worker ids
    Stations,       \* station ids
    SlotCount,      \* slots of a station, 5 in the code
    Timeout,        \* HeartbeatTimeout, in ticks
    Sent,           \* statuses heartbeats carry
    Claims,         \* places heartbeats carry
    OneAtATime,     \* TRUE: the operators run one assign command at a time
    MaxTime         \* bound: the clock

ASSUME SlotAssumption == SlotCount \in Nat \ {0}
ASSUME TimeAssumption == Timeout \in Nat /\ MaxTime \in Nat
ASSUME OperatorAssumption == OneAtATime \in BOOLEAN

Slots == 1..SlotCount

\* assigned_station and assigned_slot: both set, or both null or empty.
NoPlace == [station |-> "none", slot |-> 0]
Places  == [station: Stations, slot: Slots]
ASSUME StationAssumption == "none" \notin Stations
ASSUME ClaimsAssumption == Claims \subseteq Places \union {NoPlace}

\* Statuses whose silence the crash detector looks for.
Live == {"active", "hot_standby"}
ASSUME SentAssumption ==
    Sent \subseteq Live \union {"sleeping", "starting", "testing", "quarantined", "maintenance"}

VARIABLES
    now,        \* the clock of the processes
    known,      \* ids with a row in workers
    status,     \* workers.status
    place,      \* workers.assigned_station and assigned_slot
    beat,       \* workers.last_heartbeat
    station,    \* stations.status
    op,         \* what the holder of each Registry's mutex is in the middle of
    target,     \* station and worker of the assignment in progress
    used,       \* usedSlots of the assignment in progress
    since,      \* when the crash detection in progress took its cutoff
    announced   \* ghost: workers that are where they said, and no operator put them there

vars  == <<now, known, status, place, beat, station, op, target, used, since, announced>>
rows  == <<known, status, place, beat, announced>>
local == <<target, used, since>>

NoTarget == [station |-> "none", worker |-> "none"]

Init ==
    /\ now = 0
    /\ known = {}
    /\ status = [w \in Workers |-> "sleeping"]
    /\ place = [w \in Workers |-> NoPlace]
    /\ beat = [w \in Workers |-> 0]
    /\ station = [s \in Stations |-> "idle"]
    /\ op = [r \in Registries |-> "none"]
    /\ target = [r \in Registries |-> NoTarget]
    /\ used = [r \in Registries |-> {}]
    /\ since = [r \in Registries |-> 0]
    /\ announced = {}

-------------------------------------------------------------------------------

\* usedSlots: the slots of station s that some worker's row names.
UsedSlots(s) == {place[w].slot : w \in {v \in known : place[v].station = s}}

\* A row's heartbeat is older than the timeout, seen at time t.
Silent(w, t) == beat[w] + Timeout < t

\* Rows the crash detector's condition selects, the cutoff having been taken at t.
Lost(t) == {w \in known : status[w] \in Live /\ Silent(w, t)}

Unlocked(r) == op[r] = "none"

\* The operation in progress returns and its local variables go.
Finish(r) ==
    /\ op' = [op EXCEPT ![r] = "none"]
    /\ target' = [target EXCEPT ![r] = NoTarget]
    /\ used' = [used EXCEPT ![r] = {}]
    /\ since' = [since EXCEPT ![r] = 0]

Tick ==
    /\ now < MaxTime
    /\ now' = now + 1
    /\ UNCHANGED <<rows, station, op, local>>

\* Mutant: the upsert of a heartbeat also writes the place the worker claims.
HeartbeatWritesPlace(r, w, s, p, t) ==
    /\ Unlocked(r)
    /\ known' = known \union {w}
    /\ status' = [status EXCEPT ![w] = s]
    /\ beat' = [beat EXCEPT ![w] = t]
    /\ place' = [place EXCEPT ![w] = p]
    /\ UNCHANGED <<now, station, op, local, announced>>

\* handleHeartbeat and RegisterWorker: insert the row, place and all, or update it except
\* its place; the status replaces any other, crashed included.  The listener read its
\* clock when the message came, at t, and then waited for the mutex and the database.
Heartbeat(r, w, s, p, t) ==
    /\ Unlocked(r)
    /\ known' = known \union {w}
    /\ status' = [status EXCEPT ![w] = s]
    /\ beat' = [beat EXCEPT ![w] = t]
    /\ place' = IF w \in known THEN place ELSE [place EXCEPT ![w] = p]
    /\ announced' = IF w \in known \/ p = NoPlace THEN announced ELSE announced \union {w}
    /\ UNCHANGED <<now, station, op, local>>

-------------------------------------------------------------------------------
(* AssignWorkerToStation *)

\* Mutant: the slots of workers that crashed are taken for free.
AssignReadSkipsCrashed(r, s, w) ==
    /\ Unlocked(r)
    /\ OneAtATime => \A q \in Registries : op[q] # "assign"
    /\ op' = [op EXCEPT ![r] = "assign"]
    /\ target' = [target EXCEPT ![r] = [station |-> s, worker |-> w]]
    /\ used' = [used EXCEPT ![r] =
                  {place[v].slot : v \in {u \in known : place[u].station = s
                                                       /\ status[u] # "crashed"}}]
    /\ ~(Slots \subseteq used'[r])
    /\ UNCHANGED <<now, rows, station, since>>

\* Begin the transaction, read the used slots and find one that is free; with none the
\* operation returns an error and nothing has changed.
AssignRead(r, s, w) ==
    /\ Unlocked(r)
    /\ OneAtATime => \A q \in Registries : op[q] # "assign"
    /\ ~(Slots \subseteq UsedSlots(s))
    /\ op' = [op EXCEPT ![r] = "assign"]
    /\ target' = [target EXCEPT ![r] = [station |-> s, worker |-> w]]
    /\ used' = [used EXCEPT ![r] = UsedSlots(s)]
    /\ UNCHANGED <<now, rows, station, since>>

\* The first slot, from 1 up, that was not in use.
FirstFree(r, n) == n \in Slots \ used[r] /\ \A m \in 1..(n - 1) : m \in used[r]

\* Mutant: an existing station row is left as it is.
AssignCommitKeepsStation(r) ==
    /\ op[r] = "assign"
    /\ Finish(r)
    /\ LET w == target[r].worker
           s == target[r].station
       IN  \E n \in Slots :
              /\ FirstFree(r, n)
              /\ place' = IF w \in known
                            THEN [place EXCEPT ![w] = [station |-> s, slot |-> n]] ELSE place
              /\ status' = IF w \in known THEN [status EXCEPT ![w] = "active"] ELSE status
              /\ announced' = announced \ {w}
    /\ UNCHANGED <<now, known, beat, station>>

\* Update the worker's row, if there is one, and the station's, and commit.
AssignCommit(r) ==
    /\ op[r] = "assign"
    /\ Finish(r)
    /\ LET w == target[r].worker
           s == target[r].station
       IN  /\ \E n \in Slots :
                 /\ FirstFree(r, n)
                 /\ place' = IF w \in known
                               THEN [place EXCEPT ![w] = [station |-> s, slot |-> n]] ELSE place
           /\ status' = IF w \in known THEN [status EXCEPT ![w] = "active"] ELSE status
           /\ station' = [station EXCEPT ![s] = "active"]
           /\ announced' = announced \ {w}
    /\ UNCHANGED <<now, known, beat>>

\* UnassignWorker: one update, whatever the worker's status was.
Unassign(r, w) ==
    /\ Unlocked(r)
    /\ w \in known
    /\ place' = [place EXCEPT ![w] = NoPlace]
    /\ status' = [status EXCEPT ![w] = "sleeping"]
    /\ announced' = announced \ {w}
    /\ UNCHANGED <<now, known, beat, station, op, local>>

-------------------------------------------------------------------------------
(* DetectCrashedWorkers, every ten seconds in every process *)

\* Take the cutoff and select the silent rows; with none there is nothing to update.
DetectRead(r) ==
    /\ Unlocked(r)
    /\ Lost(now) # {}
    /\ op' = [op EXCEPT ![r] = "detect"]
    /\ since' = [since EXCEPT ![r] = now]
    /\ UNCHANGED <<now, rows, station, target, used>>

\* Mutant: the update does not look at last_heartbeat again.
DetectMarkUnchecked(r) ==
    /\ op[r] = "detect"
    /\ Finish(r)
    /\ status' = [w \in Workers |->
                    IF w \in known /\ status[w] \in Live THEN "crashed" ELSE status[w]]
    /\ UNCHANGED <<now, known, place, beat, station, announced>>

\* Mutant: only workers on hot standby are marked.
DetectMarkStandbyOnly(r) ==
    /\ op[r] = "detect"
    /\ Finish(r)
    /\ status' = [w \in Workers |->
                    IF w \in Lost(since[r]) /\ status[w] = "hot_standby"
                      THEN "crashed" ELSE status[w]]
    /\ UNCHANGED <<now, known, place, beat, station, announced>>

\* Mark the rows the same condition selects now, with the old cutoff.
DetectMark(r) ==
    /\ op[r] = "detect"
    /\ Finish(r)
    /\ status' = [w \in Workers |-> IF w \in Lost(since[r]) THEN "crashed" ELSE status[w]]
    /\ UNCHANGED <<now, known, place, beat, station, announced>>

\* The second query or the commit fails, or the process dies: nothing was written.
Abort(r) ==
    /\ ~Unlocked(r)
    /\ Finish(r)
    /\ UNCHANGED <<now, rows, station>>

-------------------------------------------------------------------------------

Next ==
    \/ Tick
    \/ \E r \in Registries :
          \/ \E w \in Workers :
                \/ \E s \in Sent, p \in Claims, t \in 0..now : Heartbeat(r, w, s, p, t)
                \/ \E s \in Stations : AssignRead(r, s, w)
                \/ Unassign(r, w)
          \/ AssignCommit(r) \/ DetectRead(r) \/ DetectMark(r) \/ Abort(r)

Spec == Init /\ [][Next]_vars

\* A detector's ticker fires again and again, the mutex it needs is starvation free, and
\* the database does not fail every update for ever; time passes.
Detects(r) == SF_vars(DetectRead(r)) /\ SF_vars(DetectMark(r))

FairSpec == Spec /\ WF_vars(Tick) /\ \A r \in Registries : Detects(r)

================================================================================
