--------------------------- MODULE DispatcherProps ---------------------------
(***************************************************************************)
(* What is asserted of the dispatcher.                                     *)
(***************************************************************************)
EXTENDS Dispatcher

TypeOK ==
    /\ tickets \in [Tickets -> TicketStates \union {"NONE"}]
    /\ greenTags \subseteq {"default", "v16.4", NoTag}
    /\ runs \in [Calls -> RunStatus \union {"none"}]
    /\ artifacts \subseteq Row
    /\ blobs \subseteq Hashes
    /\ defects \subseteq [run: Calls, n: Nat]
    /\ andon \subseteq Calls
    /\ history \in [Procs -> [Tickets -> [Classes -> Nat]]]
    /\ pc \in [Calls -> Stages]
    /\ ticket \in [Calls -> Tickets]
    /\ batch \in [Calls -> Seq(Artifact)]
    /\ idx \in [Calls -> Nat \ {0}]
    /\ found \in [Calls -> Seq(Classes)]
    /\ verdict \in [Calls -> {"none", "pass", "fail"}]
    /\ retry \in [Calls -> BOOLEAN]
    /\ result \in [Calls -> {"none", "error", "failed", "success"}]
    /\ hit \subseteq Calls
    /\ gated \in BOOLEAN

\* Artifact a of call c is in the catalog and its content can be fetched.
Stored(c, a) == RowOf(c, a) \in artifacts /\ a.hash \in blobs

AllStored(c) == \A i \in DOMAIN batch[c] : Stored(c, batch[c][i])

\* A catalog row never points at a blob that is not there: ArtifactRepo.Create
\* writes the blob before the row, whatever fails or dies in between.
RowHasBlob == \A r \in artifacts : r.hash \in blobs

\* A run recorded as completed has every artifact of its execution in the catalog
\* and in the blob store: Run completes only after the whole loop of step 9.
CompletedRunIsStored == \A c \in Calls : runs[c] = "completed" => AllStored(c)

\* A ticket that reads COMPLETED owes it to one call of Run for that ticket which
\* passed Omega and stored its whole batch, however many calls race on the ticket.
CompletedTicketHasWitness ==
    \A t \in Tickets : tickets[t] = "COMPLETED" =>
        \E c \in Calls : ticket[c] = t /\ verdict[c] = "pass" /\ AllStored(c)

\* A halt signal and a stored defect are about a run already closed as failed, so
\* whoever reacts to them reads a settled run: Run closes the run before it pulls
\* the cord and stores the defects.
SignalsFollowTheRecord ==
    \A c \in andon \union {d.run : d \in defects} :
        verdict[c] = "fail" /\ (runs[c] = "failed" \/ c \in hit)

\* A call that met no failed write leaves a record that agrees with what it
\* returned: success with a completed run, failure with no open run.
ResultMatchesRun ==
    \A c \in Calls \ hit :
        /\ result[c] = "success" => runs[c] = "completed"
        /\ result[c] = "failed" => runs[c] \in {"none", "failed"}

\* Call c still owes its ticket the settling write, or will not make it.
Owes(c) == pc[c] \in Unsettled \union {"crashed"} \/ result[c] = "error" \/ c \in hit

\* A ticket is left in an in-flight state only while some call on it still owes the
\* settling write, or because one died, returned an error or met a failed write:
\* two calls that race on a ticket cannot leave it in flight between them.
InFlightHasOwner ==
    \A t \in Tickets : tickets[t] \in InFlightStates =>
        \E c \in Calls : ticket[c] = t /\ Owes(c)

-------------------------------------------------------------------------------
(* The inductive invariant behind them: what holds of a call at each stage *)

NoRunYet   == {"idle", "dispatch", "preflight", "preflight_failed", "create_run"}
RunOpen    == {"mark_executing", "execute", "exec_failed", "close_exec", "mark_ready",
               "gates", "unique", "verdict", "mark_omega_failed", "close_omega",
               "store_blob", "store_row", "mark_completed", "close_completed"}
PreVerdict == NoRunYet \union {"mark_executing", "execute", "exec_failed", "close_exec",
                               "mark_ready", "gates", "unique", "verdict"}
Rejecting  == {"mark_omega_failed", "close_omega", "andon", "defects"}
Storing    == {"store_blob", "store_row"}
AfterStore == {"mark_completed", "close_completed", "reset"}

\* The run row and the verdict follow the stage.
StageInv(c) ==
    /\ pc[c] \in NoRunYet => runs[c] = "none"
    /\ pc[c] \in RunOpen => runs[c] = "running"
    /\ pc[c] \in PreVerdict => verdict[c] = "none"
    /\ pc[c] \in Rejecting => verdict[c] = "fail"
    /\ pc[c] \in Storing \union AfterStore => verdict[c] = "pass"
    /\ verdict[c] = "pass" => runs[c] # "failed"
    /\ pc[c] \in PreVerdict \ {"unique"} => idx[c] = 1

\* How much of the batch is stored.
StoreInv(c) ==
    /\ pc[c] \in Storing =>
          /\ idx[c] <= Len(batch[c])
          /\ \A i \in 1..(idx[c] - 1) : Stored(c, batch[c][i])
    /\ pc[c] = "store_row" => Current(c).hash \in blobs
    /\ (pc[c] \in AfterStore \/ runs[c] = "completed") =>
          (verdict[c] = "pass" /\ AllStored(c))

\* The closing writes took effect unless the call met a failure.
CloseInv(c) ==
    /\ pc[c] \in {"andon", "defects"} => (runs[c] = "failed" \/ c \in hit)
    /\ pc[c] = "reset" => (runs[c] = "completed" \/ c \in hit)
    /\ pc[c] # "returned" => result[c] = "none"
    /\ c \notin hit /\ result[c] = "success" => runs[c] = "completed"
    /\ c \notin hit /\ result[c] = "failed" => runs[c] \in {"none", "failed"}

RowsPassed == \A r \in artifacts : verdict[r.run] = "pass"

IInv ==
    /\ TypeOK
    /\ \A c \in Calls : StageInv(c) /\ StoreInv(c) /\ CloseInv(c)
    /\ RowHasBlob
    /\ RowsPassed
    /\ SignalsFollowTheRecord
    /\ CompletedTicketHasWitness
    /\ InFlightHasOwner

-------------------------------------------------------------------------------
(* The tables as seen from outside, and what must eventually happen *)

Catalog == {[id |-> r.id, run |-> r.run, content |-> r.hash] : r \in artifacts}

Ledger == INSTANCE RunLedger WITH
              Runs <- Calls, Ids <- ArtifactIDs, Contents <- Hashes,
              status <- runs, catalog <- Catalog

\* The runs and artifacts tables keep the promises of RunLedger to their readers: a
\* closed run is final, artifact_id is a key, and a failed run has published nothing.
LedgerSpec == Ledger!Spec

\* The order in which Run comes to its stages; the two halves of storing an artifact are one.
Place == [idle |-> 0, dispatch |-> 1, preflight |-> 2, preflight_failed |-> 3, create_run |-> 3,
          mark_executing |-> 4, execute |-> 5, exec_failed |-> 6, close_exec |-> 7, mark_ready |-> 6,
          gates |-> 7, unique |-> 8, verdict |-> 9, mark_omega_failed |-> 10, close_omega |-> 11,
          andon |-> 12, defects |-> 13, store_blob |-> 10, store_row |-> 10, mark_completed |-> 11,
          close_completed |-> 12, reset |-> 13, returned |-> 14, crashed |-> 14]

Beyond(s, t) == Place[s] < Place[t]

\* What the loops of Run have still to do: a query per artifact, two writes per artifact, a
\* write per defect.
Left(c) ==
    IF pc[c] = "unique" THEN Len(batch[c]) + 1 - idx[c]
    ELSE IF pc[c] = "defects" THEN Len(found[c]) + 1 - idx[c]
    ELSE 2 * (Len(batch[c]) + 1 - idx[c]) + (IF pc[c] = "store_blob" THEN 1 ELSE 0)

\* Call c comes to a stage beyond, or nearer to the end of the loop it is in.
Forward(c) ==
    \/ Beyond(pc[c], pc'[c])
    \/ /\ \/ pc[c] \in {"unique", "defects"} /\ pc'[c] = pc[c]
          \/ {pc[c], pc'[c]} = {"store_blob", "store_row"}
       /\ Left(c)' \in Nat /\ Left(c)' < Left(c)

\* Run never goes back: each of its steps brings the call forward, and no step of another call,
\* process or operator brings it anywhere else, so a call makes only so many steps as its batch
\* and its report are long.
RunAdvances ==
    [][\A c \in Calls :
          Forward(c) \/ (UNCHANGED <<pc[c], idx[c], batch[c], found[c]>> /\ ~Run(c))]_vars

\* Every in-flight ticket settles, unless a call on it died, returned an error or met
\* a failed write.
InFlightSettles ==
    \A t \in Tickets :
        tickets[t] \in InFlightStates
            ~> \/ tickets[t] \in SettledStates
               \/ \E c \in Calls : /\ ticket[c] = t
                                   /\ \/ pc[c] = "crashed"
                                      \/ result[c] = "error"
                                      \/ c \in hit

\* No two artifacts in the catalog have the same content: the uniqueness gate looks in
\* the batch and in the catalog before anything is stored.
UniqueCatalog == \A r, s \in artifacts : r.hash = s.hash => r = s

\* Two calls in one process failed on the same ticket, with a class in common.
FailedAlike(c, d) ==
    /\ c # d /\ ProcOf[c] = ProcOf[d] /\ ticket[c] = ticket[d]
    /\ verdict[c] = "fail" /\ verdict[d] = "fail"
    /\ \E i \in DOMAIN found[c] : \E j \in DOMAIN found[d] : found[c][i] = found[d][j]

\* Same defect class twice on a ticket stops its retries (retry.go:9): of two calls that
\* failed alike at most one was told to retry, unless the ticket succeeded in the
\* meantime (retry.go:80).
SameClassTwiceStops ==
    \A c, d \in Calls :
        FailedAlike(c, d) /\ (\A e \in Calls : ticket[e] = ticket[c] => verdict[e] # "pass")
            => ~(retry[c] /\ retry[d])

\* No call has emptied the history of the engine of process p, and it has not died.
KeepsHistory(p) ==
    \A e \in Calls : ProcOf[e] = p => result[e] # "success" /\ pc[e] # "crashed"

\* What the retry controller does keep of that: of two calls that failed alike at most one
\* was told to retry, in a process in which no call has succeeded, on whatever ticket,
\* however the two interleave.
SameClassStopsBetweenResets ==
    \A c, d \in Calls :
        FailedAlike(c, d) /\ KeepsHistory(ProcOf[c]) => ~(retry[c] /\ retry[d])
================================================================================
