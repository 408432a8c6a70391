------------------------------ MODULE Dispatcher ------------------------------
(***************************************************************************)
(* The Foundry dispatcher: Submit and Run of internal/foundry/dispatcher.go *)
(* over the Postgres tables tickets, runs, artifacts and defects, the blob  *)
(* store, and the Omega engine Run consults.                               *)
(*                                                                         *)
(* A call is one invocation of Run.  Calls run concurrently: each CLI      *)
(* `foundry run` is its own process, and one process may hold several      *)
(* calls on the same Dispatcher.  Every statement of Run that reaches the  *)
(* database, the blob store, the executor, the engine or NATS is a step of *)
(* its own, so that calls interleave between any two of them, and a        *)
(* process may die between any two of them.                                *)
(*                                                                         *)
(* A write can fail in two ways the caller cannot tell apart: it was not   *)
(* applied, or it was applied and the answer was lost.  hit holds the      *)
(* calls that met such a failure.                                          *)
(***************************************************************************)
EXTENDS Naturals, Sequences, FiniteSets

CONSTANTS
    Calls,          \* invocations of Run
    Procs,          \* operating-system processes, one Dispatcher and engine each
    ProcOf,         \* the process that makes each call
    Tickets,        \* ticket_id values
    ArtifactIDs,    \* artifact_id values the plugins choose
    Hashes,         \* content hashes
    Classes,        \* defect classes
    Duplicate,      \* the class of the uniqueness gate
    Batches,        \* what an execution may produce
    DefectLists,    \* what a gate other than the uniqueness gate may report
    GateSetups,     \* whether DefaultGates were added to the engines: {TRUE}, {FALSE} or both
    MaxActive,      \* bound: calls in flight at once
    MaxFaulty       \* bound: calls that meet a failed write

Artifact == [id: ArtifactIDs, hash: Hashes]

ASSUME CallsAssumption == ProcOf \in [Calls -> Procs]
ASSUME BatchesAssumption == Batches \subseteq Seq(Artifact)
ASSUME ClassesAssumption ==
    /\ Duplicate \in Classes
    /\ DefectLists \subseteq Seq(Classes) \ {<<>>}
ASSUME BoundsAssumption == GateSetups \subseteq BOOLEAN /\ MaxActive \in Nat /\ MaxFaulty \in Nat

\* The green tag that Submit writes: GreenTagRef is left empty.
NoTag == ""

VARIABLES
    tickets,    \* tickets.state by ticket_id, "NONE" while there is no row
    greenTags,  \* green_tags.name
    runs,       \* runs.status of the run each call opened, "none" before that
    artifacts,  \* rows of artifacts
    blobs,      \* hashes present in the blob store
    defects,    \* rows of defects: the run, and the index in the gate's report
    andon,      \* calls whose halt signal NATS accepted
    history,    \* RetryController.defectHistory of each process's engine
    pc,         \* the statement of Run each call is about to execute
    ticket,     \* the ticket_id argument of each call
    batch,      \* execResult.Artifacts
    idx,        \* index of the loop the call is in
    found,      \* omegaResult.Defects, by class
    verdict,    \* omegaResult.Pass
    retry,      \* omegaResult.ShouldRetry
    result,     \* what Run returned
    hit,        \* calls that met a failed write
    gated       \* the engines have the default gates; never changes

dbVars   == <<tickets, greenTags, runs, artifacts, blobs, defects>>
fixed    == <<ticket, gated>>
callVars == <<batch, idx, found, verdict, retry>>
vars == <<tickets, greenTags, runs, artifacts, blobs, defects, andon, history,
          pc, ticket, batch, idx, found, verdict, retry, result, hit, gated>>

InFlightStates == {"DISPATCHED", "IN_EXECUTION", "READY_FOR_OMEGA"}
SettledStates  == {"LOCAL_QC_FAILED", "OMEGA_FAILED", "COMPLETED"}
TicketStates   == {"SPEC_READY"} \union InFlightStates \union SettledStates
RunStatus      == {"running", "completed", "failed"}

Row == [id: ArtifactIDs, hash: Hashes, run: Calls, ticket: Tickets]

\* Steps of Run before, and after, the write that settles the ticket's state.
Unsettled == {"preflight", "preflight_failed", "create_run", "mark_executing",
              "execute", "exec_failed", "mark_ready", "gates", "unique",
              "verdict", "mark_omega_failed", "store_blob", "store_row",
              "mark_completed"}
Closing   == {"close_exec", "close_omega", "andon", "defects",
              "close_completed", "reset"}
Stages    == {"idle", "dispatch", "returned", "crashed"}
                 \union Unsettled \union Closing

NoHistory == [t \in Tickets |-> [k \in Classes |-> 0]]

Init ==
    /\ tickets = [t \in Tickets |-> "NONE"]
    /\ greenTags = {"default", "v16.4"}
    /\ runs = [c \in Calls |-> "none"]
    /\ artifacts = {}
    /\ blobs = {}
    /\ defects = {}
    /\ andon = {}
    /\ history = [p \in Procs |-> NoHistory]
    /\ pc = [c \in Calls |-> "idle"]
    /\ ticket \in [Calls -> Tickets]
    /\ batch = [c \in Calls |-> <<>>]
    /\ idx = [c \in Calls |-> 1]
    /\ found = [c \in Calls |-> <<>>]
    /\ verdict = [c \in Calls |-> "none"]
    /\ retry = [c \in Calls |-> FALSE]
    /\ result = [c \in Calls |-> "none"]
    /\ hit = {}
    /\ gated \in GateSetups

-------------------------------------------------------------------------------
(* Helpers of Run's steps *)

Active == {c \in Calls : pc[c] \notin {"idle", "returned", "crashed"}}

Goto(c, from, to) == pc[c] = from /\ pc' = [pc EXCEPT ![c] = to]

Return(c, r) ==
    /\ pc' = [pc EXCEPT ![c] = "returned"]
    /\ result' = [result EXCEPT ![c] = r]

\* A write that took effect, or one that failed: applied or not, the call cannot tell.
Wrote(c)  == UNCHANGED hit
Failed(c) ==
    /\ Cardinality(hit \union {c}) <= MaxFaulty
    /\ hit' = hit \union {c}

\* TicketRepo.UpdateState whose error Run drops.
SetTicket(c, state) ==
    LET after == [tickets EXCEPT ![ticket[c]] = state]
    IN  \/ tickets' = after /\ Wrote(c)
        \/ tickets' \in {tickets, after} /\ Failed(c)

\* RunRepo.Complete, whose error Run always drops.
CompleteRun(c, status) ==
    LET after == [runs EXCEPT ![c] = status]
    IN  \/ runs' = after /\ Wrote(c)
        \/ runs' \in {runs, after} /\ Failed(c)

RowOf(c, a) == [id |-> a.id, hash |-> a.hash, run |-> c, ticket |-> ticket[c]]

Current(c) == batch[c][idx[c]]

\* How many defects of a report have class k.
Times(k, report) == Cardinality({i \in DOMAIN report : report[i] = k})

\* RetryController.ShouldRetry: count every defect of the report, in order.
Counted(c) ==
    [k \in Classes |-> history[ProcOf[c]][ticket[c]][k] + Times(k, found[c])]

-------------------------------------------------------------------------------
(* Around Run *)

\* An operator registers a green tag (the InfraGate's suggested fix).
RegisterTag ==
    /\ greenTags' = greenTags \union {NoTag}
    /\ UNCHANGED <<tickets, runs, artifacts, blobs, defects, andon, history,
                   pc, fixed, callVars, result, hit>>

\* Submit: the row refers to the green tag "", which must be registered, and
\* ticket_id is unique; otherwise the insert fails and nothing changes.
Submit(t) ==
    /\ NoTag \in greenTags
    /\ tickets[t] = "NONE"
    /\ tickets' = [tickets EXCEPT ![t] = "SPEC_READY"]
    /\ UNCHANGED <<greenTags, runs, artifacts, blobs, defects, andon, history,
                   pc, fixed, callVars, result, hit>>

\* The process dies, and may be started again for the calls not made yet; its
\* engine's retry history dies with it.
Crash(p) ==
    /\ \E c \in Active : ProcOf[c] = p
    /\ pc' = [c \in Calls |->
                IF c \in Active /\ ProcOf[c] = p THEN "crashed" ELSE pc[c]]
    /\ history' = [history EXCEPT ![p] = NoHistory]
    /\ UNCHANGED <<dbVars, andon, fixed, callVars, result, hit>>

-------------------------------------------------------------------------------
(* The steps of Run *)

\* Steps 1 and 2: load the ticket, look its plugin up.
Load(c) ==
    /\ Cardinality(Active) < MaxActive
    /\ tickets[ticket[c]] # "NONE"
    /\ Goto(c, "idle", "dispatch")
    /\ UNCHANGED <<dbVars, andon, history, fixed, callVars, result, hit>>

\* No such ticket, a failed read, or a plugin the registry does not hold.
LoadFails(c) ==
    /\ pc[c] = "idle"
    /\ Return(c, "error")
    /\ UNCHANGED <<dbVars, andon, history, fixed, callVars, hit>>

\* Step 3: the one UpdateState whose error Run returns.
MarkDispatched(c) ==
    /\ pc[c] = "dispatch"
    /\ LET after == [tickets EXCEPT ![ticket[c]] = "DISPATCHED"]
       IN  \/ /\ tickets' = after
              /\ Goto(c, "dispatch", "preflight")
              /\ UNCHANGED <<result, hit>>
           \/ /\ tickets' \in {tickets, after}
              /\ Return(c, "error")
              /\ Failed(c)
    /\ UNCHANGED <<greenTags, runs, artifacts, blobs, defects, andon, history,
                   fixed, callVars>>

\* Step 4: the infra and preflight gates read the environment and fields of the ticket that
\* never change: they may pass or not.
Preflight(c) ==
    /\ \/ Goto(c, "preflight", "create_run")
       \/ Goto(c, "preflight", "preflight_failed")
    /\ UNCHANGED <<dbVars, andon, history, fixed, callVars, result, hit>>

\* Mutant: the preflight branch returns without settling the ticket.
MarkPreflightFailedForgets(c) ==
    /\ pc[c] = "preflight_failed"
    /\ Return(c, "failed")
    /\ UNCHANGED <<dbVars, andon, history, fixed, callVars, hit>>

MarkPreflightFailed(c) ==
    /\ pc[c] = "preflight_failed"
    /\ SetTicket(c, "LOCAL_QC_FAILED")
    /\ Return(c, "failed")
    /\ UNCHANGED <<greenTags, runs, artifacts, blobs, defects, andon, history,
                   fixed, callVars>>

\* Step 5: insert the run row, status running.
CreateRun(c) ==
    /\ pc[c] = "create_run"
    /\ LET after == [runs EXCEPT ![c] = "running"]
       IN  \/ /\ runs' = after
              /\ Goto(c, "create_run", "mark_executing")
              /\ UNCHANGED <<result, hit>>
           \/ /\ runs' \in {runs, after}
              /\ Return(c, "error")
              /\ Failed(c)
    /\ UNCHANGED <<tickets, greenTags, artifacts, blobs, defects, andon,
                   history, fixed, callVars>>

\* A ticket write between two stages of Run.
MarkTicket(c, from, state, to) ==
    /\ Goto(c, from, to)
    /\ SetTicket(c, state)
    /\ UNCHANGED <<greenTags, runs, artifacts, blobs, defects, andon, history,
                   fixed, callVars, result>>

\* Step 6.
MarkInExecution(c) == MarkTicket(c, "mark_executing", "IN_EXECUTION", "execute")

\* Steps 7 and 8: the worker looked up in step 7 is not used.
Execute(c) ==
    /\ \/ /\ Goto(c, "execute", "mark_ready")
          /\ \E b \in Batches : batch' = [batch EXCEPT ![c] = b]
       \/ Goto(c, "execute", "exec_failed") /\ UNCHANGED batch
    /\ UNCHANGED <<dbVars, andon, history, fixed, idx, found, verdict, retry,
                   result, hit>>

MarkExecFailed(c) == MarkTicket(c, "exec_failed", "LOCAL_QC_FAILED", "close_exec")

\* Mutant: the execution-error branch returns without closing the run.
CloseExecFailedForgets(c) ==
    /\ pc[c] = "close_exec"
    /\ Return(c, "failed")
    /\ UNCHANGED <<dbVars, andon, history, fixed, callVars, hit>>

CloseExecFailed(c) ==
    /\ pc[c] = "close_exec"
    /\ CompleteRun(c, "failed")
    /\ Return(c, "failed")
    /\ UNCHANGED <<tickets, greenTags, artifacts, blobs, defects, andon,
                   history, fixed, callVars>>

MarkReadyForOmega(c) == MarkTicket(c, "mark_ready", "READY_FOR_OMEGA", "gates")

-------------------------------------------------------------------------------
(* RunPostExecution: gates in order, stopping at the first that fails *)

\* Artifacts of a batch whose content an earlier one already has.
Repeats(b) == Len(b) - Cardinality({b[i].hash : i \in DOMAIN b})

\* Mutant: the uniqueness gate does not look inside the batch.
RunGatesNoBatch(c) ==
    /\ \/ /\ gated
          /\ Goto(c, "gates", "verdict")
          /\ \E d \in DefectLists : found' = [found EXCEPT ![c] = d]
       \/ gated /\ Goto(c, "gates", "unique") /\ UNCHANGED found
       \/ ~gated /\ Goto(c, "gates", "verdict") /\ UNCHANGED found
    /\ UNCHANGED <<dbVars, andon, history, fixed, batch, idx, verdict, retry,
                   result, hit>>

\* The gates before the uniqueness gate; it starts with duplicates inside the batch.
RunGates(c) ==
    /\ \/ /\ gated
          /\ Goto(c, "gates", "verdict")
          /\ \E d \in DefectLists : found' = [found EXCEPT ![c] = d]
       \/ /\ gated
          /\ Goto(c, "gates", "unique")
          /\ found' = [found EXCEPT ![c] = [i \in 1..Repeats(batch[c]) |-> Duplicate]]
       \/ ~gated /\ Goto(c, "gates", "verdict") /\ UNCHANGED found
    /\ UNCHANGED <<dbVars, andon, history, fixed, batch, idx, verdict, retry,
                   result, hit>>

InCatalog(h) == \E r \in artifacts : r.hash = h

\* Mutant: a unique artifact does not advance the loop.
CheckUniqueStuck(c) ==
    /\ pc[c] = "unique"
    /\ idx[c] <= Len(batch[c])
    /\ InCatalog(Current(c).hash)
    /\ idx' = [idx EXCEPT ![c] = @ + 1]
    /\ found' = [found EXCEPT ![c] = Append(@, Duplicate)]
    /\ UNCHANGED <<dbVars, andon, history, pc, fixed, batch, verdict, retry, result, hit>>

\* UniquenessGate: one ExistsByHash per artifact; a failed query is a defect too.
CheckUnique(c) ==
    /\ pc[c] = "unique"
    /\ idx[c] <= Len(batch[c])
    /\ idx' = [idx EXCEPT ![c] = @ + 1]
    /\ \/ ~InCatalog(Current(c).hash) /\ UNCHANGED found
       \/ found' = [found EXCEPT ![c] = Append(@, Duplicate)]
    /\ UNCHANGED <<dbVars, andon, history, pc, fixed, batch, verdict, retry, result, hit>>

\* The uniqueness gate is over; only if it found nothing does determinism run.
EndUnique(c) ==
    /\ idx[c] > Len(batch[c])
    /\ Goto(c, "unique", "verdict")
    /\ idx' = [idx EXCEPT ![c] = 1]
    /\ \/ UNCHANGED found
       \/ /\ found[c] = <<>>
          /\ \E d \in DefectLists : found' = [found EXCEPT ![c] = d]
    /\ UNCHANGED <<dbVars, andon, history, fixed, batch, verdict, retry, result, hit>>

\* Mutant: the ticket is completed without storing the batch.
PassSkipsStore(c) ==
    /\ found[c] = <<>>
    /\ Goto(c, "verdict", "mark_completed")
    /\ verdict' = [verdict EXCEPT ![c] = "pass"]
    /\ UNCHANGED <<dbVars, andon, history, fixed, batch, idx, found, retry, result, hit>>

\* A pass leads to step 9; a failure is counted by the retry controller.
Pass(c) ==
    /\ found[c] = <<>>
    /\ Goto(c, "verdict", IF batch[c] = <<>> THEN "mark_completed" ELSE "store_blob")
    /\ verdict' = [verdict EXCEPT ![c] = "pass"]
    /\ UNCHANGED <<dbVars, andon, history, fixed, batch, idx, found, retry, result, hit>>

\* Mutant: the defects are counted, and the count is not kept.
FailForgets(c) ==
    /\ found[c] # <<>>
    /\ Goto(c, "verdict", "mark_omega_failed")
    /\ verdict' = [verdict EXCEPT ![c] = "fail"]
    /\ retry' = [retry EXCEPT ![c] = \A i \in DOMAIN found[c] : Counted(c)[found[c][i]] < 2]
    /\ UNCHANGED <<dbVars, andon, history, fixed, batch, idx, found, result, hit>>

Fail(c) ==
    /\ found[c] # <<>>
    /\ Goto(c, "verdict", "mark_omega_failed")
    /\ verdict' = [verdict EXCEPT ![c] = "fail"]
    /\ history' = [history EXCEPT ![ProcOf[c]][ticket[c]] = Counted(c)]
    /\ retry' = [retry EXCEPT ![c] = \A i \in DOMAIN found[c] : Counted(c)[found[c][i]] < 2]
    /\ UNCHANGED <<dbVars, andon, fixed, batch, idx, found, result, hit>>

-------------------------------------------------------------------------------
(* Omega failed *)

\* Mutant: the cord is pulled on a run that is still open.
MarkOmegaFailedEarlyCord(c) == MarkTicket(c, "mark_omega_failed", "OMEGA_FAILED", "andon")

MarkOmegaFailed(c) == MarkTicket(c, "mark_omega_failed", "OMEGA_FAILED", "close_omega")

CloseOmegaFailed(c) ==
    /\ Goto(c, "close_omega", "andon")
    /\ CompleteRun(c, "failed")
    /\ UNCHANGED <<tickets, greenTags, artifacts, blobs, defects, andon,
                   history, fixed, callVars, result>>

\* pullAndonCord: no connection, or a failed publish, is only logged.
PullAndonCord(c) ==
    /\ Goto(c, "andon", "defects")
    /\ andon' \in {andon, andon \union {c}}
    /\ UNCHANGED <<dbVars, history, fixed, callVars, result, hit>>

\* One DefectRepo.Create per defect; its error is dropped.
StoreDefect(c) ==
    /\ pc[c] = "defects"
    /\ idx[c] <= Len(found[c])
    /\ idx' = [idx EXCEPT ![c] = @ + 1]
    /\ LET after == defects \union {[run |-> c, n |-> idx[c]]}
       IN  \/ defects' = after /\ Wrote(c)
           \/ defects' \in {defects, after} /\ Failed(c)
    /\ UNCHANGED <<tickets, greenTags, runs, artifacts, blobs, andon, history,
                   pc, fixed, batch, found, verdict, retry, result>>

ReturnOmegaFailed(c) ==
    /\ pc[c] = "defects"
    /\ idx[c] > Len(found[c])
    /\ Return(c, "failed")
    /\ UNCHANGED <<dbVars, andon, history, fixed, callVars, hit>>

-------------------------------------------------------------------------------
(* Omega passed: step 9, store the artifacts one by one, then step 10 *)

\* Mutant: a failed PutBlob does not stop the insert.
StoreBlobIgnoresError(c) ==
    /\ Goto(c, "store_blob", "store_row")
    /\ LET after == blobs \union {Current(c).hash}
       IN  \/ blobs' = after /\ UNCHANGED hit
           \/ blobs' \in {blobs, after} /\ Failed(c)
    /\ UNCHANGED <<tickets, greenTags, runs, artifacts, defects, andon,
                   history, fixed, callVars, result>>

\* ArtifactRepo.Create puts the blob first ...
StoreBlob(c) ==
    /\ pc[c] = "store_blob"
    /\ LET after == blobs \union {Current(c).hash}
       IN  \/ /\ blobs' = after
              /\ Goto(c, "store_blob", "store_row")
              /\ UNCHANGED <<result, hit>>
           \/ /\ blobs' \in {blobs, after}
              /\ Return(c, "error")
              /\ Failed(c)
    /\ UNCHANGED <<tickets, greenTags, runs, artifacts, defects, andon,
                   history, fixed, callVars>>

\* Mutant: artifact_id is not a key of the table.
IdNeverTaken(id) == FALSE

IdTaken(id) == \E r \in artifacts : r.id = id

\* Mutant: a failed insert does not stop the loop.
StoreRowIgnoresError(c) ==
    /\ pc[c] = "store_row"
    /\ ~IdTaken(Current(c).id)
    /\ LET after == artifacts \union {RowOf(c, Current(c))}
       IN  \/ artifacts' = after /\ UNCHANGED hit
           \/ artifacts' \in {artifacts, after} /\ Failed(c)
    /\ idx' = [idx EXCEPT ![c] = @ + 1]
    /\ Goto(c, "store_row", IF idx[c] = Len(batch[c]) THEN "mark_completed" ELSE "store_blob")
    /\ UNCHANGED <<tickets, greenTags, runs, blobs, defects, andon, history,
                   fixed, batch, found, verdict, retry, result>>

\* ... then inserts the row, artifact_id being unique.
StoreRow(c) ==
    /\ pc[c] = "store_row"
    /\ ~IdTaken(Current(c).id)
    /\ LET after == artifacts \union {RowOf(c, Current(c))}
       IN  \/ /\ artifacts' = after
              /\ idx' = [idx EXCEPT ![c] = @ + 1]
              /\ Goto(c, "store_row", IF idx[c] = Len(batch[c])
                                        THEN "mark_completed" ELSE "store_blob")
              /\ UNCHANGED <<result, hit>>
           \/ /\ artifacts' \in {artifacts, after}
              /\ Return(c, "error")
              /\ Failed(c)
              /\ UNCHANGED idx
    /\ UNCHANGED <<tickets, greenTags, runs, blobs, defects, andon, history,
                   fixed, batch, found, verdict, retry>>

\* The insert breaks the unique constraint: Run returns, the run stays open.
StoreRowRefused(c) ==
    /\ pc[c] = "store_row"
    /\ IdTaken(Current(c).id)
    /\ Return(c, "error")
    /\ UNCHANGED <<dbVars, andon, history, fixed, callVars, hit>>

MarkCompleted(c) == MarkTicket(c, "mark_completed", "COMPLETED", "close_completed")

CloseCompleted(c) ==
    /\ Goto(c, "close_completed", "reset")
    /\ CompleteRun(c, "completed")
    /\ UNCHANGED <<tickets, greenTags, artifacts, blobs, defects, andon,
                   history, fixed, callVars, result>>

\* omega.Reset: a new RetryController, so the history of every ticket goes.
ResetOmega(c) ==
    /\ pc[c] = "reset"
    /\ history' = [history EXCEPT ![ProcOf[c]] = NoHistory]
    /\ Return(c, "success")
    /\ UNCHANGED <<dbVars, andon, fixed, callVars, hit>>

-------------------------------------------------------------------------------

Open(c)    == Load(c) \/ LoadFails(c) \/ MarkDispatched(c) \/ Preflight(c)
                \/ MarkPreflightFailed(c) \/ CreateRun(c) \/ MarkInExecution(c)
                \/ Execute(c) \/ MarkExecFailed(c) \/ CloseExecFailed(c)
                \/ MarkReadyForOmega(c)
Judge(c)   == RunGates(c) \/ CheckUnique(c) \/ EndUnique(c) \/ Pass(c) \/ Fail(c)
Reject(c)  == MarkOmegaFailed(c) \/ CloseOmegaFailed(c) \/ PullAndonCord(c)
                \/ StoreDefect(c) \/ ReturnOmegaFailed(c)
Publish(c) == StoreBlob(c) \/ StoreRow(c) \/ StoreRowRefused(c)
                \/ MarkCompleted(c) \/ CloseCompleted(c) \/ ResetOmega(c)

Run(c) == Open(c) \/ Judge(c) \/ Reject(c) \/ Publish(c)

Next ==
    \/ RegisterTag
    \/ \E t \in Tickets : Submit(t)
    \/ \E p \in Procs : Crash(p)
    \/ \E c \in Calls : Run(c)

Spec == Init /\ [][Next]_vars

\* A call that was made and whose process lives goes on, and its executor
\* returns; nothing obliges anyone to make a call.
Continue(c) == pc[c] # "idle" /\ Run(c)

FairSpec == Spec /\ \A c \in Calls : WF_vars(Continue(c))
================================================================================
