-------------------------- MODULE DispatcherProofs --------------------------
(***************************************************************************)
(* Proofs about the dispatcher, for any number of calls, processes,        *)
(* tickets and artifacts, and for any bounds.                              *)
(***************************************************************************)
EXTENDS DispatcherProps, FiniteSetTheorems, SequenceTheorems, TLAPS

\* The number of defects of one class in a report is a natural number.
LEMMA CountType ==
    ASSUME NEW S, NEW s \in Seq(S), NEW k
    PROVE  Times(k, s) \in Nat
<1>1. DOMAIN s = 1..Len(s) /\ Len(s) \in Nat
  BY LenProperties
<1>2. IsFiniteSet(1..Len(s))
  BY <1>1, FS_Interval
<1>3. IsFiniteSet({i \in DOMAIN s : s[i] = k})
  BY <1>1, <1>2, FS_Subset
<1> QED BY <1>3, FS_CardinalityType DEF Times

\* A batch has at most as many contents as artifacts, so the number of repeats
\* the in-batch check of the uniqueness gate reports is a natural number.
LEMMA RepeatsType ==
    ASSUME NEW s \in Seq(Artifact)
    PROVE  Repeats(s) \in Nat
<1> DEFINE H == {s[j].hash : j \in DOMAIN s}
           f == [j \in 1..Len(s) |-> s[j].hash]
<1>1. DOMAIN s = 1..Len(s) /\ Len(s) \in Nat
  BY LenProperties
<1>2. IsFiniteSet(1..Len(s)) /\ Cardinality(1..Len(s)) = Len(s)
  BY <1>1, FS_Interval
<1>3. f \in Surjection(1..Len(s), H)
  BY <1>1 DEF Surjection
<1>4. IsFiniteSet(H) /\ Cardinality(H) <= Cardinality(1..Len(s))
  <2> HIDE DEF H, f
  <2> QED BY <1>2, <1>3, FS_Surjection
<1>5. Cardinality(H) \in Nat
  BY <1>4, FS_CardinalityType
<1> HIDE DEF H
<1>6. Len(s) - Cardinality(H) \in Nat
  BY <1>1, <1>2, <1>4, <1>5
<1> QED BY <1>6 DEF H, Repeats

\* The report of that check is a sequence of defect classes.
LEMMA ConstantSeqType ==
    ASSUME NEW n \in Nat, NEW S, NEW e \in S
    PROVE  [i \in 1..n |-> e] \in Seq(S)
  OBVIOUS
-------------------------------------------------------------------------------
(* Type correctness *)

LEMMA TypeInit == Init => TypeOK
<1> SUFFICES ASSUME Init PROVE TypeOK
  OBVIOUS
<1>1. \A c \in Calls : <<>> \in Seq(Artifact) /\ <<>> \in Seq(Classes)
  BY EmptySeq
<1> QED
  BY <1>1, BoundsAssumption
     DEF Init, TypeOK, Stages, NoHistory, NoTag, fixed

\* What surrounds Run keeps the types.
LEMMA TypeAround ==
    ASSUME TypeOK,
           RegisterTag \/ (\E t \in Tickets : Submit(t)) \/ (\E p \in Procs : Crash(p))
    PROVE  TypeOK'
<1> USE DEF TypeOK, dbVars, fixed, callVars
<1>1. CASE RegisterTag
  BY <1>1 DEF RegisterTag
<1>2. ASSUME NEW t \in Tickets, Submit(t) PROVE TypeOK'
  BY <1>2 DEF Submit, TicketStates
<1>3. ASSUME NEW p \in Procs, Crash(p) PROVE TypeOK'
  <2>1. pc' \in [Calls -> Stages] /\ NoHistory \in [Tickets -> [Classes -> Nat]]
    BY <1>3 DEF Crash, Stages, NoHistory
  <2> QED BY <1>3, <2>1 DEF Crash
<1> QED BY <1>1, <1>2, <1>3

LEMMA TypeOpen ==
    ASSUME TypeOK, NEW c \in Calls, Open(c)
    PROVE  TypeOK'
<1> USE DEF TypeOK, dbVars, fixed, callVars, Goto, Return, Failed, Wrote
<1> USE DEF Stages, Unsettled, TicketStates, InFlightStates, SettledStates
<1>1. CASE Load(c)
  BY <1>1 DEF Load
<1>2. CASE LoadFails(c)
  BY <1>2 DEF LoadFails
<1>3. CASE MarkDispatched(c)
  BY <1>3 DEF MarkDispatched
<1>4. CASE Preflight(c)
  BY <1>4 DEF Preflight
<1>5. CASE MarkPreflightFailed(c)
  BY <1>5 DEF MarkPreflightFailed, SetTicket
<1>6. CASE CreateRun(c)
  BY <1>6 DEF CreateRun, RunStatus
<1>7. CASE MarkInExecution(c)
  BY <1>7 DEF MarkInExecution, MarkTicket, SetTicket
<1>8. CASE Execute(c)
  BY <1>8, BatchesAssumption DEF Execute
<1>9. CASE MarkExecFailed(c)
  BY <1>9 DEF MarkExecFailed, MarkTicket, SetTicket, Closing
<1>10. CASE CloseExecFailed(c)
  BY <1>10 DEF CloseExecFailed, CompleteRun, RunStatus
<1>11. CASE MarkReadyForOmega(c)
  BY <1>11 DEF MarkReadyForOmega, MarkTicket, SetTicket
<1> QED
  BY <1>1, <1>2, <1>3, <1>4, <1>5, <1>6, <1>7, <1>8, <1>9, <1>10, <1>11 DEF Open

LEMMA TypeJudge ==
    ASSUME TypeOK, NEW c \in Calls, Judge(c)
    PROVE  TypeOK'
<1> USE DEF TypeOK, dbVars, fixed, callVars, Goto, Failed
<1> USE DEF Stages, Unsettled
<1>1. CASE RunGates(c)
  <2>1. [i \in 1..Repeats(batch[c]) |-> Duplicate] \in Seq(Classes)
    <3>1. Repeats(batch[c]) \in Nat
      BY RepeatsType
    <3> QED BY <3>1, ConstantSeqType, ClassesAssumption
  <2>2. DefectLists \subseteq Seq(Classes)
    BY ClassesAssumption
  <2> QED BY <1>1, <2>1, <2>2 DEF RunGates
<1>2. CASE CheckUnique(c)
  <2>1. Append(found[c], Duplicate) \in Seq(Classes)
    BY ClassesAssumption
  <2>2. idx[c] + 1 \in Nat \ {0}
    OBVIOUS
  <2> HIDE DEF Stages
  <2>3. idx' \in [Calls -> Nat \ {0}]
    BY <1>2, <2>2 DEF CheckUnique
  <2>4. found' \in [Calls -> Seq(Classes)]
    BY <1>2, <2>1 DEF CheckUnique
  <2> QED BY <1>2, <2>3, <2>4 DEF CheckUnique
<1>3. CASE EndUnique(c)
  <2>1. idx' \in [Calls -> Nat \ {0}]
    BY <1>3 DEF EndUnique
  <2>2. found' \in [Calls -> Seq(Classes)]
    BY <1>3, ClassesAssumption DEF EndUnique
  <2> QED BY <1>3, <2>1, <2>2 DEF EndUnique
<1>4. CASE Pass(c)
  BY <1>4 DEF Pass
<1>5. CASE Fail(c)
  <2>1. \A k \in Classes : Times(k, found[c]) \in Nat
    BY CountType
  <2>2. Counted(c) \in [Classes -> Nat]
    BY <2>1, CallsAssumption DEF Counted
  <2> HIDE DEF Stages
  <2>3. history' \in [Procs -> [Tickets -> [Classes -> Nat]]]
    BY <1>5, <2>2, CallsAssumption DEF Fail
  <2>4. retry' \in [Calls -> BOOLEAN]
    BY <1>5 DEF Fail
  <2>5. pc' \in [Calls -> Stages] /\ verdict' \in [Calls -> {"none", "pass", "fail"}]
    BY <1>5 DEF Fail, Stages
  <2> QED BY <1>5, <2>3, <2>4, <2>5 DEF Fail
<1> QED
  BY <1>1, <1>2, <1>3, <1>4, <1>5 DEF Judge

LEMMA TypeReject ==
    ASSUME TypeOK, NEW c \in Calls, Reject(c)
    PROVE  TypeOK'
<1> USE DEF TypeOK, dbVars, fixed, callVars, Goto, Return, Failed, Wrote
<1> USE DEF Stages, Closing, TicketStates, SettledStates, RunStatus
<1>1. CASE MarkOmegaFailed(c)
  BY <1>1 DEF MarkOmegaFailed, MarkTicket, SetTicket
<1>2. CASE CloseOmegaFailed(c)
  BY <1>2 DEF CloseOmegaFailed, CompleteRun
<1>3. CASE PullAndonCord(c)
  BY <1>3 DEF PullAndonCord
<1>4. CASE StoreDefect(c)
  BY <1>4 DEF StoreDefect
<1>5. CASE ReturnOmegaFailed(c)
  BY <1>5 DEF ReturnOmegaFailed
<1> QED
  BY <1>1, <1>2, <1>3, <1>4, <1>5 DEF Reject

LEMMA TypePublish ==
    ASSUME TypeOK, NEW c \in Calls, StoreInv(c), Publish(c)
    PROVE  TypeOK'
<1> USE DEF TypeOK, dbVars, fixed, callVars, Goto, Return, Failed, Wrote
<1> USE DEF Stages, Unsettled, Closing, TicketStates, SettledStates, RunStatus
<1>1. ASSUME pc[c] \in {"store_blob", "store_row"}
      PROVE  Current(c) \in Artifact
  <2>1. idx[c] \in 1..Len(batch[c])
    BY <1>1, LenProperties DEF StoreInv, Storing
  <2> QED BY <2>1, ElementOfSeq DEF Current
<1>2. CASE StoreBlob(c)
  BY <1>1, <1>2 DEF StoreBlob, Artifact
<1>3. CASE StoreRow(c)
  <2>1. RowOf(c, Current(c)) \in Row
    BY <1>1, <1>3 DEF StoreRow, RowOf, Row, Artifact
  <2>2. idx[c] + 1 \in Nat \ {0}
    OBVIOUS
  <2> HIDE DEF Stages
  <2>3. idx' \in [Calls -> Nat \ {0}]
    BY <1>3, <2>2 DEF StoreRow
  <2>4. \E s \in {"mark_completed", "store_blob", "returned"} : pc' = [pc EXCEPT ![c] = s]
    BY <1>3 DEF StoreRow
  <2>5. pc' \in [Calls -> Stages]
    BY <2>4 DEF Stages
  <2> QED BY <1>3, <2>1, <2>3, <2>5 DEF StoreRow
<1>4. CASE StoreRowRefused(c)
  BY <1>4 DEF StoreRowRefused
<1>5. CASE MarkCompleted(c)
  BY <1>5 DEF MarkCompleted, MarkTicket, SetTicket
<1>6. CASE CloseCompleted(c)
  BY <1>6 DEF CloseCompleted, CompleteRun
<1>7. CASE ResetOmega(c)
  BY <1>7 DEF ResetOmega, NoHistory
<1> QED
  BY <1>2, <1>3, <1>4, <1>5, <1>6, <1>7 DEF Publish
-------------------------------------------------------------------------------
(* What a step of one call leaves alone *)

\* The tables of content only grow, and a call keeps its ticket.
Grows ==
    /\ artifacts \subseteq artifacts'
    /\ blobs \subseteq blobs'
    /\ hit \subseteq hit'
    /\ ticket' = ticket

\* Everything of call d but what the shared tables hold.
Same(d) ==
    /\ pc'[d] = pc[d]
    /\ runs'[d] = runs[d]
    /\ batch'[d] = batch[d]
    /\ idx'[d] = idx[d]
    /\ found'[d] = found[d]
    /\ verdict'[d] = verdict[d]
    /\ result'[d] = result[d]

\* A step of call c touches its own run, ticket and variables only.
LEMMA Frame ==
    ASSUME TypeOK, NEW c \in Calls, Run(c)
    PROVE  /\ Grows
           /\ \A d \in Calls \ {c} : Same(d)
           /\ \A t \in Tickets \ {ticket[c]} : tickets'[t] = tickets[t]
<1> USE DEF TypeOK, dbVars, fixed, callVars, Goto, Return, Failed, Wrote, Grows, Same
<1>1. CASE Load(c) \/ LoadFails(c) \/ Preflight(c) \/ Execute(c)
  BY <1>1 DEF Load, LoadFails, Preflight, Execute
<1>2. CASE MarkDispatched(c) \/ CreateRun(c)
  BY <1>2 DEF MarkDispatched, CreateRun
<1>3. CASE \/ MarkPreflightFailed(c) \/ MarkInExecution(c) \/ MarkExecFailed(c)
           \/ MarkReadyForOmega(c) \/ MarkOmegaFailed(c) \/ MarkCompleted(c)
  BY <1>3 DEF MarkPreflightFailed, MarkInExecution, MarkExecFailed, MarkReadyForOmega,
              MarkOmegaFailed, MarkCompleted, MarkTicket, SetTicket
<1>4. CASE CloseExecFailed(c) \/ CloseOmegaFailed(c) \/ CloseCompleted(c)
  BY <1>4 DEF CloseExecFailed, CloseOmegaFailed, CloseCompleted, CompleteRun
<1>5. CASE RunGates(c) \/ CheckUnique(c) \/ EndUnique(c)
  BY <1>5 DEF RunGates, CheckUnique, EndUnique
<1>6. CASE Pass(c) \/ Fail(c)
  BY <1>6 DEF Pass, Fail
<1>7. CASE PullAndonCord(c) \/ StoreDefect(c) \/ ReturnOmegaFailed(c) \/ ResetOmega(c)
  BY <1>7 DEF PullAndonCord, StoreDefect, ReturnOmegaFailed, ResetOmega
<1>8. CASE StoreBlob(c)
  BY <1>8 DEF StoreBlob
<1>9. CASE StoreRow(c) \/ StoreRowRefused(c)
  BY <1>9 DEF StoreRow, StoreRowRefused
<1> QED
  BY <1>1, <1>2, <1>3, <1>4, <1>5, <1>6, <1>7, <1>8, <1>9
     DEF Run, Open, Judge, Reject, Publish

\* What is stored stays stored, also for the other calls.
LEMMA StoredStays ==
    ASSUME Grows, NEW d \in Calls, batch'[d] = batch[d], AllStored(d)
    PROVE  AllStored(d)'
  BY DEF Grows, AllStored, Stored, RowOf

\* The stage invariants of the calls that do not step.
LEMMA OthersKeep ==
    ASSUME TypeOK, NEW c \in Calls, Run(c), NEW d \in Calls \ {c},
           StageInv(d), StoreInv(d), CloseInv(d)
    PROVE  StageInv(d)' /\ StoreInv(d)' /\ CloseInv(d)'
<1>1. Grows /\ Same(d)
  BY Frame
<1>2. StageInv(d)'
  BY <1>1 DEF Same, StageInv
<1>3. StoreInv(d)'
  BY <1>1, StoredStays DEF Same, Grows, StoreInv, Stored, RowOf, Current
<1>4. CloseInv(d)'
  BY <1>1 DEF Same, Grows, CloseInv
<1> QED BY <1>2, <1>3, <1>4
-------------------------------------------------------------------------------
(* The stage invariants of the call that steps *)

\* The run row, the verdict and the loop index follow the stage.
LEMMA StageStep ==
    ASSUME TypeOK, NEW c \in Calls, StageInv(c), Run(c)
    PROVE  StageInv(c)'
<1> USE DEF TypeOK, dbVars, fixed, callVars, Goto, Return
<1> USE DEF StageInv, NoRunYet, RunOpen, PreVerdict, Rejecting, Storing, AfterStore
<1>1. CASE Load(c)
  BY <1>1 DEF Load
<1>2. CASE LoadFails(c)
  BY <1>2 DEF LoadFails
<1>3. CASE MarkDispatched(c)
  BY <1>3 DEF MarkDispatched
<1>4. CASE Preflight(c)
  BY <1>4 DEF Preflight
<1>5. CASE MarkPreflightFailed(c)
  BY <1>5 DEF MarkPreflightFailed
<1>6. CASE CreateRun(c)
  BY <1>6 DEF CreateRun
<1>7. CASE MarkInExecution(c)
  BY <1>7 DEF MarkInExecution, MarkTicket
<1>8. CASE Execute(c)
  BY <1>8 DEF Execute
<1>9. CASE MarkExecFailed(c)
  BY <1>9 DEF MarkExecFailed, MarkTicket
<1>10. CASE CloseExecFailed(c)
  BY <1>10 DEF CloseExecFailed, CompleteRun
<1>11. CASE MarkReadyForOmega(c)
  BY <1>11 DEF MarkReadyForOmega, MarkTicket
<1>12. CASE RunGates(c)
  BY <1>12 DEF RunGates
<1>13. CASE CheckUnique(c)
  BY <1>13 DEF CheckUnique
<1>14. CASE EndUnique(c)
  BY <1>14 DEF EndUnique
<1>15. CASE Pass(c)
  BY <1>15 DEF Pass
<1>16. CASE Fail(c)
  BY <1>16 DEF Fail
<1>17. CASE MarkOmegaFailed(c)
  BY <1>17 DEF MarkOmegaFailed, MarkTicket
<1>18. CASE CloseOmegaFailed(c)
  BY <1>18 DEF CloseOmegaFailed, CompleteRun
<1>19. CASE PullAndonCord(c)
  BY <1>19 DEF PullAndonCord
<1>20. CASE StoreDefect(c)
  BY <1>20 DEF StoreDefect
<1>21. CASE ReturnOmegaFailed(c)
  BY <1>21 DEF ReturnOmegaFailed
<1>22. CASE StoreBlob(c)
  BY <1>22 DEF StoreBlob
<1>23. CASE StoreRow(c)
  <2>1. /\ \E s \in {"mark_completed", "store_blob", "returned"} : pc'[c] = s
        /\ UNCHANGED <<runs, verdict>>
    BY <1>23 DEF StoreRow
  <2> QED BY <1>23, <2>1 DEF StoreRow
<1>24. CASE StoreRowRefused(c)
  BY <1>24 DEF StoreRowRefused
<1>25. CASE MarkCompleted(c)
  BY <1>25 DEF MarkCompleted, MarkTicket
<1>26. CASE CloseCompleted(c)
  BY <1>26 DEF CloseCompleted, CompleteRun
<1>27. CASE ResetOmega(c)
  BY <1>27 DEF ResetOmega
<1> QED
  BY <1>1, <1>2, <1>3, <1>4, <1>5, <1>6, <1>7, <1>8, <1>9, <1>10, <1>11, <1>12, <1>13,
     <1>14, <1>15, <1>16, <1>17, <1>18, <1>19, <1>20, <1>21, <1>22, <1>23, <1>24, <1>25,
     <1>26, <1>27
     DEF Run, Open, Judge, Reject, Publish

\* The loop of step 9 stores the batch from its first artifact to its last.
LEMMA StoreStep ==
    ASSUME TypeOK, NEW c \in Calls, StageInv(c), StoreInv(c), Run(c)
    PROVE  StoreInv(c)'
<1> USE DEF TypeOK, dbVars, fixed, callVars, Goto, Return
<1>1. Grows
  BY Frame
<1>2. CASE \/ Load(c) \/ LoadFails(c) \/ MarkDispatched(c) \/ Preflight(c)
           \/ MarkPreflightFailed(c) \/ CreateRun(c) \/ Execute(c)
  \* The run is not completed and nothing is being stored, before and after.
  <2>1. pc'[c] \notin Storing \union AfterStore /\ runs'[c] # "completed"
    BY <1>2 DEF Load, LoadFails, MarkDispatched, Preflight, MarkPreflightFailed,
                CreateRun, Execute, StageInv, NoRunYet, RunOpen, Storing, AfterStore
  <2> QED BY <2>1 DEF StoreInv, Storing
<1>3. CASE \/ MarkInExecution(c) \/ MarkExecFailed(c) \/ MarkReadyForOmega(c)
           \/ MarkOmegaFailed(c) \/ CloseExecFailed(c)
  <2>1. pc'[c] \notin Storing \union AfterStore /\ runs'[c] # "completed"
    BY <1>3 DEF MarkInExecution, MarkExecFailed, MarkReadyForOmega, MarkOmegaFailed,
                MarkTicket, CloseExecFailed, CompleteRun,
                StageInv, RunOpen, Storing, AfterStore
  <2> QED BY <2>1 DEF StoreInv, Storing
<1>4. CASE RunGates(c) \/ CheckUnique(c) \/ EndUnique(c) \/ Fail(c) \/ CloseOmegaFailed(c)
  <2>1. pc'[c] \notin Storing \union AfterStore /\ runs'[c] # "completed"
    BY <1>4 DEF RunGates, CheckUnique, EndUnique, Fail, CloseOmegaFailed, CompleteRun,
                StageInv, RunOpen, Storing, AfterStore
  <2> QED BY <2>1 DEF StoreInv, Storing
<1>5. CASE PullAndonCord(c) \/ StoreDefect(c) \/ ReturnOmegaFailed(c) \/ StoreRowRefused(c)
  <2>1. /\ pc'[c] \notin Storing \union AfterStore
        /\ UNCHANGED <<runs, verdict, batch>>
    BY <1>5 DEF PullAndonCord, StoreDefect, ReturnOmegaFailed, StoreRowRefused,
                Storing, AfterStore
  <2> QED BY <1>1, <2>1, StoredStays DEF StoreInv, Storing
<1>6. CASE Pass(c)
  <2>1. /\ verdict'[c] = "pass" /\ runs'[c] = "running" /\ idx'[c] = 1
        /\ batch'[c] = batch[c]
        /\ pc'[c] = IF batch[c] = <<>> THEN "mark_completed" ELSE "store_blob"
    BY <1>6 DEF Pass, StageInv, RunOpen, PreVerdict
  <2>2. CASE batch[c] = <<>>
    <3>1. AllStored(c)'
      BY <2>1, <2>2 DEF AllStored
    <3> QED BY <2>1, <2>2, <3>1 DEF StoreInv, Storing, AfterStore
  <2>3. CASE batch[c] # <<>>
    <3>1. Len(batch[c]) \in Nat \ {0}
      BY <2>3, EmptySeq
    <3> QED BY <2>1, <2>3, <3>1 DEF StoreInv, Storing, AfterStore
  <2> QED BY <2>2, <2>3
<1>7. CASE StoreBlob(c)
  <2>1. /\ pc[c] \in Storing /\ pc'[c] \in {"store_row", "returned"}
        /\ UNCHANGED <<runs, verdict, batch, idx>>
        /\ pc'[c] = "store_row" => Current(c).hash \in blobs'
    BY <1>7 DEF StoreBlob, Storing
  <2> QED BY <1>1, <2>1, StoredStays
          DEF StoreInv, Storing, AfterStore, Grows, Stored, RowOf, Current
<1>8. CASE StoreRow(c)
  <2>1. /\ pc[c] = "store_row" /\ pc[c] \in Storing
        /\ UNCHANGED <<runs, verdict, batch, blobs, ticket>>
    BY <1>8 DEF StoreRow, Storing
  <2>2. /\ verdict[c] = "pass" /\ runs[c] = "running"
    BY <2>1 DEF StageInv, Storing, RunOpen
  <2>3. CASE pc'[c] = "returned"
    BY <2>2, <2>1, <2>3 DEF StoreInv, Storing, AfterStore
  <2>4. CASE pc'[c] # "returned"
    <3>1. /\ artifacts' = artifacts \union {RowOf(c, Current(c))}
          /\ idx'[c] = idx[c] + 1
          /\ pc'[c] = IF idx[c] = Len(batch[c]) THEN "mark_completed" ELSE "store_blob"
      BY <1>8, <2>4 DEF StoreRow
    <3>2. /\ idx[c] \in Nat /\ Len(batch[c]) \in Nat /\ idx[c] <= Len(batch[c])
          /\ DOMAIN batch[c] = 1..Len(batch[c])
      BY <2>1, LenProperties DEF StoreInv
    <3>3. \A i \in 1..idx[c] : Stored(c, batch[c][i])'
      <4>1. \A i \in 1..(idx[c] - 1) : Stored(c, batch[c][i])
        BY <2>1 DEF StoreInv
      <4>2. RowOf(c, batch[c][idx[c]]) \in artifacts' /\ batch[c][idx[c]].hash \in blobs'
        BY <2>1, <3>1 DEF StoreInv, Current
      <4>3. ASSUME NEW i \in 1..idx[c] PROVE Stored(c, batch[c][i])'
        <5>1. CASE i = idx[c]
          BY <2>1, <4>2, <5>1 DEF Stored, RowOf
        <5>2. CASE i # idx[c]
          <6>1. i \in 1..(idx[c] - 1)
            BY <3>2, <5>2
          <6> QED BY <2>1, <3>1, <4>1, <6>1 DEF Stored, RowOf
        <5> QED BY <5>1, <5>2
      <4> QED BY <4>3
    <3>4. CASE idx[c] = Len(batch[c])
      BY <2>1, <2>2, <3>1, <3>2, <3>3, <3>4 DEF StoreInv, Storing, AfterStore, AllStored
    <3>5. CASE idx[c] # Len(batch[c])
      <4> HIDE DEF TypeOK
      <4>1. idx[c] + 1 <= Len(batch[c]) /\ (idx[c] + 1) - 1 = idx[c]
        BY <3>2, <3>5
      <4> QED BY <2>1, <2>2, <3>1, <3>2, <3>3, <3>5, <4>1 DEF StoreInv, Storing, AfterStore
    <3> QED BY <3>4, <3>5
  <2> QED BY <2>3, <2>4
<1>9. CASE MarkCompleted(c) \/ CloseCompleted(c) \/ ResetOmega(c)
  <2>1. /\ pc[c] \in AfterStore /\ pc'[c] \notin Storing
        /\ UNCHANGED <<verdict, batch>>
    BY <1>9 DEF MarkCompleted, MarkTicket, CloseCompleted, ResetOmega, Storing, AfterStore
  <2> QED BY <1>1, <2>1, StoredStays DEF StoreInv, Storing
<1> QED
  BY <1>2, <1>3, <1>4, <1>5, <1>6, <1>7, <1>8, <1>9 DEF Run, Open, Judge, Reject, Publish

\* The closing writes take effect, unless the call meets a failure.
LEMMA CloseStep ==
    ASSUME TypeOK, NEW c \in Calls, StageInv(c), CloseInv(c), Run(c)
    PROVE  CloseInv(c)'
<1> USE DEF TypeOK, dbVars, fixed, callVars, Goto, Return, Failed, Wrote, CloseInv
<1>1. CASE Load(c) \/ LoadFails(c) \/ MarkDispatched(c) \/ Preflight(c) \/ CreateRun(c)
  BY <1>1 DEF Load, LoadFails, MarkDispatched, Preflight, CreateRun
<1>2. CASE MarkPreflightFailed(c)
  BY <1>2 DEF MarkPreflightFailed, StageInv, NoRunYet
<1>3. CASE \/ MarkInExecution(c) \/ MarkExecFailed(c) \/ MarkReadyForOmega(c)
           \/ MarkOmegaFailed(c) \/ MarkCompleted(c)
  BY <1>3 DEF MarkInExecution, MarkExecFailed, MarkReadyForOmega, MarkOmegaFailed,
              MarkCompleted, MarkTicket
<1>4. CASE Execute(c) \/ RunGates(c) \/ CheckUnique(c) \/ EndUnique(c)
  BY <1>4 DEF Execute, RunGates, CheckUnique, EndUnique
<1>5. CASE Pass(c) \/ Fail(c)
  BY <1>5 DEF Pass, Fail
<1>6. CASE CloseExecFailed(c) \/ CloseOmegaFailed(c) \/ CloseCompleted(c)
  BY <1>6 DEF CloseExecFailed, CloseOmegaFailed, CloseCompleted, CompleteRun
<1>7. CASE PullAndonCord(c) \/ StoreDefect(c) \/ ReturnOmegaFailed(c) \/ ResetOmega(c)
  BY <1>7 DEF PullAndonCord, StoreDefect, ReturnOmegaFailed, ResetOmega
<1>8. CASE StoreBlob(c) \/ StoreRow(c) \/ StoreRowRefused(c)
  BY <1>8 DEF StoreBlob, StoreRow, StoreRowRefused
<1> QED
  BY <1>1, <1>2, <1>3, <1>4, <1>5, <1>6, <1>7, <1>8 DEF Run, Open, Judge, Reject, Publish
-------------------------------------------------------------------------------
(* The tables *)

\* Only the insert of step 9 adds to the catalog, and it adds one row.
LEMMA CatalogStep ==
    ASSUME TypeOK, NEW c \in Calls, Run(c)
    PROVE  \/ artifacts' = artifacts
           \/ /\ pc[c] = "store_row"
              /\ blobs' = blobs
              /\ artifacts' = artifacts \union {RowOf(c, Current(c))}
<1> USE DEF dbVars, Goto
<1>1. CASE StoreRow(c)
  BY <1>1 DEF StoreRow
<1>2. CASE ~StoreRow(c)
  <2>1. Open(c) => artifacts' = artifacts
    BY DEF Open, Load, LoadFails, MarkDispatched, Preflight, MarkPreflightFailed, CreateRun,
           MarkInExecution, Execute, MarkExecFailed, CloseExecFailed, MarkReadyForOmega,
           MarkTicket
  <2>2. Judge(c) => artifacts' = artifacts
    BY DEF Judge, RunGates, CheckUnique, EndUnique, Pass, Fail
  <2>3. Reject(c) => artifacts' = artifacts
    BY DEF Reject, MarkOmegaFailed, CloseOmegaFailed, PullAndonCord, StoreDefect,
           ReturnOmegaFailed, MarkTicket
  <2>4. Publish(c) => artifacts' = artifacts
    BY <1>2 DEF Publish, StoreBlob, StoreRowRefused, MarkCompleted, CloseCompleted,
                ResetOmega, MarkTicket
  <2> QED BY <2>1, <2>2, <2>3, <2>4 DEF Run
<1> QED BY <1>1, <1>2

\* A verdict, and the status of a closed run, are final.
LEMMA FinalStays ==
    ASSUME TypeOK, NEW c \in Calls, StageInv(c), Run(c)
    PROVE  /\ verdict[c] # "none" => verdict'[c] = verdict[c]
           /\ runs[c] \in {"completed", "failed"} => runs'[c] = runs[c]
<1> USE DEF TypeOK, dbVars, callVars, Goto, StageInv, NoRunYet, RunOpen, PreVerdict
<1>1. CASE Pass(c) \/ Fail(c)
  BY <1>1 DEF Pass, Fail
<1>2. CASE CreateRun(c)
  BY <1>2 DEF CreateRun
<1>3. CASE CloseExecFailed(c) \/ CloseOmegaFailed(c) \/ CloseCompleted(c)
  BY <1>3 DEF CloseExecFailed, CloseOmegaFailed, CloseCompleted
<1>4. CASE \/ Load(c) \/ LoadFails(c) \/ MarkDispatched(c) \/ Preflight(c)
           \/ MarkPreflightFailed(c) \/ MarkInExecution(c) \/ Execute(c)
           \/ MarkExecFailed(c) \/ MarkReadyForOmega(c) \/ MarkOmegaFailed(c)
           \/ MarkCompleted(c)
  BY <1>4 DEF Load, LoadFails, MarkDispatched, Preflight, MarkPreflightFailed,
              MarkInExecution, Execute, MarkExecFailed, MarkReadyForOmega,
              MarkOmegaFailed, MarkCompleted, MarkTicket
<1>5. CASE \/ RunGates(c) \/ CheckUnique(c) \/ EndUnique(c) \/ PullAndonCord(c)
           \/ StoreDefect(c) \/ ReturnOmegaFailed(c) \/ StoreBlob(c) \/ StoreRow(c)
           \/ StoreRowRefused(c) \/ ResetOmega(c)
  BY <1>5 DEF RunGates, CheckUnique, EndUnique, PullAndonCord, StoreDefect,
              ReturnOmegaFailed, StoreBlob, StoreRow, StoreRowRefused, ResetOmega
<1> QED
  BY <1>1, <1>2, <1>3, <1>4, <1>5 DEF Run, Open, Judge, Reject, Publish

\* Only the rejecting branch signals, and only about its own call.
LEMMA SignalStep ==
    ASSUME TypeOK, NEW c \in Calls, Run(c)
    PROVE  \/ andon' = andon /\ defects' = defects
           \/ /\ pc[c] \in {"andon", "defects"}
              /\ runs' = runs /\ verdict' = verdict
              /\ andon' \subseteq andon \union {c}
              /\ defects' \subseteq defects \union [run: {c}, n: Nat]
<1> USE DEF dbVars, callVars, Goto
<1>1. CASE PullAndonCord(c)
  BY <1>1 DEF PullAndonCord
<1>2. CASE StoreDefect(c)
  BY <1>2 DEF StoreDefect, TypeOK
<1>3. CASE ~PullAndonCord(c) /\ ~StoreDefect(c)
  <2>1. Open(c) => andon' = andon /\ defects' = defects
    BY DEF Open, Load, LoadFails, MarkDispatched, Preflight, MarkPreflightFailed, CreateRun,
           MarkInExecution, Execute, MarkExecFailed, CloseExecFailed, MarkReadyForOmega,
           MarkTicket
  <2>2. Judge(c) => andon' = andon /\ defects' = defects
    BY DEF Judge, RunGates, CheckUnique, EndUnique, Pass, Fail
  <2>3. Reject(c) => andon' = andon /\ defects' = defects
    BY <1>3 DEF Reject, MarkOmegaFailed, CloseOmegaFailed, ReturnOmegaFailed, MarkTicket
  <2>4. Publish(c) => andon' = andon /\ defects' = defects
    BY DEF Publish, StoreBlob, StoreRow, StoreRowRefused, MarkCompleted, CloseCompleted,
           ResetOmega, MarkTicket
  <2> QED BY <2>1, <2>2, <2>3, <2>4 DEF Run
<1> QED BY <1>1, <1>2, <1>3

\* The row goes in by StoreRow.
LEMMA OnlyStoreRow ==
    ASSUME NEW c \in Calls, Run(c), pc[c] = "store_row", artifacts' # artifacts
    PROVE  StoreRow(c)
  BY DEF Run, Open, Load, LoadFails, MarkDispatched, Preflight, MarkPreflightFailed, CreateRun,
         MarkInExecution, Execute, MarkExecFailed, CloseExecFailed, MarkReadyForOmega,
         MarkTicket, Judge, RunGates, CheckUnique, EndUnique, Pass, Fail, Reject,
         MarkOmegaFailed, CloseOmegaFailed, PullAndonCord, StoreDefect, ReturnOmegaFailed,
         Publish, StoreBlob, StoreRowRefused, MarkCompleted, CloseCompleted, ResetOmega,
         dbVars, Goto

\* A row is inserted after its blob.
LEMMA RowHasBlobStep ==
    ASSUME TypeOK, NEW c \in Calls, StoreInv(c), RowHasBlob, Run(c)
    PROVE  RowHasBlob'
<1>1. Grows
  BY Frame
<1>2. CASE artifacts' = artifacts
  BY <1>1, <1>2 DEF RowHasBlob, Grows
<1>3. CASE /\ pc[c] = "store_row"
           /\ blobs' = blobs
           /\ artifacts' = artifacts \union {RowOf(c, Current(c))}
  BY <1>3 DEF RowHasBlob, StoreInv, RowOf
<1> QED BY <1>2, <1>3, CatalogStep

\* Only a call that passed Omega inserts rows, and a verdict once given stays.
LEMMA RowsPassedStep ==
    ASSUME TypeOK, NEW c \in Calls, StageInv(c), RowsPassed, Run(c)
    PROVE  RowsPassed'
<1>1. \A d \in Calls \ {c} : verdict'[d] = verdict[d]
  BY Frame DEF Same
<1>2. verdict[c] = "pass" => verdict'[c] = "pass"
  BY FinalStays
<1>3. \A r \in artifacts : r.run \in Calls
  BY DEF TypeOK, Row
<1>4. CASE artifacts' = artifacts
  BY <1>1, <1>2, <1>3, <1>4 DEF RowsPassed
<1>5. CASE pc[c] = "store_row" /\ artifacts' = artifacts \union {RowOf(c, Current(c))}
  <2>1. verdict[c] = "pass"
    BY <1>5 DEF StageInv, Storing
  <2> QED BY <1>1, <1>2, <1>3, <1>5, <2>1 DEF RowsPassed, RowOf
<1> QED BY <1>4, <1>5, CatalogStep

\* The cord and the defects come after the run is closed as failed.
LEMMA SignalsStep ==
    ASSUME TypeOK, NEW c \in Calls, StageInv(c), CloseInv(c), SignalsFollowTheRecord, Run(c)
    PROVE  SignalsFollowTheRecord'
<1> DEFINE Settled(d) == verdict[d] = "fail" /\ (runs[d] = "failed" \/ d \in hit)
<1>1. andon \subseteq Calls /\ \A e \in defects : e.run \in Calls
  BY DEF TypeOK
<1>2. /\ \A d \in andon : Settled(d)
      /\ \A e \in defects : Settled(e.run)
  BY DEF SignalsFollowTheRecord
<1>3. \A d \in Calls : Settled(d) => Settled(d)'
  <2>1. Settled(c) => Settled(c)'
    BY Frame, FinalStays DEF Grows
  <2>2. \A d \in Calls \ {c} : Settled(d) => Settled(d)'
    BY Frame DEF Grows, Same
  <2> QED BY <2>1, <2>2
<1>4. CASE andon' = andon /\ defects' = defects
  <2> HIDE DEF Settled
  <2>1. /\ \A d \in andon' : Settled(d)'
        /\ \A e \in defects' : Settled(e.run)'
    BY <1>1, <1>2, <1>3, <1>4
  <2> QED BY <2>1 DEF SignalsFollowTheRecord, Settled
<1>5. CASE /\ pc[c] \in {"andon", "defects"}
           /\ runs' = runs /\ verdict' = verdict
           /\ andon' \subseteq andon \union {c}
           /\ defects' \subseteq defects \union [run: {c}, n: Nat]
  <2>1. Settled(c)'
    <3>1. Settled(c)
      BY <1>5 DEF StageInv, CloseInv, Rejecting
    <3> HIDE DEF Settled
    <3> QED BY <1>3, <3>1
  <2> HIDE DEF Settled
  <2>2. /\ \A d \in andon' : Settled(d)'
        /\ \A e \in defects' : Settled(e.run)'
    BY <1>1, <1>2, <1>3, <1>5, <2>1
  <2> QED BY <2>2 DEF SignalsFollowTheRecord, Settled
<1> QED BY <1>4, <1>5, SignalStep

\* Only MarkCompleted completes a ticket.
LEMMA TicketStep ==
    ASSUME TypeOK, NEW c \in Calls, Run(c), ~MarkCompleted(c),
           tickets'[ticket[c]] = "COMPLETED"
    PROVE  tickets[ticket[c]] = "COMPLETED"
<1> USE DEF dbVars, SetTicket, TypeOK
<1>1. CASE Open(c)
  BY <1>1 DEF Open, Load, LoadFails, MarkDispatched, Preflight, MarkPreflightFailed, CreateRun,
              MarkInExecution, Execute, MarkExecFailed, CloseExecFailed, MarkReadyForOmega,
              MarkTicket
<1>2. CASE Judge(c)
  BY <1>2 DEF Judge, RunGates, CheckUnique, EndUnique, Pass, Fail
<1>3. CASE Reject(c)
  BY <1>3 DEF Reject, MarkOmegaFailed, CloseOmegaFailed, PullAndonCord, StoreDefect,
              ReturnOmegaFailed, MarkTicket
<1>4. CASE Publish(c)
  BY <1>4 DEF Publish, StoreBlob, StoreRow, StoreRowRefused, CloseCompleted, ResetOmega
<1> QED BY <1>1, <1>2, <1>3, <1>4 DEF Run

\* The batch of a call changes before its verdict only.
LEMMA BatchStays ==
    ASSUME TypeOK, NEW c \in Calls, StageInv(c), Run(c), verdict[c] # "none"
    PROVE  batch'[c] = batch[c]
<1> USE DEF callVars, Goto
<1>1. CASE Execute(c)
  BY <1>1 DEF Execute, StageInv, PreVerdict
<1>2. CASE ~Execute(c)
  <2>1. Open(c) => batch' = batch
    BY <1>2 DEF Open, Load, LoadFails, MarkDispatched, Preflight, MarkPreflightFailed,
                CreateRun, MarkInExecution, MarkExecFailed, CloseExecFailed,
                MarkReadyForOmega, MarkTicket
  <2>2. Judge(c) => batch' = batch
    BY DEF Judge, RunGates, CheckUnique, EndUnique, Pass, Fail
  <2>3. Reject(c) => batch' = batch
    BY DEF Reject, MarkOmegaFailed, CloseOmegaFailed, PullAndonCord, StoreDefect,
           ReturnOmegaFailed, MarkTicket
  <2>4. Publish(c) => batch' = batch
    BY DEF Publish, StoreBlob, StoreRow, StoreRowRefused, MarkCompleted, CloseCompleted,
           ResetOmega, MarkTicket
  <2> QED BY <2>1, <2>2, <2>3, <2>4 DEF Run
<1> QED BY <1>1, <1>2

\* A step leaves its call owing the settling write, or settles the ticket, or neither
\* touches the ticket nor owed anything.
LEMMA OwnStep ==
    ASSUME TypeOK, NEW c \in Calls, CloseInv(c), Run(c)
    PROVE  \/ Owes(c)'
           \/ tickets'[ticket[c]] \notin InFlightStates
           \/ tickets' = tickets /\ ~Owes(c)
<1> USE DEF TypeOK, dbVars, fixed, callVars, Goto, Return, Failed, Wrote, Owes, Unsettled
<1>1. CASE Load(c) \/ LoadFails(c) \/ Preflight(c) \/ Execute(c)
  BY <1>1 DEF Load, LoadFails, Preflight, Execute
<1>2. CASE MarkDispatched(c) \/ CreateRun(c)
  BY <1>2 DEF MarkDispatched, CreateRun
<1>3. CASE \/ MarkPreflightFailed(c) \/ MarkExecFailed(c) \/ MarkOmegaFailed(c)
           \/ MarkCompleted(c)
  BY <1>3 DEF MarkPreflightFailed, MarkExecFailed, MarkOmegaFailed, MarkCompleted,
              MarkTicket, SetTicket, InFlightStates
<1>4. CASE MarkInExecution(c) \/ MarkReadyForOmega(c)
  BY <1>4 DEF MarkInExecution, MarkReadyForOmega, MarkTicket
<1>5. CASE RunGates(c) \/ CheckUnique(c) \/ EndUnique(c) \/ Pass(c) \/ Fail(c)
  BY <1>5 DEF RunGates, CheckUnique, EndUnique, Pass, Fail
<1>6. CASE CloseExecFailed(c) \/ CloseOmegaFailed(c) \/ CloseCompleted(c)
  BY <1>6 DEF CloseExecFailed, CloseOmegaFailed, CloseCompleted, CompleteRun, CloseInv
<1>7. CASE PullAndonCord(c) \/ StoreDefect(c) \/ ReturnOmegaFailed(c) \/ ResetOmega(c)
  BY <1>7 DEF PullAndonCord, StoreDefect, ReturnOmegaFailed, ResetOmega, CloseInv
<1>8. CASE StoreBlob(c) \/ StoreRow(c) \/ StoreRowRefused(c)
  BY <1>8 DEF StoreBlob, StoreRow, StoreRowRefused
<1> QED
  BY <1>1, <1>2, <1>3, <1>4, <1>5, <1>6, <1>7, <1>8 DEF Run, Open, Judge, Reject, Publish

\* A ticket is completed by a call that stored its batch, and stays witnessed by it.
LEMMA WitnessStep ==
    ASSUME TypeOK, NEW c \in Calls, StageInv(c), StoreInv(c),
           \A d \in Calls : StageInv(d), CompletedTicketHasWitness, Run(c)
    PROVE  CompletedTicketHasWitness'
<1> DEFINE Witness(d) == verdict[d] = "pass" /\ AllStored(d)
<1>1. Grows /\ ticket \in [Calls -> Tickets]
  BY Frame DEF TypeOK
<1>2. ASSUME NEW d \in Calls, Witness(d) PROVE Witness(d)'
  <2>1. verdict'[d] = verdict[d] /\ batch'[d] = batch[d]
    <3>1. CASE d = c
      BY <1>2, <3>1, FinalStays, BatchStays
    <3>2. CASE d # c
      BY <3>2, Frame DEF Same
    <3> QED BY <3>1, <3>2
  <2> QED BY <1>1, <1>2, <2>1, StoredStays
<1>3. ASSUME NEW t \in Tickets, tickets'[t] = "COMPLETED", tickets[t] # "COMPLETED"
      PROVE  ticket[c] = t /\ Witness(c)
  <2>1. ticket[c] = t
    BY <1>3, Frame
  <2>2. MarkCompleted(c)
    BY <1>3, <2>1, TicketStep
  <2> QED BY <2>1, <2>2 DEF MarkCompleted, MarkTicket, Goto, StoreInv, AfterStore
<1>4. ASSUME NEW t \in Tickets, tickets'[t] = "COMPLETED"
      PROVE  \E d \in Calls : ticket[d] = t /\ Witness(d)
  BY <1>3, <1>4 DEF CompletedTicketHasWitness
<1> HIDE DEF Witness
<1>5. \A t \in Tickets : tickets'[t] = "COMPLETED" =>
          \E d \in Calls : ticket'[d] = t /\ Witness(d)'
  BY <1>1, <1>2, <1>4 DEF Grows
<1> QED BY <1>5 DEF CompletedTicketHasWitness, Witness

\* A ticket left in flight is still owed by the call that steps, or was before.
LEMMA OwnerStep ==
    ASSUME TypeOK, NEW c \in Calls, CloseInv(c), InFlightHasOwner, Run(c)
    PROVE  InFlightHasOwner'
<1>1. Grows
  BY Frame
<1>2. \A d \in Calls \ {c} : Owes(d) => Owes(d)'
  BY <1>1, Frame DEF Same, Grows, Owes
<1>3. \/ Owes(c)'
      \/ tickets'[ticket[c]] \notin InFlightStates
      \/ tickets' = tickets /\ ~Owes(c)
  BY OwnStep
<1>4. ASSUME NEW t \in Tickets, tickets'[t] \in InFlightStates
      PROVE  \E d \in Calls : ticket[d] = t /\ Owes(d)'
  <2>1. CASE t = ticket[c]
    <3>1. CASE Owes(c)'
      BY <2>1, <3>1
    <3>2. CASE tickets' = tickets /\ ~Owes(c)
      <4>1. PICK d \in Calls : ticket[d] = t /\ Owes(d)
        BY <1>4, <3>2 DEF InFlightHasOwner
      <4> QED BY <1>2, <3>2, <4>1
    <3> QED BY <1>3, <1>4, <2>1, <3>1, <3>2
  <2>2. CASE t # ticket[c]
    <3>1. PICK d \in Calls : ticket[d] = t /\ Owes(d)
      BY <1>4, <2>2, Frame DEF InFlightHasOwner
    <3> QED BY <1>2, <2>2, <3>1
  <2> QED BY <2>1, <2>2
<1> QED BY <1>1, <1>4 DEF InFlightHasOwner, Grows
-------------------------------------------------------------------------------
(* The inductive invariant *)

LEMMA IInvInit == Init => IInv
<1> SUFFICES ASSUME Init PROVE IInv
  OBVIOUS
<1> USE DEF Init
<1>1. TypeOK
  BY TypeInit
<1>2. ASSUME NEW c \in Calls PROVE StageInv(c) /\ StoreInv(c) /\ CloseInv(c)
  BY DEF StageInv, StoreInv, CloseInv, RunOpen, Rejecting, Storing, AfterStore
<1>3. RowHasBlob /\ RowsPassed /\ SignalsFollowTheRecord
  BY DEF RowHasBlob, RowsPassed, SignalsFollowTheRecord
<1>4. CompletedTicketHasWitness /\ InFlightHasOwner
  BY DEF CompletedTicketHasWitness, InFlightHasOwner, InFlightStates
<1> QED BY <1>1, <1>2, <1>3, <1>4 DEF IInv

\* Registering a tag, submitting a ticket and a crash touch no run and no artifact.
LEMMA IInvAround ==
    ASSUME IInv,
           RegisterTag \/ (\E t \in Tickets : Submit(t)) \/ (\E p \in Procs : Crash(p))
    PROVE  IInv'
<1> USE DEF dbVars, fixed, callVars
<1>1. TypeOK'
  BY TypeAround DEF IInv
<1>2. UNCHANGED <<runs, artifacts, blobs, defects, andon, ticket, batch, idx, found,
                  verdict, result, hit>>
  BY DEF RegisterTag, Submit, Crash
<1>3. \A c \in Calls : pc'[c] = pc[c] \/ (pc'[c] = "crashed" /\ pc[c] # "returned")
  BY DEF RegisterTag, Submit, Crash, Active
<1>4. ASSUME NEW c \in Calls PROVE StageInv(c)' /\ StoreInv(c)' /\ CloseInv(c)'
  <2>1. StageInv(c)'
    BY <1>2, <1>3
       DEF IInv, StageInv, NoRunYet, RunOpen, PreVerdict, Rejecting, Storing, AfterStore
  <2>2. StoreInv(c)'
    BY <1>2, <1>3
       DEF IInv, StoreInv, Storing, AfterStore, Stored, AllStored, RowOf, Current
  <2>3. CloseInv(c)'
    BY <1>2, <1>3 DEF IInv, CloseInv
  <2> QED BY <2>1, <2>2, <2>3
<1>5. RowHasBlob' /\ RowsPassed' /\ SignalsFollowTheRecord'
  BY <1>2 DEF IInv, RowHasBlob, RowsPassed, SignalsFollowTheRecord
<1>6. \A t \in Tickets : tickets'[t] = tickets[t] \/ tickets'[t] = "SPEC_READY"
  BY DEF RegisterTag, Submit, Crash, IInv, TypeOK
<1>7. CompletedTicketHasWitness'
  BY <1>2, <1>6 DEF IInv, CompletedTicketHasWitness, AllStored, Stored, RowOf
<1>8. InFlightHasOwner'
  <2>1. \A c \in Calls : Owes(c) => Owes(c)'
    BY <1>2, <1>3 DEF Owes
  <2> QED BY <1>2, <1>6, <2>1 DEF IInv, InFlightHasOwner, InFlightStates
<1> QED BY <1>1, <1>4, <1>5, <1>7, <1>8 DEF IInv

LEMMA TypeRun ==
    ASSUME TypeOK, NEW c \in Calls, StoreInv(c), Run(c)
    PROVE  TypeOK'
  BY TypeOpen, TypeJudge, TypeReject, TypePublish DEF Run

LEMMA IInvRun ==
    ASSUME IInv, NEW c \in Calls, Run(c)
    PROVE  IInv'
<1>1. TypeOK /\ \A d \in Calls : StageInv(d) /\ StoreInv(d) /\ CloseInv(d)
  BY DEF IInv
<1>2. TypeOK'
  BY <1>1, TypeRun
<1>3. ASSUME NEW d \in Calls PROVE StageInv(d)' /\ StoreInv(d)' /\ CloseInv(d)'
  <2>1. CASE d = c
    BY <1>1, <2>1, StageStep, StoreStep, CloseStep
  <2>2. CASE d # c
    BY <1>1, <2>2, OthersKeep
  <2> QED BY <2>1, <2>2
<1>4. RowHasBlob'
  BY <1>1, RowHasBlobStep DEF IInv
<1>5. RowsPassed'
  BY <1>1, RowsPassedStep DEF IInv
<1>6. SignalsFollowTheRecord'
  BY <1>1, SignalsStep DEF IInv
<1>7. CompletedTicketHasWitness'
  BY <1>1, WitnessStep DEF IInv
<1>8. InFlightHasOwner'
  BY <1>1, OwnerStep DEF IInv
<1> QED BY <1>2, <1>3, <1>4, <1>5, <1>6, <1>7, <1>8 DEF IInv

LEMMA IInvStutter ==
    ASSUME IInv, UNCHANGED vars
    PROVE  IInv'
<1> USE DEF vars
<1>1. TypeOK'
  BY DEF IInv, TypeOK
<1>2. ASSUME NEW c \in Calls PROVE StageInv(c)' /\ StoreInv(c)' /\ CloseInv(c)'
  BY DEF IInv, StageInv, StoreInv, CloseInv, Stored, AllStored, RowOf, Current
<1>3. RowHasBlob' /\ RowsPassed' /\ SignalsFollowTheRecord'
  BY DEF IInv, RowHasBlob, RowsPassed, SignalsFollowTheRecord
<1>4. CompletedTicketHasWitness' /\ InFlightHasOwner'
  BY DEF IInv, CompletedTicketHasWitness, InFlightHasOwner, AllStored, Stored, RowOf, Owes
<1> QED BY <1>1, <1>2, <1>3, <1>4 DEF IInv

\* Everything the stages of Run promise holds in every reachable state.
THEOREM Inductive == Spec => []IInv
<1>1. IInv /\ [Next]_vars => IInv'
  BY IInvAround, IInvRun, IInvStutter DEF Next
<1> QED BY IInvInit, <1>1, PTL DEF Spec

-------------------------------------------------------------------------------
(* What a reader of the tables may rely on *)

\* Every variable keeps its type, the artifact Run stores being one of its batch.
THEOREM TypeCorrect == Spec => []TypeOK
<1>1. IInv => TypeOK
  BY DEF IInv
<1> QED BY <1>1, Inductive, PTL

\* A catalog row never lacks its blob (ArtifactRepo.Create).
THEOREM RowsHaveBlobs == Spec => []RowHasBlob
<1>1. IInv => RowHasBlob
  BY DEF IInv
<1> QED BY <1>1, Inductive, PTL

\* A completed run has its whole batch in the catalog and the blob store (step 9 of Run).
THEOREM CompletedRunsAreStored == Spec => []CompletedRunIsStored
<1>1. IInv => CompletedRunIsStored
  BY DEF IInv, StoreInv, CompletedRunIsStored
<1> QED BY <1>1, Inductive, PTL

\* A COMPLETED ticket has a call that passed Omega and stored its batch, however many
\* calls of Run race on the ticket.
THEOREM CompletedTicketsHaveWitnesses == Spec => []CompletedTicketHasWitness
<1>1. IInv => CompletedTicketHasWitness
  BY DEF IInv
<1> QED BY <1>1, Inductive, PTL

\* Halt signals and defects follow the closing of their run (Run, Omega failed).
THEOREM SignalsFollow == Spec => []SignalsFollowTheRecord
<1>1. IInv => SignalsFollowTheRecord
  BY DEF IInv
<1> QED BY <1>1, Inductive, PTL

\* What Run returned agrees with the run row, absent failed writes.
THEOREM ResultsMatchRuns == Spec => []ResultMatchesRun
<1>1. IInv => ResultMatchesRun
  BY DEF IInv, CloseInv, ResultMatchesRun
<1> QED BY <1>1, Inductive, PTL

\* A ticket in flight has a call that owes it the settling write, or one that failed it.
THEOREM InFlightTicketsAreOwned == Spec => []InFlightHasOwner
<1>1. IInv => InFlightHasOwner
  BY DEF IInv
<1> QED BY <1>1, Inductive, PTL
-------------------------------------------------------------------------------
(* The tables implement RunLedger *)

\* What a step of Run does to the runs table.
LEMMA RunsStep ==
    ASSUME TypeOK, NEW c \in Calls, StageInv(c), Run(c)
    PROVE  \/ runs' = runs
           \/ runs[c] = "none" /\ runs' = [runs EXCEPT ![c] = "running"]
           \/ /\ runs[c] = "running"
              /\ \/ verdict[c] # "pass" /\ runs' = [runs EXCEPT ![c] = "failed"]
                 \/ runs' = [runs EXCEPT ![c] = "completed"]
              /\ artifacts' = artifacts
<1> USE DEF dbVars, Goto, StageInv, NoRunYet, RunOpen, PreVerdict, Rejecting
<1>1. CASE CreateRun(c)
  BY <1>1 DEF CreateRun
<1>2. CASE CloseExecFailed(c) \/ CloseOmegaFailed(c) \/ CloseCompleted(c)
  BY <1>2 DEF CloseExecFailed, CloseOmegaFailed, CloseCompleted, CompleteRun
<1>3. CASE ~CreateRun(c) /\ ~CloseExecFailed(c) /\ ~CloseOmegaFailed(c) /\ ~CloseCompleted(c)
  <2>1. Open(c) => runs' = runs
    BY <1>3 DEF Open, Load, LoadFails, MarkDispatched, Preflight, MarkPreflightFailed,
                MarkInExecution, Execute, MarkExecFailed, MarkReadyForOmega, MarkTicket
  <2>2. Judge(c) => runs' = runs
    BY DEF Judge, RunGates, CheckUnique, EndUnique, Pass, Fail
  <2>3. Reject(c) => runs' = runs
    BY <1>3 DEF Reject, MarkOmegaFailed, PullAndonCord, StoreDefect, ReturnOmegaFailed,
                MarkTicket
  <2>4. Publish(c) => runs' = runs
    BY <1>3 DEF Publish, StoreBlob, StoreRow, StoreRowRefused, MarkCompleted, ResetOmega,
                MarkTicket
  <2> QED BY <2>1, <2>2, <2>3, <2>4 DEF Run
<1> QED BY <1>1, <1>2, <1>3

\* Insertion of a row whose artifact_id is new: Add of RunLedger.
LEMMA AddStep ==
    ASSUME IInv, NEW c \in Calls, Run(c), artifacts' # artifacts
    PROVE  Ledger!Next
<1> DEFINE a == Current(c)
           e == [id |-> a.id, run |-> c, content |-> a.hash]
<1>1. TypeOK /\ StageInv(c) /\ StoreInv(c)
  BY DEF IInv
<1>2. pc[c] = "store_row" /\ artifacts' = artifacts \union {RowOf(c, a)}
  BY <1>1, CatalogStep
<1>3. StoreRow(c)
  BY <1>1, <1>2, OnlyStoreRow
<1>4. runs' = runs /\ ~IdTaken(a.id)
  BY <1>3 DEF StoreRow
<1>5. runs[c] = "running"
  BY <1>1, <1>2 DEF StageInv, RunOpen
<1>6. a \in Artifact
  <2>1. idx[c] \in 1..Len(batch[c]) /\ batch[c] \in Seq(Artifact)
    BY <1>1, <1>2, LenProperties DEF StoreInv, Storing, TypeOK
  <2> QED BY <2>1, ElementOfSeq DEF Current
<1> HIDE DEF a
<1>7. e \in Ledger!Entry
  BY <1>6 DEF Ledger!Entry, Artifact
<1>8. ~Ledger!Used(e.id)
  BY <1>4 DEF Ledger!Used, Catalog, IdTaken
<1>9. Catalog' = Catalog \union {e}
  BY <1>2 DEF Catalog, RowOf
<1>10. Ledger!Add(e)
  BY <1>4, <1>5, <1>8, <1>9 DEF Ledger!Add
<1> QED BY <1>7, <1>10 DEF Ledger!Next

LEMMA LedgerStep ==
    ASSUME IInv, [Next]_vars
    PROVE  [Ledger!Next]_<<runs, Catalog>>
<1>1. CASE \/ UNCHANGED vars
           \/ RegisterTag \/ (\E t \in Tickets : Submit(t)) \/ (\E p \in Procs : Crash(p))
  <2>1. UNCHANGED <<runs, artifacts>>
    BY <1>1 DEF vars, dbVars, RegisterTag, Submit, Crash
  <2> QED BY <2>1 DEF Catalog
<1>2. ASSUME NEW c \in Calls, Run(c) PROVE [Ledger!Next]_<<runs, Catalog>>
  <2>1. TypeOK /\ StageInv(c) /\ RowsPassed
    BY DEF IInv
  <2>2. CASE artifacts' # artifacts
    BY <1>2, <2>2, AddStep
  <2>3. CASE artifacts' = artifacts
    <3>1. Catalog' = Catalog
      BY <2>3 DEF Catalog
    <3>2. CASE runs[c] = "none" /\ runs' = [runs EXCEPT ![c] = "running"]
      BY <3>1, <3>2 DEF Ledger!Next, Ledger!OpenRun
    <3>3. CASE runs[c] = "running" /\ runs' = [runs EXCEPT ![c] = "completed"]
      BY <3>1, <3>3 DEF Ledger!Next, Ledger!Complete
    <3>4. CASE /\ runs[c] = "running" /\ verdict[c] # "pass"
               /\ runs' = [runs EXCEPT ![c] = "failed"]
      <4>1. Ledger!Of(c) = {}
        BY <2>1, <3>4 DEF Ledger!Of, Catalog, RowsPassed
      <4> QED BY <3>1, <3>4, <4>1 DEF Ledger!Next, Ledger!Abandon
    <3> QED BY <1>2, <2>1, <3>1, <3>2, <3>3, <3>4, RunsStep
  <2> QED BY <2>2, <2>3
<1> QED BY <1>1, <1>2 DEF Next

\* The runs and artifacts tables keep every promise of RunLedger, whatever calls of Run
\* interleave, fail or die.
THEOREM Refinement == Spec => LedgerSpec
<1>1. Init => Ledger!Init
  BY DEF Init, Ledger!Init, Catalog
<1>2. IInv /\ [Next]_vars => [Ledger!Next]_<<runs, Catalog>>
  BY LedgerStep
<1> QED BY <1>1, <1>2, Inductive, PTL DEF Spec, LedgerSpec, Ledger!Spec
-------------------------------------------------------------------------------
(* Unique contents, for calls in turn and engines that have the default gates *)

Distinct(b) == \A i, j \in DOMAIN b : b[i].hash = b[j].hash => i = j

\* From place n on, the batch of c has nothing that the catalog has.
NewFrom(c, n) == \A i \in DOMAIN batch[c] : i >= n => ~InCatalog(batch[c][i].hash)

\* What the uniqueness gate has found out so far, and what is left of it while storing.
GateInv(c) ==
    /\ pc[c] = "unique" /\ found[c] = <<>> =>
          /\ Distinct(batch[c])
          /\ \A i \in DOMAIN batch[c] : i < idx[c] => ~InCatalog(batch[c][i].hash)
    /\ pc[c] = "verdict" /\ found[c] = <<>> => Distinct(batch[c]) /\ NewFrom(c, 1)
    /\ pc[c] \in Storing => Distinct(batch[c]) /\ NewFrom(c, idx[c])

TurnInv ==
    /\ gated
    /\ \A c, d \in Active : c = d
    /\ \A c \in Calls : GateInv(c)
    /\ UniqueCatalog

\* The check inside the batch finds nothing only if no content repeats.
LEMMA NoRepeats ==
    ASSUME NEW b \in Seq(Artifact), Repeats(b) = 0
    PROVE  Distinct(b)
<1> DEFINE H == {b[j].hash : j \in DOMAIN b}
           f == [j \in 1..Len(b) |-> b[j].hash]
<1>1. DOMAIN b = 1..Len(b) /\ Len(b) \in Nat
  BY LenProperties
<1>2. IsFiniteSet(1..Len(b)) /\ Cardinality(1..Len(b)) = Len(b)
  BY <1>1, FS_Interval
<1>3. f \in Surjection(1..Len(b), H)
  BY <1>1 DEF Surjection
<1>4. IsFiniteSet(H) /\ (Cardinality(H) = Cardinality(1..Len(b)) => f \in Injection(1..Len(b), H))
  <2> HIDE DEF H, f
  <2> QED BY <1>2, <1>3, FS_Surjection
<1>5. Cardinality(H) \in Nat
  BY <1>4, FS_CardinalityType
<1>6. Len(b) - Cardinality(H) = 0
  BY DEF Repeats
<1>7. f \in Injection(1..Len(b), H)
  <2> HIDE DEF H, f
  <2> QED BY <1>1, <1>2, <1>4, <1>5, <1>6
<1>8. \A i, j \in 1..Len(b) : f[i] = f[j] => i = j
  <2> HIDE DEF H, f
  <2> QED BY <1>7 DEF Injection, IsInjective
<1>9. \A i \in 1..Len(b) : f[i] = b[i].hash
  OBVIOUS
<1> HIDE DEF H, f
<1> QED BY <1>1, <1>8, <1>9 DEF Distinct

\* An empty report of that check.
LEMMA EmptyReport ==
    ASSUME NEW n \in Nat, NEW e, [i \in 1..n |-> e] = <<>>
    PROVE  n = 0
<1>1. DOMAIN [i \in 1..n |-> e] = 1..n /\ DOMAIN <<>> = 1..0
  OBVIOUS
<1> QED BY <1>1

\* The gate's own steps, and the verdict.
LEMMA GateJudge ==
    ASSUME TypeOK, gated, NEW c \in Calls, StageInv(c), GateInv(c), Judge(c)
    PROVE  GateInv(c)'
<1> USE DEF TypeOK, dbVars, fixed, callVars, Goto, InCatalog, Storing
<1>0. DOMAIN batch[c] = 1..Len(batch[c]) /\ Len(batch[c]) \in Nat
  BY LenProperties
<1>1. CASE RunGates(c)
  <2>1. idx[c] = 1 /\ idx' = idx /\ batch' = batch /\ artifacts' = artifacts
    BY <1>1 DEF RunGates, StageInv, PreVerdict, NoRunYet
  <2>2. CASE pc'[c] = "verdict"
    <3>1. found'[c] # <<>>
      BY <1>1, <2>2, ClassesAssumption DEF RunGates
    <3> QED BY <2>2, <3>1 DEF GateInv
  <2>3. CASE pc'[c] = "unique"
    <3>1. found'[c] = [i \in 1..Repeats(batch[c]) |-> Duplicate]
      BY <1>1, <2>3 DEF RunGates
    <3>2. Repeats(batch[c]) \in Nat
      BY RepeatsType
    <3>3. found'[c] = <<>> => Distinct(batch[c])
      BY <3>1, <3>2, EmptyReport, NoRepeats
    <3> QED BY <1>0, <2>1, <2>3, <3>3 DEF GateInv, Distinct
  <2> QED BY <1>1, <2>2, <2>3 DEF RunGates
<1>2. CASE CheckUnique(c)
  <2>1. /\ pc' = pc /\ pc[c] = "unique" /\ batch' = batch /\ artifacts' = artifacts
        /\ idx[c] \in DOMAIN batch[c] /\ idx'[c] = idx[c] + 1
    BY <1>0, <1>2 DEF CheckUnique
  <2>2. CASE ~InCatalog(Current(c).hash) /\ UNCHANGED found
    <3>1. CASE found[c] # <<>>
      BY <2>1, <2>2, <3>1 DEF GateInv
    <3>2. CASE found[c] = <<>>
      <4>1. /\ Distinct(batch[c])
            /\ \A i \in DOMAIN batch[c] : i < idx[c] => ~InCatalog(batch[c][i].hash)
        BY <2>1, <3>2 DEF GateInv
      <4>2. ASSUME NEW i \in DOMAIN batch[c], i < idx[c] + 1
            PROVE  ~InCatalog(batch[c][i].hash)
        <5>1. i < idx[c] \/ i = idx[c]
          BY <1>0, <4>2
        <5> QED BY <2>2, <4>1, <5>1 DEF Current
      <4> QED BY <2>1, <4>1, <4>2 DEF GateInv, Distinct
    <3> QED BY <3>1, <3>2
  <2>3. CASE found' = [found EXCEPT ![c] = Append(@, Duplicate)]
    <3>1. found'[c] # <<>>
      BY <2>3, ClassesAssumption, AppendProperties
    <3> QED BY <2>1, <3>1 DEF GateInv
  <2> QED BY <1>2, <2>2, <2>3 DEF CheckUnique
<1>3. CASE EndUnique(c)
  <2>1. /\ pc[c] = "unique" /\ pc'[c] = "verdict" /\ batch' = batch /\ artifacts' = artifacts
        /\ idx[c] > Len(batch[c])
    BY <1>3 DEF EndUnique
  <2>2. found'[c] = <<>> => found[c] = <<>>
    BY <1>3 DEF EndUnique
  <2>3. CASE found'[c] = <<>>
    <3>1. /\ Distinct(batch[c])
          /\ \A i \in DOMAIN batch[c] : i < idx[c] => ~InCatalog(batch[c][i].hash)
      BY <2>1, <2>2, <2>3 DEF GateInv
    <3>2. \A i \in DOMAIN batch[c] : i < idx[c]
      BY <1>0, <2>1
    <3> QED BY <2>1, <3>1, <3>2 DEF GateInv, Distinct, NewFrom
  <2> QED BY <2>1, <2>3 DEF GateInv
<1>4. CASE Pass(c)
  <2>1. /\ pc[c] = "verdict" /\ found[c] = <<>> /\ pc'[c] \in {"mark_completed", "store_blob"}
        /\ batch' = batch /\ artifacts' = artifacts /\ idx' = idx /\ idx[c] = 1
    BY <1>4 DEF Pass, StageInv, PreVerdict
  <2> QED BY <2>1 DEF GateInv, Distinct, NewFrom
<1>5. CASE Fail(c)
  BY <1>5 DEF Fail, GateInv
<1> QED BY <1>1, <1>2, <1>3, <1>4, <1>5 DEF Judge

\* Storing: what has been inserted has gone from what is new.
LEMMA GatePublish ==
    ASSUME TypeOK, NEW c \in Calls, StoreInv(c), GateInv(c), UniqueCatalog, Publish(c)
    PROVE  GateInv(c)' /\ UniqueCatalog'
<1> USE DEF TypeOK, dbVars, fixed, callVars, Goto, Return, InCatalog, Storing
<1>0. DOMAIN batch[c] = 1..Len(batch[c]) /\ Len(batch[c]) \in Nat
  BY LenProperties
<1>1. CASE StoreBlob(c)
  BY <1>1 DEF StoreBlob, GateInv, Distinct, NewFrom, UniqueCatalog
<1>2. CASE StoreRow(c)
  <2>1. /\ pc[c] = "store_row" /\ batch' = batch
        /\ artifacts' \in {artifacts, artifacts \union {RowOf(c, Current(c))}}
    BY <1>2 DEF StoreRow
  <2>2. idx[c] \in DOMAIN batch[c]
    BY <1>0, <2>1 DEF StoreInv
  <2>3. ~InCatalog(Current(c).hash) /\ RowOf(c, Current(c)).hash = Current(c).hash
    <3>1. NewFrom(c, idx[c])
      BY <2>1 DEF GateInv
    <3>2. idx[c] >= idx[c]
      OBVIOUS
    <3>3. ~InCatalog(batch[c][idx[c]].hash)
      BY <2>2, <3>1, <3>2 DEF NewFrom
    <3> QED BY <3>3 DEF Current, RowOf
  <2>4. UniqueCatalog'
    BY <2>1, <2>3 DEF UniqueCatalog
  <2>5. CASE pc'[c] = "returned"
    BY <2>4, <2>5 DEF GateInv
  <2>6. CASE pc'[c] # "returned"
    <3>1. idx'[c] = idx[c] + 1 /\ pc'[c] \in {"mark_completed", "store_blob"}
      BY <1>2, <2>6 DEF StoreRow
    <3>2. ASSUME NEW i \in DOMAIN batch[c], i >= idx[c] + 1 PROVE ~InCatalog(batch[c][i].hash)'
      <4>1. ~InCatalog(batch[c][i].hash)
        BY <1>0, <2>1, <2>2, <3>2 DEF GateInv, NewFrom
      <4>2. batch[c][i].hash # Current(c).hash
        <5>1. Distinct(batch[c]) /\ i # idx[c]
          BY <1>0, <2>1, <3>2 DEF GateInv
        <5> QED BY <2>2, <5>1 DEF Distinct, Current
      <4> QED BY <2>1, <2>3, <4>1, <4>2
    <3> QED BY <2>1, <2>4, <3>1, <3>2 DEF GateInv, Distinct, NewFrom
  <2> QED BY <2>4, <2>5, <2>6
<1>3. CASE StoreRowRefused(c) \/ MarkCompleted(c) \/ CloseCompleted(c) \/ ResetOmega(c)
  BY <1>3 DEF StoreRowRefused, MarkCompleted, CloseCompleted, ResetOmega, MarkTicket, GateInv, UniqueCatalog
<1> QED BY <1>1, <1>2, <1>3 DEF Publish
\* Outside judging and storing a call enters no stage that GateInv speaks of.
LEMMA GateElse ==
    ASSUME TypeOK, NEW c \in Calls, Open(c) \/ Reject(c)
    PROVE  GateInv(c)' /\ artifacts' = artifacts
<1> USE DEF TypeOK, dbVars, Goto, Return, GateInv, Storing
<1>1. CASE Load(c) \/ LoadFails(c) \/ MarkDispatched(c) \/ Preflight(c) \/ CreateRun(c)
  BY <1>1 DEF Load, LoadFails, MarkDispatched, Preflight, CreateRun
<1>2. CASE \/ MarkPreflightFailed(c) \/ MarkInExecution(c) \/ Execute(c) \/ MarkExecFailed(c)
           \/ CloseExecFailed(c) \/ MarkReadyForOmega(c)
  BY <1>2 DEF MarkPreflightFailed, MarkInExecution, Execute, MarkExecFailed, CloseExecFailed,
              MarkReadyForOmega, MarkTicket
<1>3. CASE Reject(c)
  BY <1>3 DEF Reject, MarkOmegaFailed, CloseOmegaFailed, PullAndonCord, StoreDefect,
              ReturnOmegaFailed, MarkTicket
<1> QED BY <1>1, <1>2, <1>3 DEF Open

\* A call that is not in flight can only be loaded.
LEMMA Awake ==
    ASSUME TypeOK, NEW c \in Calls, Run(c), c \notin Active
    PROVE  Load(c) \/ LoadFails(c)
<1> USE DEF Goto, Active
<1>1. pc[c] \in {"idle", "returned", "crashed"}
  OBVIOUS
<1>2. CASE Open(c)
  BY <1>1, <1>2 DEF Open, MarkDispatched, Preflight, MarkPreflightFailed, CreateRun,
                    MarkInExecution, Execute, MarkExecFailed, CloseExecFailed,
                    MarkReadyForOmega, MarkTicket
<1>3. ~Judge(c)
  BY <1>1 DEF Judge, RunGates, CheckUnique, EndUnique, Pass, Fail
<1>4. ~Reject(c)
  BY <1>1 DEF Reject, MarkOmegaFailed, CloseOmegaFailed, PullAndonCord, StoreDefect,
              ReturnOmegaFailed, MarkTicket
<1>5. ~Publish(c)
  BY <1>1 DEF Publish, StoreBlob, StoreRow, StoreRowRefused, MarkCompleted, CloseCompleted,
              ResetOmega, MarkTicket
<1> QED BY <1>2, <1>3, <1>4, <1>5 DEF Run

\* A call is loaded only when no other is in flight.
LEMMA Alone ==
    ASSUME TypeOK, MaxActive = 1, \A a, b \in Active : a = b,
           NEW c \in Calls, Run(c)
    PROVE  /\ \A a, b \in Active' : a = b
           /\ \A d \in Active \ {c} : LoadFails(c)
<1>1. \A d \in Active' : d = c \/ d \in Active
  BY Frame DEF Same, Active
<1>2. CASE c \in Active
  BY <1>1, <1>2
<1>3. CASE Load(c)
  <2>1. Cardinality(Active) < 1
    BY <1>3 DEF Load
  <2>2. Active = {}
    <3>1. SUFFICES ASSUME NEW d \in Active PROVE FALSE
      OBVIOUS
    <3>2. Active = {d}
      OBVIOUS
    <3>3. Cardinality({d}) = 1
      BY FS_Singleton
    <3> QED BY <2>1, <3>2, <3>3
  <2> QED BY <1>1, <2>2
<1>4. CASE LoadFails(c)
  <2>1. c \notin Active'
    BY <1>4 DEF LoadFails, Return, TypeOK, Active
  <2> QED BY <1>1, <1>4, <2>1
<1> QED BY <1>2, <1>3, <1>4, Awake

LEMMA TurnRun ==
    ASSUME IInv, TurnInv, MaxActive = 1, NEW c \in Calls, Run(c)
    PROVE  TurnInv'
<1>1. TypeOK /\ StageInv(c) /\ StoreInv(c) /\ gated /\ GateInv(c) /\ UniqueCatalog
  BY DEF IInv, TurnInv
<1>2. gated'
  <2>1. Open(c) => gated' = gated
    BY DEF Open, Load, LoadFails, MarkDispatched, Preflight, MarkPreflightFailed, CreateRun,
           MarkInExecution, Execute, MarkExecFailed, CloseExecFailed, MarkReadyForOmega,
           MarkTicket, fixed
  <2>2. Judge(c) => gated' = gated
    BY DEF Judge, RunGates, CheckUnique, EndUnique, Pass, Fail, fixed
  <2>3. Reject(c) => gated' = gated
    BY DEF Reject, MarkOmegaFailed, CloseOmegaFailed, PullAndonCord, StoreDefect,
           ReturnOmegaFailed, MarkTicket, fixed
  <2>4. Publish(c) => gated' = gated
    BY DEF Publish, StoreBlob, StoreRow, StoreRowRefused, MarkCompleted, CloseCompleted,
           ResetOmega, MarkTicket, fixed
  <2> QED BY <1>1, <2>1, <2>2, <2>3, <2>4 DEF Run
<1>3. (\A a, b \in Active' : a = b) /\ (\A d \in Active \ {c} : LoadFails(c))
  BY <1>1, Alone DEF TurnInv
<1>4. GateInv(c)' /\ UniqueCatalog'
  <2>1. CASE Open(c) \/ Reject(c)
    BY <1>1, <2>1, GateElse DEF UniqueCatalog
  <2>2. CASE Judge(c)
    <3>1. artifacts' = artifacts
      BY <2>2 DEF Judge, RunGates, CheckUnique, EndUnique, Pass, Fail, dbVars
    <3> QED BY <1>1, <2>2, <3>1, GateJudge DEF UniqueCatalog
  <2>3. CASE Publish(c)
    BY <1>1, <2>3, GatePublish
  <2> QED BY <2>1, <2>2, <2>3 DEF Run
<1>5. ASSUME NEW d \in Calls \ {c} PROVE GateInv(d)'
  <2>1. GateInv(d) /\ Same(d)
    BY <1>1, Frame DEF TurnInv
  <2>2. CASE d \in Active
    <3>1. artifacts' = artifacts
      BY <1>3, <2>2 DEF LoadFails, dbVars
    <3> QED BY <2>1, <3>1 DEF Same, GateInv, Distinct, NewFrom, InCatalog
  <2>3. CASE d \notin Active
    BY <2>1, <2>3 DEF Same, Active, GateInv, Storing
  <2> QED BY <2>2, <2>3
<1> QED BY <1>2, <1>3, <1>4, <1>5 DEF TurnInv

LEMMA TurnAround ==
    ASSUME TypeOK, TurnInv,
           \/ RegisterTag \/ (\E t \in Tickets : Submit(t)) \/ (\E p \in Procs : Crash(p))
           \/ UNCHANGED vars
    PROVE  TurnInv'
<1>1. /\ UNCHANGED <<gated, artifacts, batch, idx, found>>
      /\ \A c \in Calls : pc'[c] = pc[c] \/ pc'[c] = "crashed"
  BY DEF RegisterTag, Submit, Crash, vars, dbVars, fixed, callVars, TypeOK
<1>2. Active' \subseteq Active
  BY <1>1 DEF Active
<1>3. ASSUME NEW c \in Calls PROVE GateInv(c)'
  <2>1. GateInv(c)
    BY DEF TurnInv
  <2> QED BY <1>1, <2>1 DEF GateInv, Distinct, NewFrom, InCatalog, Storing
<1> QED BY <1>1, <1>2, <1>3 DEF TurnInv, UniqueCatalog

\* The uniqueness gate keeps its promise while calls of Run take turns and the engines
\* have their default gates: no content is in the catalog twice (UniquenessGate.Check).
THEOREM CatalogIsUnique ==
    ASSUME MaxActive = 1, GateSetups = {TRUE}
    PROVE  Spec => []UniqueCatalog
<1>1. Init => TurnInv
  BY DEF Init, TurnInv, Active, GateInv, Storing, UniqueCatalog
<1>2. IInv /\ TurnInv /\ [Next]_vars => TurnInv'
  BY TurnRun, TurnAround DEF Next, IInv
<1>3. TurnInv => UniqueCatalog
  BY DEF TurnInv
<1> QED BY <1>1, <1>2, <1>3, Inductive, PTL DEF Spec
-------------------------------------------------------------------------------
(* Retries stop *)

\* The classes a call failed with are in the history of its process.
Remembers(c) ==
    KeepsHistory(ProcOf[c]) /\ verdict[c] = "fail" =>
        \A i \in DOMAIN found[c] : history[ProcOf[c]][ticket[c]][found[c][i]] >= 1

RetryInv == (\A c \in Calls : Remembers(c)) /\ SameClassStopsBetweenResets

\* A class that occurs in a report is counted at least once.
LEMMA TimesOfMember ==
    ASSUME NEW S, NEW s \in Seq(S), NEW i \in DOMAIN s
    PROVE  Times(s[i], s) >= 1
<1> DEFINE T == {j \in DOMAIN s : s[j] = s[i]}
<1>1. DOMAIN s = 1..Len(s) /\ Len(s) \in Nat
  BY LenProperties
<1>2. IsFiniteSet(1..Len(s))
  BY <1>1, FS_Interval
<1>3. IsFiniteSet(T) /\ Cardinality(T) \in Nat
  BY <1>1, <1>2, FS_Subset, FS_CardinalityType
<1>4. T # {}
  OBVIOUS
<1> HIDE DEF T
<1>5. Cardinality(T) # 0
  BY <1>3, <1>4, FS_EmptySet
<1>6. Cardinality(T) >= 1
  BY <1>3, <1>5
<1> QED BY <1>6 DEF T, Times

\* A history that was emptied since is known to have been.
LEMMA KeptStays ==
    ASSUME TypeOK, NEW c \in Calls, CloseInv(c), Run(c), NEW p, KeepsHistory(p)'
    PROVE  KeepsHistory(p)
<1> SUFFICES ASSUME NEW e \in Calls, ProcOf[e] = p
             PROVE  result[e] # "success" /\ pc[e] # "crashed"
  BY DEF KeepsHistory
<1>1. result'[e] # "success" /\ pc'[e] # "crashed"
  BY DEF KeepsHistory
<1>2. CASE e # c
  BY <1>1, <1>2, Frame DEF Same
<1>3. CASE e = c
  <2>1. pc[c] \notin {"returned", "crashed"}
    BY DEF Run, Open, Load, LoadFails, MarkDispatched, Preflight, MarkPreflightFailed, CreateRun,
           MarkInExecution, Execute, MarkExecFailed, CloseExecFailed, MarkReadyForOmega,
           MarkTicket, Judge, RunGates, CheckUnique, EndUnique, Pass, Fail, Reject,
           MarkOmegaFailed, CloseOmegaFailed, PullAndonCord, StoreDefect, ReturnOmegaFailed,
           Publish, StoreBlob, StoreRow, StoreRowRefused, MarkCompleted, CloseCompleted, ResetOmega,
           Goto
  <2> QED BY <1>3, <2>1 DEF CloseInv
<1> QED BY <1>2, <1>3

\* Only a failure and a reset change the history, and only a failure tells to retry.
LEMMA HistoryStep ==
    ASSUME TypeOK, NEW c \in Calls, Run(c), ~Fail(c)
    PROVE  /\ UNCHANGED retry
           /\ UNCHANGED history \/ ResetOmega(c)
           /\ verdict'[c] = "fail" => verdict[c] = "fail"
<1> USE DEF callVars, TypeOK
<1>1. CASE Open(c)
  BY <1>1 DEF Open, Load, LoadFails, MarkDispatched, Preflight, MarkPreflightFailed, CreateRun,
              MarkInExecution, Execute, MarkExecFailed, CloseExecFailed, MarkReadyForOmega, MarkTicket
<1>2. CASE Judge(c)
  BY <1>2 DEF Judge, RunGates, CheckUnique, EndUnique, Pass
<1>3. CASE Reject(c)
  BY <1>3 DEF Reject, MarkOmegaFailed, MarkTicket, CloseOmegaFailed, PullAndonCord, StoreDefect,
              ReturnOmegaFailed
<1>4. CASE Publish(c)
  BY <1>4 DEF Publish, StoreBlob, StoreRow, StoreRowRefused, MarkCompleted, MarkTicket, CloseCompleted,
              ResetOmega
<1> QED BY <1>1, <1>2, <1>3, <1>4 DEF Run

\* What a call failed with stays what it failed with.
LEMMA FoundStays ==
    ASSUME TypeOK, NEW c \in Calls, StageInv(c), Run(c), verdict[c] = "fail"
    PROVE  found'[c] = found[c]
<1> USE DEF callVars, Goto, StageInv, PreVerdict
<1>1. CASE Open(c)
  BY <1>1 DEF Open, Load, LoadFails, MarkDispatched, Preflight, MarkPreflightFailed, CreateRun,
              MarkInExecution, Execute, MarkExecFailed, CloseExecFailed, MarkReadyForOmega, MarkTicket
<1>2. CASE Judge(c)
  BY <1>2 DEF Judge, RunGates, CheckUnique, EndUnique, Pass, Fail
<1>3. CASE Reject(c)
  BY <1>3 DEF Reject, MarkOmegaFailed, MarkTicket, CloseOmegaFailed, PullAndonCord, StoreDefect,
              ReturnOmegaFailed
<1>4. CASE Publish(c)
  BY <1>4 DEF Publish, StoreBlob, StoreRow, StoreRowRefused, MarkCompleted, MarkTicket, CloseCompleted,
              ResetOmega
<1> QED BY <1>1, <1>2, <1>3, <1>4 DEF Run

\* Failing adds to the history every class of the report, and nothing is taken out of it.
LEMMA FailCounts ==
    ASSUME TypeOK, NEW c \in Calls, Fail(c)
    PROVE  /\ \A p \in Procs, t \in Tickets, k \in Classes : history'[p][t][k] >= history[p][t][k]
           /\ \A i \in DOMAIN found[c] :
                 LET k == found[c][i]
                 IN  history'[ProcOf[c]][ticket[c]][k] >= history[ProcOf[c]][ticket[c]][k] + 1
           /\ retry'[c] => \A i \in DOMAIN found[c] : history'[ProcOf[c]][ticket[c]][found[c][i]] < 2
           /\ \A d \in Calls \ {c} : retry'[d] = retry[d]
           /\ found' = found
<1> DEFINE p == ProcOf[c]  t == ticket[c]
<1>1. p \in Procs /\ t \in Tickets /\ found[c] \in Seq(Classes)
  BY CallsAssumption DEF TypeOK
<1>2. history \in [Procs -> [Tickets -> [Classes -> Nat]]]
  BY DEF TypeOK
<1>3. history' = [history EXCEPT ![p][t] = Counted(c)]
  BY DEF Fail
<1>4. \A k \in Classes : Counted(c)[k] = history[p][t][k] + Times(k, found[c]) /\ Times(k, found[c]) \in Nat
  BY <1>1, CountType DEF Counted
<1> HIDE DEF p, t
<1>5. /\ \A k \in Classes : history'[p][t][k] = history[p][t][k] + Times(k, found[c])
      /\ \A q \in Procs, u \in Tickets : q # p \/ u # t => history'[q][u] = history[q][u]
  BY <1>1, <1>2, <1>3, <1>4
<1>6. \A q \in Procs, u \in Tickets, k \in Classes : history[q][u][k] \in Nat
  BY <1>2
<1>7. \A i \in DOMAIN found[c] : found[c][i] \in Classes /\ Times(found[c][i], found[c]) >= 1
  BY <1>1, TimesOfMember
<1>8. \A q \in Procs, u \in Tickets, k \in Classes : history'[q][u][k] >= history[q][u][k]
  <2> TAKE q \in Procs, u \in Tickets, k \in Classes
  <2>1. CASE q = p /\ u = t
    BY <2>1, <1>1, <1>4, <1>5, <1>6
  <2>2. CASE q # p \/ u # t
    BY <2>2, <1>5, <1>6
  <2> QED BY <2>1, <2>2
<1>9. \A i \in DOMAIN found[c] : history'[p][t][found[c][i]] >= history[p][t][found[c][i]] + 1
  BY <1>1, <1>4, <1>5, <1>6, <1>7
<1>10. retry'[c] => \A i \in DOMAIN found[c] : history'[p][t][found[c][i]] < 2
  <2>1. retry'[c] = \A i \in DOMAIN found[c] : Counted(c)[found[c][i]] < 2
    BY DEF Fail, TypeOK
  <2>2. \A i \in DOMAIN found[c] : Counted(c)[found[c][i]] = history'[p][t][found[c][i]]
    BY <1>4, <1>5, <1>7
  <2> QED BY <2>1, <2>2
<1>11. (\A d \in Calls \ {c} : retry'[d] = retry[d]) /\ found' = found
  BY DEF Fail, TypeOK
<1> QED BY <1>8, <1>9, <1>10, <1>11 DEF p, t

LEMMA RetryRun ==
    ASSUME IInv, RetryInv, NEW c \in Calls, Run(c)
    PROVE  RetryInv'
<1>1. TypeOK /\ StageInv(c) /\ CloseInv(c) /\ \A d \in Calls : Remembers(d)
  BY DEF IInv, RetryInv
<1>2. /\ \A d \in Calls \ {c} : found'[d] = found[d] /\ verdict'[d] = verdict[d]
      /\ ticket' = ticket
  BY <1>1, Frame DEF Same, Grows
<1>3. \A d \in Calls : /\ ProcOf[d] \in Procs /\ ticket[d] \in Tickets
                       /\ \A i \in DOMAIN found[d] : found[d][i] \in Classes
  BY <1>1, CallsAssumption DEF TypeOK
<1>4. CASE ~Fail(c)
  <2>1. \A d \in Calls : verdict'[d] = "fail" => verdict[d] = "fail" /\ found'[d] = found[d]
    BY <1>1, <1>2, <1>4, HistoryStep, FoundStays
  <2>2. ASSUME NEW d \in Calls, KeepsHistory(ProcOf[d])'
        PROVE  history'[ProcOf[d]] = history[ProcOf[d]]
    <3>1. CASE ResetOmega(c)
      <4>1. ProcOf[d] # ProcOf[c]
        BY <2>2, <3>1, <1>1 DEF ResetOmega, Return, KeepsHistory, TypeOK
      <4> QED BY <3>1, <4>1, <1>1 DEF ResetOmega, TypeOK
    <3>2. CASE ~ResetOmega(c)
      BY <3>2, <1>1, <1>4, HistoryStep
    <3> QED BY <3>1, <3>2
  <2>3. ASSUME NEW d \in Calls PROVE Remembers(d)'
    BY <1>1, <1>2, <2>1, <2>2, KeptStays DEF Remembers
  <2>4. UNCHANGED retry
    BY <1>1, <1>4, HistoryStep
  <2>5. \A d, e \in Calls : FailedAlike(d, e)' => FailedAlike(d, e)
    BY <1>2, <2>1 DEF FailedAlike
  <2>6. SameClassStopsBetweenResets'
    BY <1>1, <2>4, <2>5, KeptStays DEF SameClassStopsBetweenResets, RetryInv
  <2> QED BY <2>3, <2>6 DEF RetryInv
<1>5. CASE Fail(c)
  <2>1. /\ \A p \in Procs, t \in Tickets, k \in Classes : history'[p][t][k] >= history[p][t][k]
        /\ \A i \in DOMAIN found[c] :
              LET k == found[c][i]
              IN  history'[ProcOf[c]][ticket[c]][k] >= history[ProcOf[c]][ticket[c]][k] + 1
        /\ retry'[c] => \A i \in DOMAIN found[c] : history'[ProcOf[c]][ticket[c]][found[c][i]] < 2
        /\ \A d \in Calls \ {c} : retry'[d] = retry[d]
        /\ found' = found
    BY <1>1, <1>5, FailCounts
  <2>2. /\ \A p \in Procs, t \in Tickets, k \in Classes : history[p][t][k] \in Nat /\ history'[p][t][k] \in Nat
    <3>1. TypeOK'
      BY <1>1, TypeRun DEF IInv
    <3> QED BY <1>1, <3>1 DEF TypeOK
  <2>3. ASSUME NEW d \in Calls PROVE Remembers(d)'
    <3>1. SUFFICES ASSUME KeepsHistory(ProcOf[d])', verdict'[d] = "fail", NEW i \in DOMAIN found[d]
                   PROVE  history'[ProcOf[d]][ticket[d]][found[d][i]] >= 1
      BY <1>2, <2>1 DEF Remembers
    <3>2. CASE d = c
      BY <3>2, <1>3, <2>1, <2>2
    <3>3. CASE d # c
      <4>1. history[ProcOf[d]][ticket[d]][found[d][i]] >= 1
        BY <3>1, <3>3, <1>1, <1>2, KeptStays DEF Remembers
      <4> QED BY <4>1, <1>3, <2>1, <2>2
    <3> QED BY <3>2, <3>3
  \* The other call that failed with the class is remembered, so this one counts two.
  <2>4. ASSUME NEW d \in Calls, KeepsHistory(ProcOf[c])', FailedAlike(d, c)' \/ FailedAlike(c, d)'
        PROVE  ~retry'[c]
    <3>1. /\ d # c /\ ProcOf[d] = ProcOf[c] /\ ticket[d] = ticket[c] /\ verdict[d] = "fail"
          /\ \E i \in DOMAIN found[c] : \E j \in DOMAIN found[d] : found[c][i] = found[d][j]
      BY <2>4, <1>2, <2>1 DEF FailedAlike
    <3>2. PICK i \in DOMAIN found[c], j \in DOMAIN found[d] : found[c][i] = found[d][j]
      BY <3>1
    <3>3. history[ProcOf[c]][ticket[c]][found[c][i]] >= 1
      BY <3>1, <3>2, <2>4, <1>1, KeptStays DEF Remembers
    <3>4. history'[ProcOf[c]][ticket[c]][found[c][i]] >= 2
      BY <3>3, <1>3, <2>1, <2>2
    <3> QED BY <3>4, <1>3, <2>1, <2>2
  <2>5. SameClassStopsBetweenResets'
    <3> SUFFICES ASSUME NEW d \in Calls, NEW e \in Calls, FailedAlike(d, e)', KeepsHistory(ProcOf[d])'
                 PROVE  ~(retry'[d] /\ retry'[e])
      BY DEF SameClassStopsBetweenResets
    <3>1. CASE d = c \/ e = c
      <4>1. KeepsHistory(ProcOf[c])'
        BY <3>1 DEF FailedAlike
      <4> QED BY <3>1, <4>1, <2>4
    <3>2. CASE d # c /\ e # c
      <4>1. FailedAlike(d, e) /\ KeepsHistory(ProcOf[d])
        BY <3>2, <1>1, <1>2, KeptStays DEF FailedAlike
      <4> QED BY <3>2, <4>1, <2>1 DEF RetryInv, SameClassStopsBetweenResets
    <3> QED BY <3>1, <3>2
  <2> QED BY <2>3, <2>5 DEF RetryInv
<1> QED BY <1>4, <1>5

LEMMA RetryAround ==
    ASSUME TypeOK, RetryInv,
           \/ RegisterTag \/ (\E t \in Tickets : Submit(t)) \/ (\E p \in Procs : Crash(p))
           \/ UNCHANGED vars
    PROVE  RetryInv'
<1>1. UNCHANGED <<ticket, found, verdict, retry, result>>
  BY DEF RegisterTag, Submit, Crash, vars, fixed, callVars
<1>2. \A d, e \in Calls : FailedAlike(d, e)' => FailedAlike(d, e)
  BY <1>1 DEF FailedAlike
<1>3. CASE UNCHANGED <<pc, history>>
  <2>1. \A p : KeepsHistory(p)' => KeepsHistory(p)
    BY <1>1, <1>3 DEF KeepsHistory
  <2> QED BY <1>1, <1>2, <1>3, <2>1 DEF RetryInv, Remembers, SameClassStopsBetweenResets
<1>4. ASSUME NEW p \in Procs, Crash(p) PROVE RetryInv'
  <2>1. ~KeepsHistory(p)'
    <3>1. PICK e \in Calls : e \in Active /\ ProcOf[e] = p
      BY <1>4 DEF Crash, Active
    <3>2. pc'[e] = "crashed"
      BY <1>4, <3>1 DEF Crash
    <3> QED BY <3>1, <3>2 DEF KeepsHistory
  <2>2. \A q \in Procs \ {p} : history'[q] = history[q]
    BY <1>4 DEF Crash, TypeOK
  <2>3. \A q : KeepsHistory(q)' => KeepsHistory(q)
    BY <1>1, <1>4 DEF KeepsHistory, Crash, Active
  <2>4. \A d \in Calls : KeepsHistory(ProcOf[d])' => history'[ProcOf[d]] = history[ProcOf[d]]
    BY <2>1, <2>2, CallsAssumption
  <2> QED BY <1>1, <1>2, <2>3, <2>4 DEF RetryInv, Remembers, SameClassStopsBetweenResets
<1>5. UNCHANGED <<pc, history>> \/ \E p \in Procs : Crash(p)
  BY DEF RegisterTag, Submit, vars
<1> QED BY <1>3, <1>4, <1>5

\* In a process in which no call has succeeded, a defect class that two calls on a ticket have in
\* common stops its retries, whatever the order in which the two are judged.
THEOREM RetriesStop == Spec => []SameClassStopsBetweenResets
<1>1. Init => RetryInv
  BY DEF Init, RetryInv, Remembers, SameClassStopsBetweenResets, FailedAlike
<1>2. IInv /\ RetryInv /\ [Next]_vars => RetryInv'
  BY RetryRun, RetryAround DEF Next, IInv
<1>3. RetryInv => SameClassStopsBetweenResets
  BY DEF RetryInv
<1> QED BY <1>1, <1>2, <1>3, Inductive, PTL DEF Spec

-------------------------------------------------------------------------------
(* Run only goes forward *)

\* The numbers of the stages.
LEMMA Places ==
    /\ Place["idle"] = 0 /\ Place["dispatch"] = 1 /\ Place["preflight"] = 2
    /\ Place["preflight_failed"] = 3 /\ Place["create_run"] = 3 /\ Place["mark_executing"] = 4
    /\ Place["execute"] = 5 /\ Place["exec_failed"] = 6 /\ Place["close_exec"] = 7
    /\ Place["mark_ready"] = 6 /\ Place["gates"] = 7 /\ Place["unique"] = 8
    /\ Place["verdict"] = 9 /\ Place["mark_omega_failed"] = 10 /\ Place["close_omega"] = 11
    /\ Place["andon"] = 12 /\ Place["defects"] = 13 /\ Place["store_blob"] = 10
    /\ Place["store_row"] = 10 /\ Place["mark_completed"] = 11 /\ Place["close_completed"] = 12
    /\ Place["reset"] = 13 /\ Place["returned"] = 14 /\ Place["crashed"] = 14
  BY DEF Place

\* The steps of Run that leave a stage, but for the store loop.
LEMMA Onward ==
    /\ Beyond("idle", "dispatch") /\ Beyond("dispatch", "preflight")
    /\ Beyond("preflight", "preflight_failed") /\ Beyond("preflight", "create_run")
    /\ Beyond("create_run", "mark_executing") /\ Beyond("mark_executing", "execute")
    /\ Beyond("execute", "exec_failed") /\ Beyond("execute", "mark_ready")
    /\ Beyond("exec_failed", "close_exec") /\ Beyond("mark_ready", "gates")
    /\ Beyond("gates", "unique") /\ Beyond("gates", "verdict") /\ Beyond("unique", "verdict")
    /\ Beyond("verdict", "mark_omega_failed") /\ Beyond("verdict", "store_blob")
    /\ Beyond("verdict", "mark_completed") /\ Beyond("store_row", "mark_completed")
    /\ Beyond("mark_completed", "close_completed") /\ Beyond("close_completed", "reset")
    /\ Beyond("mark_omega_failed", "close_omega") /\ Beyond("close_omega", "andon")
    /\ Beyond("andon", "defects")
  BY Places DEF Beyond

\* Whatever stage a call is at, but the last, to return or to die is beyond it.
LEMMA EndIsBeyond ==
    ASSUME NEW s \in Stages \ {"returned", "crashed"}
    PROVE  Beyond(s, "returned") /\ Beyond(s, "crashed")
  BY Places DEF Beyond, Stages, Unsettled, Closing

\* Each step of a call brings it forward.
LEMMA RunForward ==
    ASSUME TypeOK, NEW c \in Calls, StoreInv(c), Run(c)
    PROVE  Forward(c)
<1>0. /\ pc \in [Calls -> Stages] /\ idx \in [Calls -> Nat \ {0}]
      /\ batch[c] \in Seq(Artifact) /\ found[c] \in Seq(Classes)
  BY DEF TypeOK
<1>1. Len(batch[c]) \in Nat /\ Len(found[c]) \in Nat /\ idx[c] \in Nat \ {0}
  BY <1>0
<1>2. ASSUME NEW s \in Stages, NEW t, pc[c] = s, Goto(c, s, t), Beyond(s, t)
      PROVE  Forward(c)
  BY <1>0, <1>2 DEF Goto, Forward
<1>3. ASSUME NEW r, pc[c] \notin {"returned", "crashed"}, Return(c, r)
      PROVE  Forward(c)
  BY <1>0, <1>3, EndIsBeyond DEF Return, Forward
<1> USE DEF Stages, Unsettled, Closing
<1>4. CASE Open(c)
  <2> USE DEF MarkTicket
  <2>1. CASE Load(c) \/ MarkDispatched(c) \/ Preflight(c) \/ CreateRun(c) \/ MarkInExecution(c)
    BY <2>1, <1>0, <1>2, <1>3, Onward
    DEF Load, MarkDispatched, Preflight, CreateRun, MarkInExecution, Goto
  <2>2. CASE Execute(c) \/ MarkExecFailed(c) \/ MarkReadyForOmega(c)
    BY <2>2, <1>0, <1>2, Onward DEF Execute, MarkExecFailed, MarkReadyForOmega, Goto
  <2>3. CASE LoadFails(c) \/ MarkPreflightFailed(c) \/ CloseExecFailed(c)
    BY <2>3, <1>3 DEF LoadFails, MarkPreflightFailed, CloseExecFailed
  <2> QED BY <1>4, <2>1, <2>2, <2>3 DEF Open
<1>5. CASE Judge(c)
  <2>1. CASE CheckUnique(c)
    <3>1. pc' = pc /\ pc[c] = "unique" /\ batch' = batch /\ idx[c] <= Len(batch[c]) /\ idx'[c] = idx[c] + 1
      BY <2>1, <1>0 DEF CheckUnique
    <3> QED BY <3>1, <1>1 DEF Forward, Left
  <2>2. CASE RunGates(c) \/ EndUnique(c) \/ Fail(c)
    BY <2>2, <1>0, <1>2, Onward DEF RunGates, EndUnique, Fail, Goto
  <2>3. CASE Pass(c)
    BY <2>3, <1>0, <1>2, Onward DEF Pass, Goto
  <2> QED BY <1>5, <2>1, <2>2, <2>3 DEF Judge
<1>6. CASE Reject(c)
  <2>1. CASE StoreDefect(c)
    <3>1. pc' = pc /\ pc[c] = "defects" /\ found' = found /\ idx[c] <= Len(found[c]) /\ idx'[c] = idx[c] + 1
      BY <2>1, <1>0 DEF StoreDefect
    <3> QED BY <3>1, <1>1 DEF Forward, Left
  <2>2. CASE MarkOmegaFailed(c) \/ CloseOmegaFailed(c) \/ PullAndonCord(c)
    BY <2>2, <1>0, <1>2, Onward DEF MarkOmegaFailed, MarkTicket, CloseOmegaFailed, PullAndonCord, Goto
  <2>3. CASE ReturnOmegaFailed(c)
    BY <2>3, <1>3 DEF ReturnOmegaFailed
  <2> QED BY <1>6, <2>1, <2>2, <2>3 DEF Reject
<1>7. CASE Publish(c)
  <2>1. CASE StoreBlob(c)
    <3>1. pc[c] = "store_blob" /\ UNCHANGED <<batch, idx>>
      BY <2>1 DEF StoreBlob, callVars
    <3>2. CASE pc'[c] = "store_row"
      <4>1. idx[c] <= Len(batch[c])
        BY <3>1 DEF StoreInv, Storing
      <4> QED BY <3>1, <3>2, <4>1, <1>1 DEF Forward, Left
    <3> QED BY <2>1, <3>1, <3>2, <1>0, <1>3 DEF StoreBlob, Goto
  <2>2. CASE StoreRow(c)
    <3>1. pc[c] = "store_row" /\ UNCHANGED batch /\ idx[c] <= Len(batch[c])
      BY <2>2 DEF StoreRow, StoreInv, Storing
    <3>2. CASE /\ idx' = [idx EXCEPT ![c] = @ + 1]
               /\ Goto(c, "store_row", IF idx[c] = Len(batch[c]) THEN "mark_completed" ELSE "store_blob")
      <4>1. CASE idx[c] = Len(batch[c])
        BY <3>1, <3>2, <4>1, <1>2, Onward
      <4>2. CASE idx[c] # Len(batch[c])
        <5>1. idx'[c] = idx[c] + 1 /\ pc'[c] = "store_blob"
          BY <3>2, <4>2, <1>0 DEF Goto
        <5> QED BY <3>1, <4>2, <5>1, <1>1 DEF Forward, Left
      <4> QED BY <4>1, <4>2
    <3>3. CASE Return(c, "error")
      BY <3>1, <3>3, <1>3
    <3> QED BY <2>2, <3>2, <3>3 DEF StoreRow
  <2>3. CASE MarkCompleted(c) \/ CloseCompleted(c)
    BY <2>3, <1>0, <1>2, Onward DEF MarkCompleted, MarkTicket, CloseCompleted, Goto
  <2>4. CASE StoreRowRefused(c) \/ ResetOmega(c)
    BY <2>4, <1>3 DEF StoreRowRefused, ResetOmega
  <2> QED BY <1>7, <2>1, <2>2, <2>3, <2>4 DEF Publish
<1> QED BY <1>4, <1>5, <1>6, <1>7 DEF Run

\* A call of Run goes through its stages once, and through each loop at most as often as its batch
\* or its report is long, whatever fails and whoever else works on the ticket: what fairness has
\* to add for it to end is only that the call goes on.
THEOREM RunGoesForward == Spec => RunAdvances
<1>1. ASSUME IInv, [Next]_vars, NEW c \in Calls
      PROVE  Forward(c) \/ (UNCHANGED <<pc[c], idx[c], batch[c], found[c]>> /\ ~Run(c))
  <2>0. TypeOK /\ StoreInv(c)
    BY <1>1 DEF IInv
  <2>1. CASE Run(c)
    BY <2>0, <2>1, RunForward
  <2>2. ASSUME NEW d \in Calls, Run(d), ~Run(c)
        PROVE  UNCHANGED <<pc[c], idx[c], batch[c], found[c]>>
    BY <2>0, <2>2, Frame DEF Same
  <2>3. ASSUME NEW p \in Procs, Crash(p)
        PROVE  Forward(c) \/ UNCHANGED <<pc[c], idx[c], batch[c], found[c]>>
    <3>1. UNCHANGED <<idx, batch, found>>
      BY <2>3 DEF Crash, callVars
    <3>2. CASE c \in Active /\ ProcOf[c] = p
      <4>1. pc[c] \in Stages \ {"returned", "crashed"} /\ pc'[c] = "crashed"
        BY <2>0, <2>3, <3>2 DEF Crash, Active, TypeOK
      <4> QED BY <4>1, EndIsBeyond DEF Forward
    <3>3. CASE ~(c \in Active /\ ProcOf[c] = p)
      BY <2>3, <3>1, <3>3 DEF Crash
    <3> QED BY <3>2, <3>3
  <2>4. CASE RegisterTag \/ (\E t \in Tickets : Submit(t)) \/ UNCHANGED vars
    BY <2>1, <2>4 DEF RegisterTag, Submit, vars, callVars
  <2> QED BY <1>1, <2>1, <2>2, <2>3, <2>4 DEF Next
<1>2. IInv /\ [Next]_vars =>
        [\A c \in Calls :
           Forward(c) \/ (UNCHANGED <<pc[c], idx[c], batch[c], found[c]>> /\ ~Run(c))]_vars
  BY <1>1
<1> QED BY <1>2, Inductive, PTL DEF Spec, RunAdvances
=============================================================================
