----------------------------- MODULE Maintenance -----------------------------
(***************************************************************************)
(* The maintenance API of internal/maintenance/api.go over the table        *)
(* memory_pairs, and the commands of cmd/partir that call it.  A call reads *)
(* the pair's state, updates its row and writes to the ledger, each on its  *)
(* own: two calls may fall between each other's steps.  The operations that *)
(* are not implemented check, write to the ledger and return an error.      *)
(*                                                                         *)
(* What moves a pair between the other states, and into maintenance, is not *)
(* in the repository; nothing but Release takes it out.                    *)
(***************************************************************************)
EXTENDS Naturals

CONSTANTS
    Callers,
    Pairs,
    Phases          \* of ValidPhases, and others

ValidPhases == {"diagnose", "triage", "script", "wot", "cbt", "surgery", "rehab", "test"}
PairStates  == {"active", "hot", "sleep", "maintenance"}
NoPhase     == "none"
Operations  == {"phase", "release", "inspect", "diagnose", "script", "wot", "cbt"}

VARIABLES
    pairState,      \* column state
    pairPhase,      \* column maintenance_phase
    call,           \* what each caller is doing
    lastEvent       \* newest entry of the maintenance API in the factory ledger

maintenanceVars == <<pairState, pairPhase, call, lastEvent>>

NoCall == [at |-> "idle"]

MaintenanceInit ==
    /\ pairState \in [Pairs -> PairStates]
    /\ pairPhase = [p \in Pairs |-> NoPhase]
    /\ call = [c \in Callers |-> NoCall]
    /\ lastEvent = <<>>

Return(c) == call' = [call EXCEPT ![c] = NoCall]
Proceed(c, at) == call' = [call EXCEPT ![c].at = at]

\* A phase that is not valid is refused before anything is read.
Call(c, operation, p, ph) ==
    /\ call[c] = NoCall
    /\ IF operation = "phase" THEN ph \in ValidPhases ELSE ph = NoPhase
    /\ call' = [call EXCEPT ![c] = [at |-> "check", op |-> operation, pair |-> p, phase |-> ph]]
    /\ UNCHANGED <<pairState, pairPhase, lastEvent>>

\* requireMaintenance, or the query fails.
RequireMaintenance(c) ==
    /\ call[c].at = "check"
    /\ \/ /\ pairState[call[c].pair] = "maintenance"
          /\ Proceed(c, IF call[c].op \in {"phase", "release"} THEN "update" ELSE "log")
       \/ Return(c)
    /\ UNCHANGED <<pairState, pairPhase, lastEvent>>

\* Mutant: the update does not ask for the state again.
UpdateAnyway(c) ==
    LET p == call[c].pair
    IN  /\ call[c].at = "update"
        /\ Proceed(c, "log")
        /\ IF call[c].op = "phase"
           THEN pairPhase' = [pairPhase EXCEPT ![p] = call[c].phase] /\ UNCHANGED pairState
           ELSE /\ pairState' = [pairState EXCEPT ![p] = "sleep"]
                /\ pairPhase' = [pairPhase EXCEPT ![p] = NoPhase]
        /\ UNCHANGED lastEvent

\* UPDATE ... WHERE state = 'maintenance': if the pair has left it meanwhile no row is updated,
\* and nobody looks at that.
Update(c) ==
    LET p == call[c].pair
    IN  /\ call[c].at = "update"
        /\ Proceed(c, "log")
        /\ CASE pairState[p] # "maintenance" -> UNCHANGED <<pairState, pairPhase>>
             [] pairState[p] = "maintenance" /\ call[c].op = "phase" ->
                    pairPhase' = [pairPhase EXCEPT ![p] = call[c].phase] /\ UNCHANGED pairState
             [] pairState[p] = "maintenance" /\ call[c].op = "release" ->
                    /\ pairState' = [pairState EXCEPT ![p] = "sleep"]
                    /\ pairPhase' = [pairPhase EXCEPT ![p] = NoPhase]
        /\ UNCHANGED lastEvent

UpdateFails(c) ==
    /\ call[c].at = "update"
    /\ Return(c)
    /\ UNCHANGED <<pairState, pairPhase, lastEvent>>

\* The ledger is told what was asked for.  The commands have no ledger, and errors are dropped.
LogCall(c) ==
    /\ call[c].at = "log"
    /\ lastEvent' \in {lastEvent, <<call[c].op, call[c].pair>>}
    /\ Return(c)
    /\ UNCHANGED <<pairState, pairPhase>>

\* A pair is activated, put to sleep or taken into maintenance by others; roles are left out.
Reassign(p, to) ==
    /\ pairState[p] # "maintenance"
    /\ to # pairState[p]
    /\ pairState' = [pairState EXCEPT ![p] = to]
    /\ UNCHANGED <<pairPhase, call, lastEvent>>

CallStep(c) ==
    \/ \E operation \in Operations, p \in Pairs, ph \in Phases \union {NoPhase} : Call(c, operation, p, ph)
    \/ RequireMaintenance(c) \/ Update(c) \/ UpdateFails(c) \/ LogCall(c)
===============================================================================
