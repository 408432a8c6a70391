------------------------- MODULE FactoryRegistryProps -------------------------
(***************************************************************************)
(* What is asserted of the factory registry.                               *)
(***************************************************************************)
EXTENDS FactoryRegistry

TypeOK ==
    /\ now \in Nat
    /\ known \subseteq Workers
    /\ status \in [Workers -> Sent \union {"active", "sleeping", "crashed"}]
    /\ place \in [Workers -> Places \union {NoPlace}]
    /\ beat \in [Workers -> Nat]
    /\ station \in [Stations -> {"idle", "active"}]
    /\ op \in [Registries -> {"none", "assign", "detect"}]
    /\ target \in [Registries -> [station: Stations, worker: Workers] \union {NoTarget}]
    /\ used \in [Registries -> SUBSET Slots]
    /\ since \in [Registries -> Nat]
    /\ announced \subseteq known

\* Workers that operators have placed, or nobody.
Assigned == known \ announced

\* A slot of a station that operators gave a worker belongs to no other they placed, whatever
\* heartbeats, crashes, unassignments and announced places come while another assignment is
\* under way.
NoSlotShared ==
    \A v, w \in Assigned : v # w /\ place[v] # NoPlace => place[v] # place[w]

Allocation == INSTANCE SlotAllocation WITH Holders <- Workers

\* The registry implements SlotAllocation: the assignment that reads the used slots in one
\* step and takes a free one in a later one looks like a single step that takes a place
\* nobody has, although heartbeats, unassignments and detections come between the two.
AllocationSpec == Allocation!Spec

\* The station of an assigned worker is open, whichever operation wrote last.
AssignedStationIsActive ==
    \A w \in Assigned : place[w] # NoPlace => station[place[w].station] = "active"

\* A worker is declared crashed only if it is silent at that very moment: a heartbeat that
\* arrives between the detector's two queries saves it, at whichever process it arrives.
OnlySilentAreMarked ==
    [][\A w \in Workers :
          status[w] # "crashed" /\ status'[w] = "crashed" => Silent(w, now)]_vars

\* A worker keeps its slot until an operator moves it: neither a heartbeat after a crash
\* nor the crash itself takes it away.
SlotSurvivesCrash ==
    [][\A w \in known :
          place'[w] # place[w] =>
             \E r \in Registries : Unassign(r, w) \/ (AssignCommit(r) /\ target[r].worker = w)]_vars

\* A live worker that stays silent is declared crashed, unless it speaks or is unassigned.
SilentIsMarked ==
    \A w \in Workers :
        w \in Lost(now) ~> (status[w] \notin Live \/ ~Silent(w, now))

-------------------------------------------------------------------------------
(* The inductive invariant behind them *)

Assigning(r) == op[r] = "assign"

\* Slots of station s that operators gave to workers.
GivenSlots(s) == {place[w].slot : w \in {v \in Assigned : place[v].station = s}}

\* With one assign command at a time, the slots read by the one in progress still hold all
\* that were given: meanwhile slots are only given up, or announced.
AssignInv ==
    /\ \A r \in Registries : Assigning(r) =>
          target[r] \in [station: Stations, worker: Workers]
    /\ OneAtATime =>
          /\ \A q, r \in Registries : Assigning(q) /\ Assigning(r) => q = r
          /\ \A r \in Registries : Assigning(r) => GivenSlots(target[r].station) \subseteq used[r]

IInv ==
    /\ TypeOK
    /\ AssignInv
    /\ \A w \in Workers \ known : place[w] = NoPlace
    /\ \A r \in Registries : since[r] <= now
    /\ OneAtATime => NoSlotShared
    /\ AssignedStationIsActive
===============================================================================
