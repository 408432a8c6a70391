------------------------ MODULE FactoryRegistryProofs ------------------------
(***************************************************************************)
(* Proofs about the factory registry, for any number of Registries,        *)
(* workers, stations and slots, and for an unbounded clock.                *)
(***************************************************************************)
EXTENDS FactoryRegistryProps, TLAPS

\* A place is not the absence of one, and has a station and a slot.
LEMMA PlaceFacts ==
    /\ NoPlace \notin Places
    /\ NoPlace.station \notin Stations
    /\ \A s \in Stations, n \in Slots :
          /\ [station |-> s, slot |-> n] \in Places
          /\ [station |-> s, slot |-> n].station = s
          /\ [station |-> s, slot |-> n].slot = n
BY StationAssumption DEF NoPlace, Places

\* The slots a station has in use are slots.
LEMMA UsedSlotsType ==
    ASSUME TypeOK, NEW s \in Stations
    PROVE  UsedSlots(s) \subseteq Slots
BY PlaceFacts DEF TypeOK, UsedSlots, Places, NoPlace

-------------------------------------------------------------------------------
(* Type correctness *)

LEMMA TypeInit == Init => TypeOK
BY DEF Init, TypeOK

LEMMA TypeStep ==
    ASSUME TypeOK, AssignInv, [Next]_vars
    PROVE  TypeOK'
<1> USE DEF TypeOK, rows, local
<1>1. CASE Tick
  BY <1>1 DEF Tick
<1>2. ASSUME NEW r \in Registries, NEW w \in Workers, NEW s \in Sent, NEW p \in Claims,
             NEW t \in 0..now, Heartbeat(r, w, s, p, t)
      PROVE  TypeOK'
  BY <1>2, ClaimsAssumption DEF Heartbeat
<1>3. ASSUME NEW r \in Registries, NEW w \in Workers, NEW s \in Stations, AssignRead(r, s, w)
      PROVE  TypeOK'
  BY <1>3, UsedSlotsType DEF AssignRead
<1>4. ASSUME NEW r \in Registries, NEW w \in Workers, Unassign(r, w)
      PROVE  TypeOK'
  BY <1>4 DEF Unassign
<1>5. ASSUME NEW r \in Registries, Finish(r)
      PROVE  /\ op' \in [Registries -> {"none", "assign", "detect"}]
             /\ target' \in [Registries -> [station: Stations, worker: Workers] \union {NoTarget}]
             /\ used' \in [Registries -> SUBSET Slots]
             /\ since' \in [Registries -> Nat]
  BY <1>5 DEF Finish
<1>6. ASSUME NEW r \in Registries, AssignCommit(r)
      PROVE  TypeOK'
  <2> DEFINE w == target[r].worker
             s == target[r].station
  <2>1. place' \in [Workers -> Places \union {NoPlace}]
    <3>1. target[r] \in [station: Stations, worker: Workers]
      BY <1>6 DEF AssignInv, Assigning, AssignCommit
    <3>2. PICK n \in Slots :
             place' = IF w \in known THEN [place EXCEPT ![w] = [station |-> s, slot |-> n]]
                                     ELSE place
      BY <1>6 DEF AssignCommit
    <3> QED BY <3>1, <3>2, PlaceFacts
  <2> QED BY <1>5, <1>6, <2>1 DEF AssignCommit
<1>7. ASSUME NEW r \in Registries, DetectRead(r)
      PROVE  TypeOK'
  BY <1>7 DEF DetectRead
<1>8. ASSUME NEW r \in Registries, DetectMark(r)
      PROVE  TypeOK'
  BY <1>5, <1>8 DEF DetectMark
<1>9. ASSUME NEW r \in Registries, Abort(r)
      PROVE  TypeOK'
  BY <1>5, <1>9 DEF Abort
<1>10. CASE UNCHANGED vars
  BY <1>10 DEF vars
<1> QED
  BY <1>1, <1>2, <1>3, <1>4, <1>6, <1>7, <1>8, <1>9, <1>10 DEF Next

-------------------------------------------------------------------------------
(* The steps that move no worker: all but the commit of an assignment *)

\* Given places are only given up.
Shrinks ==
    \A w \in Workers :
       w \in Assigned' => place'[w] = NoPlace \/ (w \in Assigned /\ place'[w] = place[w])

\* An operation that ends leaves every other one as it was.
LEMMA FinishFacts ==
    ASSUME TypeOK, NEW r \in Registries, Finish(r)
    PROVE  \A q \in Registries :
              /\ Assigning(q)' => q # r /\ Assigning(q)
              /\ q # r => target'[q] = target[q] /\ used'[q] = used[q] /\ since'[q] = since[q]
              /\ since'[q] = since[q] \/ since'[q] = 0
BY DEF TypeOK, Finish, Assigning

LEMMA Unmoved ==
    ASSUME IInv, [Next]_vars, \A r \in Registries : ~AssignCommit(r)
    PROVE  Shrinks /\ station' = station /\ known \subseteq known'
<1>0. TypeOK /\ \A v \in Workers \ known : place[v] = NoPlace
  BY DEF IInv
<1> USE DEF TypeOK, rows, local, Shrinks, Assigned
<1>1. CASE Tick
  BY <1>0, <1>1 DEF Tick
<1>2. ASSUME NEW r \in Registries, NEW w \in Workers, NEW s \in Sent, NEW p \in Claims,
             NEW t \in 0..now, Heartbeat(r, w, s, p, t)
      PROVE  Shrinks /\ station' = station /\ known \subseteq known'
  BY <1>0, <1>2 DEF Heartbeat
<1>3. ASSUME NEW r \in Registries, NEW w \in Workers, NEW s \in Stations, AssignRead(r, s, w)
      PROVE  Shrinks /\ station' = station /\ known \subseteq known'
  BY <1>0, <1>3 DEF AssignRead
<1>4. ASSUME NEW r \in Registries, NEW w \in Workers, Unassign(r, w)
      PROVE  Shrinks /\ station' = station /\ known \subseteq known'
  BY <1>0, <1>4 DEF Unassign
<1>5. ASSUME NEW r \in Registries, DetectRead(r) \/ DetectMark(r) \/ Abort(r)
      PROVE  Shrinks /\ station' = station /\ known \subseteq known'
  BY <1>0, <1>5 DEF DetectRead, DetectMark, Abort
<1>6. CASE UNCHANGED vars
  BY <1>0, <1>6 DEF vars
<1> QED BY <1>1, <1>2, <1>3, <1>4, <1>5, <1>6 DEF Next

\* A slot shared after such a step was shared before it.
LEMMA UnmovedSlots ==
    ASSUME IInv, TypeOK', Shrinks, station' = station
    PROVE  /\ OneAtATime => NoSlotShared'
           /\ AssignedStationIsActive'
           /\ \A s \in Stations : GivenSlots(s)' \subseteq GivenSlots(s)
<1>1. \A w \in Assigned' : place'[w] # NoPlace => w \in Assigned /\ place'[w] = place[w]
  BY DEF Shrinks, Assigned, TypeOK
<1>2. OneAtATime => NoSlotShared'
  BY <1>1 DEF IInv, NoSlotShared
<1>3. AssignedStationIsActive'
  BY <1>1 DEF IInv, AssignedStationIsActive
<1>4. ASSUME NEW s \in Stations PROVE GivenSlots(s)' \subseteq GivenSlots(s)
  BY <1>1, PlaceFacts DEF GivenSlots
<1> QED BY <1>2, <1>3, <1>4

\* A worker without a row has no place.
LEMMA UnknownStep ==
    ASSUME IInv, TypeOK', [Next]_vars, \A r \in Registries : ~AssignCommit(r)
    PROVE  \A w \in Workers \ known' : place'[w] = NoPlace
<1> DEFINE Unknown == \A w \in Workers \ known : place[w] = NoPlace
<1>0. Unknown /\ TypeOK
  BY DEF IInv
<1> USE DEF TypeOK, rows
<1>1. ASSUME NEW r \in Registries, NEW w \in Workers, NEW s \in Sent, NEW p \in Claims,
             NEW t \in 0..now, Heartbeat(r, w, s, p, t)
      PROVE  Unknown'
  BY <1>0, <1>1 DEF Heartbeat
<1>2. ASSUME NEW r \in Registries, NEW w \in Workers, Unassign(r, w)
      PROVE  Unknown'
  BY <1>0, <1>2 DEF Unassign
<1>3. ASSUME UNCHANGED <<known, place>> PROVE Unknown'
  BY <1>0, <1>3
<1>4. ASSUME NEW r \in Registries,
             \/ \E w \in Workers, s \in Stations : AssignRead(r, s, w)
             \/ DetectRead(r) \/ DetectMark(r) \/ Abort(r)
      PROVE  Unknown'
  BY <1>3, <1>4 DEF AssignRead, DetectRead, DetectMark, Abort
<1>5. CASE Tick \/ UNCHANGED vars
  BY <1>3, <1>5 DEF Tick, vars
<1> QED BY <1>1, <1>2, <1>4, <1>5 DEF Next

\* While no assignment starts or commits, those under way keep what they read.
LEMMA UnmovedAssign ==
    ASSUME IInv, TypeOK', [Next]_vars, \A r \in Registries : ~AssignCommit(r),
           \A s \in Stations : GivenSlots(s)' \subseteq GivenSlots(s)
    PROVE  AssignInv'
<1> DEFINE Kept == \A q \in Registries : Assigning(q)' =>
                      Assigning(q) /\ target'[q] = target[q] /\ used'[q] = used[q]
<1>0. ASSUME Kept PROVE AssignInv'
  BY <1>0 DEF IInv, AssignInv
<1> USE DEF TypeOK, rows, local, Assigning
<1>1. CASE Tick
  BY <1>0, <1>1 DEF Tick
<1>2. ASSUME NEW r \in Registries, NEW w \in Workers, NEW s \in Sent, NEW p \in Claims,
             NEW t \in 0..now, Heartbeat(r, w, s, p, t)
      PROVE  AssignInv'
  BY <1>0, <1>2 DEF Heartbeat
<1>3. ASSUME NEW r \in Registries, NEW w \in Workers, NEW s \in Stations, AssignRead(r, s, w)
      PROVE  AssignInv'
  <2>1. /\ target'[r] = [station |-> s, worker |-> w] /\ used'[r] = UsedSlots(s)
        /\ \A q \in Registries : q # r => /\ Assigning(q)' => Assigning(q)
                                          /\ target'[q] = target[q] /\ used'[q] = used[q]
    BY <1>3 DEF AssignRead, IInv
  <2>2. OneAtATime => \A q \in Registries : ~Assigning(q)
    BY <1>3 DEF AssignRead
  <2>3. target'[r].station = s /\ GivenSlots(s) \subseteq UsedSlots(s)
    BY <2>1 DEF GivenSlots, UsedSlots, Assigned
  <2> QED BY <2>1, <2>2, <2>3 DEF AssignInv, IInv
<1>4. ASSUME NEW r \in Registries, NEW w \in Workers, Unassign(r, w)
      PROVE  AssignInv'
  BY <1>0, <1>4 DEF Unassign
<1>5. ASSUME NEW r \in Registries, DetectRead(r)
      PROVE  AssignInv'
  BY <1>0, <1>5 DEF DetectRead, IInv
<1>6. ASSUME NEW r \in Registries, DetectMark(r) \/ Abort(r)
      PROVE  AssignInv'
  <2>1. Finish(r)
    BY <1>6 DEF DetectMark, Abort
  <2>2. TypeOK
    BY DEF IInv
  <2> HIDE DEF Assigning, TypeOK
  <2> QED BY <1>0, <2>1, <2>2, FinishFacts
<1>7. CASE UNCHANGED vars
  BY <1>0, <1>7 DEF vars
<1> QED BY <1>1, <1>2, <1>3, <1>4, <1>5, <1>6, <1>7 DEF Next

-------------------------------------------------------------------------------
(* The commit of an assignment *)

\* The worker, if it has a row, moves to a slot the assignment did not find in use; nothing
\* else moves, and the station opens.
LEMMA CommitFacts ==
    ASSUME IInv, NEW r \in Registries, AssignCommit(r)
    PROVE  /\ target[r].station \in Stations
           /\ known' = known /\ announced' = announced \ {target[r].worker}
           /\ station' = [station EXCEPT ![target[r].station] = "active"]
           /\ \A v \in Workers :
                 IF v \in known /\ v = target[r].worker
                   THEN place'[v].station = target[r].station /\ place'[v].slot \notin used[r]
                   ELSE place'[v] = place[v]
<1>1. target[r] \in [station: Stations, worker: Workers]
  BY DEF IInv, AssignInv, Assigning, AssignCommit
<1>2. PICK n \in Slots :
         /\ n \notin used[r]
         /\ place' = IF target[r].worker \in known
                       THEN [place EXCEPT ![target[r].worker] =
                                            [station |-> target[r].station, slot |-> n]]
                       ELSE place
  BY DEF AssignCommit, FirstFree
<1> QED BY <1>1, <1>2, PlaceFacts DEF IInv, TypeOK, AssignCommit

LEMMA CommitSlots ==
    ASSUME IInv, NEW r \in Registries, AssignCommit(r), OneAtATime
    PROVE  NoSlotShared'
<1> DEFINE s == target[r].station
           Old(v) == v \in Assigned /\ place'[v] = place[v]
           New(v) == v = target[r].worker /\ place'[v].station = s /\ place'[v].slot \notin used[r]
<1>1. \A v \in Assigned' : Old(v) \/ New(v)
  BY CommitFacts DEF IInv, TypeOK, Assigned
<1>2. GivenSlots(s) \subseteq used[r]
  BY DEF IInv, AssignInv, Assigning, AssignCommit
<1>3. \A v \in Assigned : place[v].station = s => place[v].slot \in used[r]
  BY <1>2 DEF GivenSlots
<1>4. NoSlotShared
  BY DEF IInv
<1>5. ASSUME NEW v \in Assigned', NEW w \in Assigned', v # w, place'[v] # NoPlace
      PROVE  place'[v] # place'[w]
  <2>1. CASE Old(v) /\ Old(w)
    BY <1>4, <1>5, <2>1 DEF NoSlotShared
  <2>2. CASE New(v) /\ Old(w)
    BY <1>3, <2>2
  <2>3. CASE Old(v) /\ New(w)
    BY <1>3, <2>3
  <2> QED BY <1>1, <1>5, <2>1, <2>2, <2>3
<1> QED BY <1>1, <1>5 DEF NoSlotShared

LEMMA CommitAssign ==
    ASSUME IInv, TypeOK', NEW r \in Registries, AssignCommit(r)
    PROVE  AssignInv'
<1>1. TypeOK /\ AssignInv /\ Finish(r) /\ Assigning(r)
  BY DEF IInv, AssignCommit, Assigning
<1>2. \A q \in Registries : Assigning(q)' => q # r /\ Assigning(q) /\ target'[q] = target[q]
  BY <1>1, FinishFacts
<1>3. OneAtATime => \A q \in Registries : ~Assigning(q)'
  BY <1>1, <1>2 DEF AssignInv
<1> QED BY <1>1, <1>2, <1>3 DEF AssignInv

LEMMA CommitStations ==
    ASSUME IInv, NEW r \in Registries, AssignCommit(r)
    PROVE  AssignedStationIsActive'
<1> DEFINE s == target[r].station
<1>1. /\ s \in Stations
      /\ station' = [station EXCEPT ![s] = "active"]
      /\ \A v \in Assigned' : (v \in Assigned /\ place'[v] = place[v]) \/ place'[v].station = s
  BY CommitFacts DEF IInv, TypeOK, Assigned
<1>2. /\ Assigned \subseteq Workers /\ station \in [Stations -> {"idle", "active"}]
      /\ place \in [Workers -> Places \union {NoPlace}]
      /\ AssignedStationIsActive
  BY DEF IInv, TypeOK, Assigned
<1> HIDE DEF s
<1>3. ASSUME NEW v \in Assigned', place'[v] # NoPlace
      PROVE  station'[place'[v].station] = "active"
  <2>1. CASE place'[v].station = s
    BY <1>1, <1>2, <2>1
  <2>2. CASE v \in Assigned /\ place'[v] = place[v]
    <3>1. place[v] \in Places /\ place[v].station \in Stations
      BY <1>2, <1>3, <2>2 DEF Places
    <3>2. station[place[v].station] = "active"
      BY <1>2, <1>3, <2>2 DEF AssignedStationIsActive
    <3> QED BY <1>1, <1>2, <2>2, <3>1, <3>2
  <2> QED BY <1>1, <2>1, <2>2
<1> QED BY <1>3 DEF AssignedStationIsActive

-------------------------------------------------------------------------------
(* The inductive invariant *)

\* A detection in progress took its cutoff in the past.
LEMMA SinceStep ==
    ASSUME IInv, TypeOK', [Next]_vars
    PROVE  \A r \in Registries : since'[r] <= now'
<1>1. TypeOK /\ \A r \in Registries : since[r] <= now
  BY DEF IInv
<1>2. ASSUME NEW r \in Registries, Finish(r), now' = now
      PROVE  \A q \in Registries : since'[q] <= now'
  BY <1>1, <1>2, FinishFacts DEF TypeOK
<1> USE DEF TypeOK, rows, local
<1>3. CASE Tick
  BY <1>1, <1>3 DEF Tick
<1>4. ASSUME NEW r \in Registries,
             \E w \in Workers :
                \/ \E s \in Sent, p \in Claims, t \in 0..now : Heartbeat(r, w, s, p, t)
                \/ \E s \in Stations : AssignRead(r, s, w)
                \/ Unassign(r, w)
      PROVE  \A q \in Registries : since'[q] <= now'
  BY <1>1, <1>4 DEF Heartbeat, AssignRead, Unassign
<1>5. ASSUME NEW r \in Registries, AssignCommit(r) \/ DetectMark(r) \/ Abort(r)
      PROVE  \A q \in Registries : since'[q] <= now'
  BY <1>2, <1>5 DEF AssignCommit, DetectMark, Abort
<1>6. ASSUME NEW r \in Registries, DetectRead(r)
      PROVE  \A q \in Registries : since'[q] <= now'
  BY <1>1, <1>6 DEF DetectRead
<1>7. CASE UNCHANGED vars
  BY <1>1, <1>7 DEF vars
<1> QED BY <1>3, <1>4, <1>5, <1>6, <1>7 DEF Next

LEMMA IInvInit == Init => IInv
<1> SUFFICES ASSUME Init PROVE IInv
  OBVIOUS
<1>1. TypeOK
  BY TypeInit
<1>2. AssignInv
  BY DEF Init, AssignInv, Assigning
<1>3. NoSlotShared /\ AssignedStationIsActive
  BY DEF Init, NoSlotShared, AssignedStationIsActive, Assigned
<1> QED BY <1>1, <1>2, <1>3 DEF Init, IInv

LEMMA IInvStep == IInv /\ [Next]_vars => IInv'
<1> SUFFICES ASSUME IInv, [Next]_vars PROVE IInv'
  OBVIOUS
<1>1. TypeOK'
  BY TypeStep DEF IInv
<1>2. \A r \in Registries : since'[r] <= now'
  BY <1>1, SinceStep
<1>3. CASE \A r \in Registries : ~AssignCommit(r)
  <2>1. Shrinks /\ station' = station /\ known \subseteq known'
    BY <1>3, Unmoved
  <2>2. /\ OneAtATime => NoSlotShared'
        /\ AssignedStationIsActive'
        /\ \A s \in Stations : GivenSlots(s)' \subseteq GivenSlots(s)
    BY <1>1, <2>1, UnmovedSlots
  <2>3. AssignInv'
    BY <1>1, <1>3, <2>2, UnmovedAssign
  <2>4. \A w \in Workers \ known' : place'[w] = NoPlace
    BY <1>1, <1>3, UnknownStep
  <2> QED BY <1>1, <1>2, <2>2, <2>3, <2>4 DEF IInv
<1>4. ASSUME NEW r \in Registries, AssignCommit(r) PROVE IInv'
  <2>1. \A w \in Workers \ known' : place'[w] = NoPlace
    BY <1>4, CommitFacts DEF IInv
  <2>2. (OneAtATime => NoSlotShared') /\ AssignedStationIsActive'
    BY <1>4, CommitSlots, CommitStations
  <2> QED BY <1>1, <1>2, <1>4, <2>1, <2>2, CommitAssign DEF IInv
<1> QED BY <1>3, <1>4

\* The registry keeps its inductive invariant.
THEOREM Inductive == Spec => []IInv
BY IInvInit, IInvStep, PTL DEF Spec

\* Every table and every local variable keeps its type.
THEOREM TypeCorrect == Spec => []TypeOK
<1>1. IInv => TypeOK
  BY DEF IInv
<1> QED BY <1>1, Inductive, PTL

\* While the operators run one assign command at a time, no two workers were given the same
\* slot, however many processes run listeners and crash detectors, and whatever places new
\* workers announce.
THEOREM SlotsAreExclusive == OneAtATime /\ Spec => []NoSlotShared
<1> SUFFICES ASSUME OneAtATime PROVE Spec => []NoSlotShared
  OBVIOUS
<1>1. IInv => NoSlotShared
  BY DEF IInv
<1> QED BY <1>1, Inductive, PTL

\* A step that moves a worker leaves its place, takes one that no worker was given, or is the
\* first heartbeat of a worker that announces one.
LEMMA AllocationStep ==
    ASSUME IInv, OneAtATime, [Next]_vars
    PROVE  [Allocation!Next]_<<place, announced>>
<1>0. TypeOK /\ \A v \in Workers \ known : place[v] = NoPlace
  BY DEF IInv
<1> USE DEF TypeOK, rows, local
<1>1. ASSUME NEW r \in Registries, NEW w \in Workers, NEW s \in Sent, NEW p \in Claims,
             NEW t \in 0..now, Heartbeat(r, w, s, p, t)
      PROVE  UNCHANGED <<place, announced>> \/ \E c \in Places : Allocation!Announce(w, c)
  <2>1. CASE w \in known \/ p = NoPlace
    BY <1>0, <1>1, <2>1 DEF Heartbeat
  <2>2. CASE w \notin known /\ p # NoPlace
    <3>1. p \in Places
      BY <2>2, ClaimsAssumption
    <3> QED BY <1>0, <1>1, <2>2, <3>1 DEF Heartbeat, Allocation!Announce
  <2> QED BY <2>1, <2>2
<1>2. ASSUME NEW r \in Registries, NEW w \in Workers, Unassign(r, w)
      PROVE  Allocation!Leave(w)
  BY <1>2 DEF Unassign, Allocation!Leave
<1>3. ASSUME NEW r \in Registries, AssignCommit(r)
      PROVE  UNCHANGED <<place, announced>> \/ \E w \in Workers, p \in Places : Allocation!Take(w, p)
  <2> DEFINE w == target[r].worker
             s == target[r].station
  <2>1. w \in Workers /\ s \in Stations /\ GivenSlots(s) \subseteq used[r]
    BY <1>3 DEF IInv, AssignInv, Assigning, AssignCommit
  <2>2. PICK n \in Slots :
           /\ n \notin used[r]
           /\ place' = IF w \in known THEN [place EXCEPT ![w] = [station |-> s, slot |-> n]] ELSE place
           /\ announced' = announced \ {w}
    BY <1>3 DEF AssignCommit, FirstFree
  <2> DEFINE p == [station |-> s, slot |-> n]
  <2>3. p \in Places /\ p # NoPlace
    BY <2>1, PlaceFacts
  <2>4. Allocation!Free(p)
    <3>1. ASSUME NEW v \in Workers \ announced, place[v] = p PROVE FALSE
      <4>1. v \in Assigned /\ place[v].station = s /\ place[v].slot = n
        BY <1>0, <2>1, <2>3, <3>1, PlaceFacts DEF Assigned
      <4>2. n \in GivenSlots(s)
        BY <4>1 DEF GivenSlots
      <4> QED BY <2>1, <2>2, <4>2
    <3> QED BY <3>1 DEF Allocation!Free
  <2>5. w \notin known => w \notin announced
    BY <1>0
  <2> HIDE DEF w, p
  <2> QED BY <2>1, <2>2, <2>3, <2>4, <2>5 DEF Allocation!Take, p
<1>4. ASSUME NEW r \in Registries,
             \/ \E w \in Workers, s \in Stations : AssignRead(r, s, w)
             \/ DetectRead(r) \/ DetectMark(r) \/ Abort(r)
      PROVE  UNCHANGED <<place, announced>>
  BY <1>4 DEF AssignRead, DetectRead, DetectMark, Abort
<1>5. CASE Tick \/ UNCHANGED vars
  BY <1>5 DEF Tick, vars
<1> QED BY <1>1, <1>2, <1>3, <1>4, <1>5 DEF Next, Allocation!Next

\* While the operators run one assign command at a time, the registry implements
\* SlotAllocation, although an assignment reads in one step and writes in another.
THEOREM AllocatesSlots == OneAtATime /\ Spec => AllocationSpec
<1> SUFFICES ASSUME OneAtATime PROVE Spec => AllocationSpec
  OBVIOUS
<1>1. Init => Allocation!Init
  BY DEF Init, Allocation!Init
<1>2. IInv /\ [Next]_vars => [Allocation!Next]_<<place, announced>>
  BY AllocationStep
<1> QED BY <1>1, <1>2, Inductive, PTL DEF Spec, AllocationSpec, Allocation!Spec, Allocation!allocationVars

\* The station of a worker that operators placed is active, with any number of assign commands
\* at once.
THEOREM AssignedStationsAreActive == Spec => []AssignedStationIsActive
<1>1. IInv => AssignedStationIsActive
  BY DEF IInv
<1> QED BY <1>1, Inductive, PTL

-------------------------------------------------------------------------------
(* Action properties *)

\* Only the crash detector declares a worker crashed, and at that moment the worker's last
\* heartbeat is older than the timeout.
THEOREM MarkedAreSilent == Spec => OnlySilentAreMarked
<1> DEFINE Marked == \A w \in Workers :
                        status[w] # "crashed" /\ status'[w] = "crashed" => Silent(w, now)
<1>1. ASSUME IInv, [Next]_vars PROVE [Marked]_vars
  <2> USE DEF IInv, TypeOK, rows
  <2>1. ASSUME NEW r \in Registries, DetectMark(r) PROVE Marked
    <3>1. ASSUME NEW w \in Lost(since[r]) PROVE Silent(w, now)
      <4>1. since[r] \in Nat /\ now \in Nat /\ since[r] <= now
        BY <1>1
      <4>2. beat[w] \in Nat /\ beat[w] + Timeout < since[r]
        BY <1>1 DEF Lost, Silent
      <4> HIDE DEF IInv, TypeOK
      <4> QED BY <4>1, <4>2, TimeAssumption DEF Silent
    <3> QED BY <2>1, <3>1 DEF DetectMark
  <2>2. ASSUME NEW r \in Registries, AssignCommit(r) PROVE Marked
    BY <2>2 DEF AssignCommit
  <2>3. ASSUME NEW r \in Registries, NEW w \in Workers,
               \/ \E s \in Sent, p \in Claims, t \in 0..now : Heartbeat(r, w, s, p, t)
               \/ Unassign(r, w)
        PROVE  Marked
    <3>1. PICK s \in Sent \union {"sleeping"} : status' = [status EXCEPT ![w] = s]
      BY <2>3 DEF Heartbeat, Unassign
    <3>2. s # "crashed"
      BY SentAssumption DEF Live
    <3>3. \A v \in Workers : status'[v] = status[v] \/ status'[v] = s
      BY <3>1
    <3> QED BY <3>2, <3>3
  <2>4. ASSUME NEW r \in Registries, DetectRead(r) \/ Abort(r)
                  \/ \E w \in Workers, s \in Stations : AssignRead(r, s, w)
        PROVE  Marked
    BY <2>4 DEF DetectRead, Abort, AssignRead
  <2>5. CASE Tick
    BY <2>5 DEF Tick
  <2> QED BY <1>1, <2>1, <2>2, <2>3, <2>4, <2>5 DEF Next
<1>2. IInv /\ [Next]_vars => [Marked]_vars
  BY <1>1
<1> QED BY <1>2, Inductive, PTL DEF Spec, OnlySilentAreMarked

\* A worker's slot changes only by an unassignment of it or by an assignment of it.
THEOREM SlotsSurvive == Spec => SlotSurvivesCrash
<1> DEFINE Kept == \A w \in known :
                      place'[w] # place[w] =>
                         \E r \in Registries :
                            Unassign(r, w) \/ (AssignCommit(r) /\ target[r].worker = w)
<1>1. ASSUME IInv, [Next]_vars PROVE [Kept]_vars
  <2> USE DEF IInv, TypeOK, rows
  <2>1. ASSUME NEW r \in Registries, AssignCommit(r) PROVE Kept
    <3>1. known \subseteq Workers
      BY <1>1
    <3> HIDE DEF IInv, TypeOK, rows
    <3>2. \A w \in Workers : place'[w] = place[w] \/ w = target[r].worker
      BY <1>1, <2>1, CommitFacts
    <3> QED BY <2>1, <3>1, <3>2
  <2>2. ASSUME NEW r \in Registries, NEW w \in Workers, Unassign(r, w) PROVE Kept
    <3>1. \A v \in known : v # w => place'[v] = place[v]
      BY <2>2 DEF Unassign
    <3> QED BY <2>2, <3>1
  <2>3. ASSUME NEW r \in Registries, NEW w \in Workers,
               \/ \E s \in Sent, p \in Claims, t \in 0..now : Heartbeat(r, w, s, p, t)
               \/ \E s \in Stations : AssignRead(r, s, w)
        PROVE  Kept
    <3>1. place \in [Workers -> Places \union {NoPlace}] /\ known \subseteq Workers
      BY <1>1
    <3> HIDE DEF IInv, TypeOK, rows
    <3>2. \A v \in known : place'[v] = place[v]
      BY <2>3, <3>1 DEF Heartbeat, AssignRead, rows
    <3> QED BY <3>2
  <2>4. ASSUME NEW r \in Registries, DetectRead(r) \/ DetectMark(r) \/ Abort(r) PROVE Kept
    BY <2>4 DEF DetectRead, DetectMark, Abort
  <2>5. CASE Tick
    BY <2>5 DEF Tick
  <2> QED BY <1>1, <2>1, <2>2, <2>3, <2>4, <2>5 DEF Next
<1>2. IInv /\ [Next]_vars => [Kept]_vars
  BY <1>1
<1> QED BY <1>2, Inductive, PTL DEF Spec, SlotSurvivesCrash
===============================================================================
