----------------------------- MODULE FloorProofs -----------------------------
(***************************************************************************)
(* Theorems about routers, maintenance calls and plugin managers, for every *)
(* number of them, every list of defects, every phase and every version.   *)
(* The three keep their variables to themselves, so each has an invariant   *)
(* of its own.                                                             *)
(***************************************************************************)
EXTENDS Floor, SequenceTheorems, TLAPS

-------------------------------------------------------------------------------
(* The maintenance API *)

MaintenanceCalls ==
    [at: {"check", "update", "log"}, op: Operations, pair: Pairs, phase: Phases \union {NoPhase}]

\* A call that is to update has a valid phase to set, or releases.
CallInv ==
    \A c \in Callers :
        \/ call[c] = NoCall
        \/ /\ call[c] \in MaintenanceCalls
           /\ call[c].op = "phase" => call[c].phase \in ValidPhases
           /\ call[c].at = "update" => call[c].op \in {"phase", "release"}

MInv ==
    /\ pairState \in [Pairs -> PairStates]
    /\ DOMAIN pairPhase = Pairs
    /\ DOMAIN call = Callers
    /\ CallInv
    /\ PhaseOnlyInMaintenance

LEMMA MInit == ASSUME Init PROVE MInv
  BY DEF Init, MaintenanceInit, MInv, CallInv, PhaseOnlyInMaintenance

\* One step of a call.
LEMMA MCall ==
    ASSUME MInv, NEW c \in Callers, CallStep(c)
    PROVE  MInv'
  <1> USE DEF MInv, CallInv, PhaseOnlyInMaintenance, MaintenanceCalls, Proceed
  <1>1. ASSUME NEW operation \in Operations, NEW p \in Pairs, NEW ph \in Phases \union {NoPhase},
               Call(c, operation, p, ph)
        PROVE  MInv'
    BY <1>1 DEF Call
  <1>2. CASE RequireMaintenance(c)  BY <1>2 DEF RequireMaintenance, Return, NoCall
  <1>3. CASE Update(c)
    <2> DEFINE p == call[c].pair
    <2>1. call[c] \in MaintenanceCalls /\ call[c].op \in {"phase", "release"} /\ p \in Pairs
      BY <1>3 DEF Update, NoCall
    <2>2. call' = [call EXCEPT ![c].at = "log"]  BY <1>3 DEF Update
    <2>3. DOMAIN call' = Callers /\ CallInv'
      <3>1. call[c].op = "phase" => call[c].phase \in ValidPhases
        BY <1>3, <2>1 DEF Update, NoCall
      <3>2. /\ call'[c] \in MaintenanceCalls /\ call'[c].at = "log"
            /\ call'[c].op = call[c].op /\ call'[c].phase = call[c].phase
        BY <2>1, <2>2
      <3>3. \A d \in Callers \ {c} : call'[d] = call[d]  BY <2>2
      <3>4. CallInv'  BY <3>1, <3>2, <3>3
      <3> QED  BY <2>2, <3>4
    <2>4. CASE UNCHANGED <<pairState, pairPhase>>  BY <2>3, <2>4
    <2>5. CASE /\ pairState[p] = "maintenance" /\ call[c].op = "phase"
               /\ pairPhase' = [pairPhase EXCEPT ![p] = call[c].phase] /\ UNCHANGED pairState
      <3>1. call[c].phase \in ValidPhases  BY <2>1, <2>5, <1>3 DEF Update, NoCall
      <3> QED  BY <2>1, <2>3, <2>5, <3>1
    <2>6. CASE /\ pairState' = [pairState EXCEPT ![p] = "sleep"]
               /\ pairPhase' = [pairPhase EXCEPT ![p] = NoPhase]
      BY <2>1, <2>3, <2>6 DEF PairStates
    <2> QED  BY <1>3, <2>1, <2>4, <2>5, <2>6 DEF Update
  <1>4. CASE UpdateFails(c) \/ LogCall(c)  BY <1>4 DEF UpdateFails, LogCall, Return, NoCall
  <1> QED  BY <1>1, <1>2, <1>3, <1>4 DEF CallStep

LEMMA MStep == ASSUME MInv, [Next]_vars PROVE MInv'
  <1>1. CASE UNCHANGED maintenanceVars
    BY <1>1 DEF MInv, CallInv, PhaseOnlyInMaintenance, maintenanceVars
  <1>2. ASSUME NEW p \in Pairs, NEW to \in PairStates, Reassign(p, to) PROVE MInv'
    BY <1>2 DEF MInv, CallInv, PhaseOnlyInMaintenance, Reassign
  <1>3. CASE MaintenanceNext  BY <1>2, <1>3, MCall DEF MaintenanceNext
  <1> QED  BY <1>1, <1>3 DEF Next, vars

\* A pair that is not in maintenance has no phase, and one that is has none or a valid one,
\* however the checks and updates of calls fall between each other and what others do.
THEOREM PhasesNeedMaintenance == Spec => []PhaseOnlyInMaintenance
  <1>1. MInv => PhaseOnlyInMaintenance  BY DEF MInv
  <1> QED  BY <1>1, MInit, MStep, PTL DEF Spec

-------------------------------------------------------------------------------
(* The routers and the ledger *)

Messages == Signals \union Artifacts \union Tickets

RouterTypeOK ==
    /\ inbox \in [Routers -> [1..3 -> Seq(Messages)]]
    /\ handling \in [Routers -> {"idle", "publish", "record"}]
    /\ adapter \in [Artifacts -> {"idle", "published", "failed", "done"}]

\* What waits to be handled was raised, and handleAndon has the halt it works on.
InboxInv ==
    \A r \in Routers :
        /\ \A i \in 1..Len(inbox[r][1]) : inbox[r][1][i] \in DOMAIN defects
        /\ handling[r] # "idle" => inbox[r][1] # <<>>

\* The answer to the halt of r is out.
Out(r) ==
    \E m \in sent :
        /\ m.kind = IF Fixable(Violation(r)) THEN "fix" ELSE "alert"
        /\ m.router = r /\ m.signal = Current(r)

RecordInv == \A r \in Routers : handling[r] = "record" => Out(r)

LedgerInv ==
    /\ \A e \in ledger : e.type = "repo_commit" => e.about \in Artifacts
    /\ LedgerTellsTruth

RInv == RouterTypeOK /\ InboxInv /\ RecordInv /\ LedgerInv

LEMMA ThreeTopics == Len(Topics) = 3
  BY DEF Topics

LEMMA RInit == ASSUME Init PROVE RInv
  BY ThreeTopics DEF Init, RouterInit, RInv, RouterTypeOK, InboxInv, RecordInv, LedgerInv, LedgerTellsTruth,
     Silent

\* An entry says what is so, and nothing it says is undone.
LEMMA LedgerKept ==
    ASSUME LedgerInv, NEW event, ledger' = ledger \/ ledger' = ledger \union {event},
           sent \subseteq sent',
           \A a \in Artifacts : adapter[a] = "done" => adapter'[a] = "done",
           event.type = "fix_routed" =>
              \E m \in sent : m.kind = "fix" /\ m.router = event.router /\ m.signal = event.about,
           event.type = "human_alert" =>
              \E m \in sent : m.kind = "alert" /\ m.router = event.router /\ m.signal = event.about,
           event.type = "repo_commit" => event.about \in Artifacts /\ adapter'[event.about] = "done"
    PROVE  LedgerInv'
  BY DEF LedgerInv, LedgerTellsTruth

\* Entries of the other kinds say nothing of the sort.
LEMMA OtherEntry ==
    ASSUME LedgerInv, NEW type \in {"andon_cord", "repo_confirm", "ticket_submitted"}, NEW r, NEW about,
           Log(Event(type, r, about)), UNCHANGED <<sent, adapter>>
    PROVE  LedgerInv'
  <1> DEFINE e == Event(type, r, about)
  <1>1. ledger' = ledger \/ ledger' = ledger \union {e}  BY DEF Log
  <1>2. e.type \notin {"fix_routed", "human_alert", "repo_commit"}  BY DEF Event
  <1> HIDE DEF e
  <1> QED  BY <1>1, <1>2, LedgerKept

\* What r is to record stays out, as long as the halt it works on is the same.
LEMMA OutKept ==
    ASSUME NEW r \in Routers, Out(r), sent \subseteq sent',
           Head(inbox'[r][1]) = Head(inbox[r][1]),
           defects'[Head(inbox[r][1])] = defects[Head(inbox[r][1])]
    PROVE  Out(r)'
  <1>1. Current(r)' = Current(r) /\ Violation(r)' = Violation(r)
    BY DEF Current, Violation
  <1> QED  BY <1>1 DEF Out

LEMMA HeadWaits ==
    ASSUME RInv, NEW r \in Routers, handling[r] # "idle"
    PROVE  Head(inbox[r][1]) \in DOMAIN defects /\ inbox[r][1] \in Seq(Messages) /\ inbox[r][1] # <<>>
  <1>1. inbox[r][1] \in Seq(Messages) /\ inbox[r][1] # <<>>
    BY DEF RInv, RouterTypeOK, InboxInv
  <1>2. 1 \in 1..Len(inbox[r][1]) /\ Head(inbox[r][1]) = inbox[r][1][1]  BY <1>1
  <1> QED  BY <1>1, <1>2 DEF RInv, InboxInv

\* A message is delivered, and the heads of the queues stay.
LEMMA Delivery ==
    ASSUME RInv, NEW t \in 1..3, NEW m \in Messages, Deliver(t, m),
           UNCHANGED <<handling, sent>>,
           DOMAIN defects \subseteq DOMAIN defects',
           \A s \in DOMAIN defects : defects'[s] = defects[s],
           t = 1 => m \in DOMAIN defects'
    PROVE  /\ inbox' \in [Routers -> [1..3 -> Seq(Messages)]]
           /\ InboxInv' /\ RecordInv'
  <1>1. ASSUME NEW r \in Routers
        PROVE  /\ inbox'[r] \in [1..3 -> Seq(Messages)]
               /\ inbox'[r][1] = inbox[r][1] \/ (t = 1 /\ inbox'[r][1] = Append(inbox[r][1], m))
    <2>1. inbox[r] \in [1..3 -> Seq(Messages)]  BY DEF RInv, RouterTypeOK
    <2>2. inbox'[r] = inbox[r] \/ inbox'[r] = [inbox[r] EXCEPT ![t] = Append(@, m)]
      BY <1>1 DEF Deliver
    <2>3. Append(inbox[r][t], m) \in Seq(Messages)  BY <2>1
    <2>4. CASE inbox'[r] = inbox[r]  BY <2>1, <2>4
    <2>5. CASE inbox'[r] = [inbox[r] EXCEPT ![t] = Append(@, m)]
      <3>1. inbox'[r] \in [1..3 -> Seq(Messages)]  BY <2>1, <2>3, <2>5
      <3>2. CASE t = 1  BY <2>1, <2>5, <3>1, <3>2
      <3>3. CASE t # 1  BY <2>1, <2>5, <3>1, <3>3
      <3> QED  BY <3>2, <3>3
    <2> QED  BY <2>2, <2>4, <2>5
  <1>2. inbox' \in [Routers -> [1..3 -> Seq(Messages)]]  BY <1>1 DEF Deliver
  <1>3. ASSUME NEW r \in Routers
        PROVE  /\ \A i \in 1..Len(inbox'[r][1]) : inbox'[r][1][i] \in DOMAIN defects'
               /\ inbox[r][1] # <<>> => inbox'[r][1] # <<>> /\ Head(inbox'[r][1]) = Head(inbox[r][1])
    <2>1. inbox[r][1] \in Seq(Messages)  BY DEF RInv, RouterTypeOK
    <2>2. \A i \in 1..Len(inbox[r][1]) : inbox[r][1][i] \in DOMAIN defects'
      BY DEF RInv, InboxInv
    <2>3. CASE inbox'[r][1] = inbox[r][1]  BY <2>2, <2>3
    <2>4. CASE t = 1 /\ inbox'[r][1] = Append(inbox[r][1], m)
      BY <2>1, <2>2, <2>4
    <2> QED  BY <1>1, <2>3, <2>4
  <1>4. InboxInv'  BY <1>3 DEF RInv, InboxInv
  <1>5. RecordInv'
    <2>1. SUFFICES ASSUME NEW r \in Routers, handling[r] = "record" PROVE Out(r)'
      BY DEF RecordInv
    <2>2. Head(inbox[r][1]) \in DOMAIN defects /\ inbox[r][1] # <<>>  BY <2>1, HeadWaits
    <2>3. Out(r)  BY <2>1 DEF RInv, RecordInv
    <2> QED  BY <1>3, <2>2, <2>3, OutKept
  <1> QED  BY <1>2, <1>4, <1>5

\* The halt is done with.
LEMMA HaltTaken ==
    ASSUME RInv, NEW r \in Routers, inbox[r][1] # <<>>, Taken(r, 1),
           handling' = [handling EXCEPT ![r] = "idle"],
           sent \subseteq sent', UNCHANGED defects
    PROVE  /\ inbox' \in [Routers -> [1..3 -> Seq(Messages)]]
           /\ handling' \in [Routers -> {"idle", "publish", "record"}]
           /\ InboxInv' /\ RecordInv'
  <1>1. inbox \in [Routers -> [1..3 -> Seq(Messages)]]
        /\ handling \in [Routers -> {"idle", "publish", "record"}]
    BY DEF RInv, RouterTypeOK
  <1>2. inbox[r][1] \in Seq(Messages)  BY <1>1
  <1>3. Tail(inbox[r][1]) \in Seq(Messages)
        /\ \A i \in 1..Len(Tail(inbox[r][1])) : i + 1 \in 1..Len(inbox[r][1])
                                                /\ Tail(inbox[r][1])[i] = inbox[r][1][i + 1]
    BY <1>2
  <1>4. inbox'[r] = [inbox[r] EXCEPT ![1] = Tail(inbox[r][1])]  BY <1>1 DEF Taken
  <1>5. inbox'[r] \in [1..3 -> Seq(Messages)] /\ inbox'[r][1] = Tail(inbox[r][1])
    <2>1. 1 \in 1..3 /\ inbox[r] \in [1..3 -> Seq(Messages)]  BY <1>1
    <2> QED  BY <1>3, <1>4, <2>1
  <1>6. \A q \in Routers \ {r} : inbox'[q] = inbox[q]  BY <1>1 DEF Taken
  <1>7. inbox' \in [Routers -> [1..3 -> Seq(Messages)]]
    <2>1. DOMAIN inbox' = Routers /\ inbox' = [q \in Routers |-> inbox'[q]]  BY <1>1 DEF Taken
    <2>2. \A q \in Routers : inbox'[q] \in [1..3 -> Seq(Messages)]
      <3>1. ASSUME NEW q \in Routers PROVE inbox'[q] \in [1..3 -> Seq(Messages)]
        <4>1. CASE q = r  BY <1>5, <4>1
        <4>2. CASE q # r  BY <1>1, <1>6, <4>2
        <4> QED  BY <4>1, <4>2
      <3> QED  BY <3>1
    <2> QED  BY <2>1, <2>2
  <1>8. handling' \in [Routers -> {"idle", "publish", "record"}]  BY <1>1
  <1>9. InboxInv'
    <2>1. ASSUME NEW q \in Routers
          PROVE  /\ \A i \in 1..Len(inbox'[q][1]) : inbox'[q][1][i] \in DOMAIN defects
                 /\ handling'[q] # "idle" => inbox'[q][1] # <<>>
      <3>1. CASE q = r  BY <1>1, <1>3, <1>5, <3>1 DEF RInv, InboxInv
      <3>2. CASE q # r  BY <1>1, <1>6, <3>2 DEF RInv, InboxInv
      <3> QED  BY <3>1, <3>2
    <2> QED  BY <2>1 DEF InboxInv
  <1>10. RecordInv'
    <2>1. SUFFICES ASSUME NEW q \in Routers, handling'[q] = "record" PROVE Out(q)'
      BY DEF RecordInv
    <2>2. q # r /\ handling[q] = "record"  BY <1>1, <2>1
    <2>3. Out(q) /\ inbox'[q] = inbox[q]  BY <1>6, <2>2 DEF RInv, RecordInv
    <2> QED  BY <2>3, OutKept
  <1> QED  BY <1>7, <1>8, <1>9, <1>10

\* A message of another topic is done with.
LEMMA OtherTaken ==
    ASSUME RInv, NEW r \in Routers, NEW t \in {2, 3}, inbox[r][t] # <<>>, Taken(r, t),
           UNCHANGED <<handling, sent, defects>>
    PROVE  /\ inbox' \in [Routers -> [1..3 -> Seq(Messages)]]
           /\ InboxInv' /\ RecordInv'
  <1>1. inbox \in [Routers -> [1..3 -> Seq(Messages)]]  BY DEF RInv, RouterTypeOK
  <1>2. Tail(inbox[r][t]) \in Seq(Messages)  BY <1>1
  <1>3. inbox' = [inbox EXCEPT ![r] = [inbox[r] EXCEPT ![t] = Tail(inbox[r][t])]]  BY <1>1 DEF Taken
  <1>4. ASSUME NEW q \in Routers
        PROVE  inbox'[q] \in [1..3 -> Seq(Messages)] /\ inbox'[q][1] = inbox[q][1]
    <2>1. CASE q = r
      <3>1. inbox[r] \in [1..3 -> Seq(Messages)]  BY <1>1
      <3>2. inbox'[r] = [inbox[r] EXCEPT ![t] = Tail(inbox[r][t])]  BY <1>1, <1>3
      <3> QED  BY <1>2, <2>1, <3>1, <3>2
    <2>2. CASE q # r  BY <1>1, <1>3, <2>2
    <2> QED  BY <2>1, <2>2
  <1>5. inbox' \in [Routers -> [1..3 -> Seq(Messages)]]
    <2>1. inbox' = [q \in Routers |-> inbox'[q]]  BY <1>1, <1>3
    <2> QED  BY <1>4, <2>1
  <1>6. InboxInv'  BY <1>4 DEF RInv, InboxInv
  <1>7. RecordInv'
    <2>1. SUFFICES ASSUME NEW q \in Routers, handling[q] = "record" PROVE Out(q)'
      BY DEF RecordInv
    <2>2. Out(q)  BY <2>1 DEF RInv, RecordInv
    <2> QED  BY <1>4, <2>2, OutKept
  <1> QED  BY <1>5, <1>6, <1>7

\* One step of a router.
LEMMA RouterKeeps ==
    ASSUME RInv, NEW r \in Routers, RouterStep(r)
    PROVE  RInv'
  <1>0. RouterTypeOK /\ InboxInv /\ RecordInv /\ LedgerInv  BY DEF RInv
  <1>1. CASE HandleAndon(r)
    <2>1. RouterTypeOK'  BY <1>0, <1>1 DEF RouterTypeOK, HandleAndon
    <2>2. InboxInv'  BY <1>0, <1>1 DEF RouterTypeOK, InboxInv, HandleAndon
    <2>3. RecordInv'
      <3>1. SUFFICES ASSUME NEW q \in Routers, handling'[q] = "record" PROVE Out(q)'
        BY DEF RecordInv
      <3>2. handling[q] = "record"  BY <1>0, <1>1, <3>1 DEF RouterTypeOK, HandleAndon
      <3>3. Out(q)  BY <1>0, <3>2 DEF RecordInv
      <3> QED  BY <1>1, <3>3, OutKept DEF HandleAndon
    <2>4. LedgerInv'
      BY <1>0, <1>1, OtherEntry DEF HandleAndon
    <2> QED  BY <2>1, <2>2, <2>3, <2>4 DEF RInv
  <1>2. CASE Route(r)
    <2>1. RouterTypeOK'  BY <1>0, <1>2 DEF RouterTypeOK, Route
    <2>2. InboxInv'  BY <1>0, <1>2 DEF RouterTypeOK, InboxInv, Route
    <2>3. RecordInv'
      <3>1. SUFFICES ASSUME NEW q \in Routers, handling'[q] = "record" PROVE Out(q)'
        BY DEF RecordInv
      <3>2. CASE q = r
        <4>1. Answer(r, Current(r), Violation(r)) \in sent'  BY <1>2 DEF Route
        <4>2. Current(r)' = Current(r) /\ Violation(r)' = Violation(r)
          BY <1>2 DEF Route, Current, Violation
        <4> QED  BY <3>2, <4>1, <4>2 DEF Out, Answer
      <3>3. CASE q # r
        <4>1. handling[q] = "record"  BY <1>0, <1>2, <3>1, <3>3 DEF RouterTypeOK, Route
        <4>2. Out(q)  BY <1>0, <4>1 DEF RecordInv
        <4> QED  BY <1>2, <4>2, OutKept DEF Route
      <3> QED  BY <3>2, <3>3
    <2>4. LedgerInv'
      BY <1>0, <1>2 DEF Route, LedgerInv, LedgerTellsTruth
    <2> QED  BY <2>1, <2>2, <2>3, <2>4 DEF RInv
  <1>3. CASE RouteFails(r)
    <2>1. inbox[r][1] # <<>>  BY <1>0, <1>3 DEF RouteFails, InboxInv
    <2>2. /\ inbox' \in [Routers -> [1..3 -> Seq(Messages)]]
          /\ handling' \in [Routers -> {"idle", "publish", "record"}]
          /\ InboxInv' /\ RecordInv'
      BY <1>3, <2>1, HaltTaken DEF RouteFails
    <2>3. RouterTypeOK'  BY <1>0, <1>3, <2>2 DEF RouterTypeOK, RouteFails
    <2>4. LedgerInv'  BY <1>0, <1>3 DEF RouteFails, LedgerInv, LedgerTellsTruth
    <2> QED  BY <2>2, <2>3, <2>4 DEF RInv
  <1>4. CASE RecordAnswer(r)
    <2>1. inbox[r][1] # <<>> /\ Out(r)  BY <1>0, <1>4 DEF RecordAnswer, InboxInv, RecordInv
    <2>2. /\ inbox' \in [Routers -> [1..3 -> Seq(Messages)]]
          /\ handling' \in [Routers -> {"idle", "publish", "record"}]
          /\ InboxInv' /\ RecordInv'
      BY <1>4, <2>1, HaltTaken DEF RecordAnswer
    <2>3. RouterTypeOK'  BY <1>0, <1>4, <2>2 DEF RouterTypeOK, RecordAnswer
    <2>4. LedgerInv'
      <3> DEFINE e == Event(IF Fixable(Violation(r)) THEN "fix_routed" ELSE "human_alert", r, Current(r))
      <3>1. ledger' = ledger \/ ledger' = ledger \union {e}  BY <1>4 DEF RecordAnswer, Log
      <3>2. e.router = r /\ e.about = Current(r)
            /\ e.type = IF Fixable(Violation(r)) THEN "fix_routed" ELSE "human_alert"
        BY DEF Event
      <3> HIDE DEF e
      <3>3. e.type = "fix_routed" =>
              \E m \in sent : m.kind = "fix" /\ m.router = e.router /\ m.signal = e.about
        BY <2>1, <3>2 DEF Out
      <3>4. e.type = "human_alert" =>
              \E m \in sent : m.kind = "alert" /\ m.router = e.router /\ m.signal = e.about
        BY <2>1, <3>2 DEF Out
      <3>5. e.type # "repo_commit"  BY <3>2
      <3> QED  BY <1>0, <1>4, <3>1, <3>3, <3>4, <3>5, LedgerKept DEF RecordAnswer
    <2> QED  BY <2>2, <2>3, <2>4 DEF RInv
  <1>5. CASE HandleConfirm(r)
    <2>1. /\ inbox' \in [Routers -> [1..3 -> Seq(Messages)]]
          /\ InboxInv' /\ RecordInv'
      BY <1>5, OtherTaken DEF HandleConfirm
    <2>2. LedgerInv'  BY <1>0, <1>5, OtherEntry DEF HandleConfirm
    <2> QED  BY <1>0, <1>5, <2>1, <2>2 DEF RInv, RouterTypeOK, HandleConfirm
  <1>6. CASE HandleSubmit(r)
    <2>1. /\ inbox' \in [Routers -> [1..3 -> Seq(Messages)]]
          /\ InboxInv' /\ RecordInv'
      BY <1>6, OtherTaken DEF HandleSubmit
    <2>2. LedgerInv'  BY <1>0, <1>6, OtherEntry DEF HandleSubmit
    <2> QED  BY <1>0, <1>6, <2>1, <2>2 DEF RInv, RouterTypeOK, HandleSubmit
  <1>7. CASE Subscribe(r) \/ StopRouter(r)
    <2>1. UNCHANGED <<inbox, handling, defects, adapter, sent, ledger>>
      BY <1>7 DEF Subscribe, StopRouter
    <2> QED  BY <1>0, <2>1 DEF RInv, RouterTypeOK, InboxInv, RecordInv, LedgerInv, LedgerTellsTruth,
                              Out, Current, Violation
  <1>8. CASE CrashRouter(r)
    <2>1. Silent \in [1..3 -> Seq(Messages)] /\ Silent[1] = <<>>  BY ThreeTopics DEF Silent
    <2>2. RouterTypeOK'  BY <1>0, <1>8, <2>1 DEF RouterTypeOK, CrashRouter
    <2>3. \A q \in Routers \ {r} : inbox'[q] = inbox[q] /\ handling'[q] = handling[q]
      BY <1>0, <1>8 DEF RouterTypeOK, CrashRouter
    <2>4. inbox'[r][1] = <<>> /\ handling'[r] = "idle"
      BY <1>0, <1>8, <2>1 DEF RouterTypeOK, CrashRouter
    <2>5. InboxInv'  BY <1>0, <1>8, <2>3, <2>4 DEF InboxInv, CrashRouter
    <2>6. RecordInv'
      <3>1. SUFFICES ASSUME NEW q \in Routers, handling'[q] = "record" PROVE Out(q)'
        BY DEF RecordInv
      <3>2. q # r  BY <2>4, <3>1
      <3>3. Out(q)  BY <1>0, <2>3, <3>1, <3>2 DEF RecordInv
      <3> QED  BY <1>8, <2>3, <3>2, <3>3, OutKept DEF CrashRouter
    <2>7. LedgerInv'  BY <1>0, <1>8 DEF CrashRouter, LedgerInv, LedgerTellsTruth
    <2> QED  BY <2>2, <2>5, <2>6, <2>7 DEF RInv
  <1> QED  BY <1>1, <1>2, <1>3, <1>4, <1>5, <1>6, <1>7, <1>8 DEF RouterStep, HandleHalt, Lifecycle

LEMMA RStep == ASSUME RInv, [Next]_vars PROVE RInv'
  <1>0. RouterTypeOK /\ InboxInv /\ RecordInv /\ LedgerInv  BY DEF RInv
  <1>1. CASE UNCHANGED routerVars
    BY <1>0, <1>1 DEF RInv, RouterTypeOK, InboxInv, RecordInv, LedgerInv, LedgerTellsTruth, Out, Current,
                      Violation, routerVars
  <1>2. ASSUME NEW s \in Signals, Raise(s) PROVE RInv'
    <2>1. /\ DOMAIN defects' = DOMAIN defects \union {s}
          /\ \A x \in DOMAIN defects : defects'[x] = defects[x]
      BY <1>2 DEF Raise
    <2>2. Deliver(1, s) /\ UNCHANGED <<handling, adapter, sent, ledger>> /\ s \in Messages
      BY <1>2 DEF Raise, Messages
    <2>3. /\ inbox' \in [Routers -> [1..3 -> Seq(Messages)]]
          /\ InboxInv' /\ RecordInv'
      <3>1. 1 \in 1..3  OBVIOUS
      <3> QED  BY <2>1, <2>2, <3>1, Delivery
    <2> QED  BY <1>0, <2>2, <2>3 DEF RInv, RouterTypeOK, LedgerInv, LedgerTellsTruth
  <1>3. ASSUME NEW a \in Artifacts, Confirm(a) PROVE RInv'
    <2>1. LedgerInv' /\ adapter' \in [Artifacts -> {"idle", "published", "failed", "done"}]
      <3>1. adapter' \in [Artifacts -> {"idle", "published", "failed", "done"}]
        BY <1>0, <1>3 DEF RouterTypeOK, Confirm
      <3>2. \A b \in Artifacts : adapter[b] = "done" => adapter'[b] = "done"
        BY <1>0, <1>3 DEF RouterTypeOK, Confirm
      <3> QED  BY <1>0, <1>3, <3>1, <3>2 DEF Confirm, LedgerInv, LedgerTellsTruth
    <2>2. CASE Deliver(2, a)
      <3>1. 2 \in 1..3 /\ a \in Messages  BY DEF Messages
      <3>2. /\ inbox' \in [Routers -> [1..3 -> Seq(Messages)]]
            /\ InboxInv' /\ RecordInv'
        BY <1>3, <2>2, <3>1, Delivery DEF Confirm
      <3> QED  BY <1>0, <1>3, <2>1, <3>2 DEF RInv, RouterTypeOK, Confirm
    <2>3. CASE UNCHANGED inbox
      <3>1. UNCHANGED <<inbox, handling, defects, sent>>  BY <1>3, <2>3 DEF Confirm
      <3> QED  BY <1>0, <2>1, <3>1 DEF RInv, RouterTypeOK, InboxInv, RecordInv, Out, Current, Violation
    <2> QED  BY <1>3, <2>2, <2>3 DEF Confirm
  <1>4. ASSUME NEW a \in Artifacts, RecordCommit(a) PROVE RInv'
    <2>1. UNCHANGED <<inbox, handling, defects, sent>>  BY <1>4 DEF RecordCommit
    <2>2. /\ adapter' \in [Artifacts -> {"idle", "published", "failed", "done"}]
          /\ adapter'[a] = "done"
          /\ \A b \in Artifacts : adapter[b] = "done" => adapter'[b] = "done"
      BY <1>0, <1>4 DEF RouterTypeOK, RecordCommit
    <2>3. LedgerInv'
      <3> DEFINE e == Event("repo_commit", "adapter", a)
      <3>1. ledger' = ledger \/ ledger' = ledger \union {e}  BY <1>4 DEF RecordCommit, Log
      <3>2. e.type = "repo_commit" /\ e.about = a  BY DEF Event
      <3> HIDE DEF e
      <3> QED  BY <1>0, <2>1, <2>2, <3>1, <3>2, LedgerKept
    <2> QED  BY <1>0, <2>1, <2>2, <2>3 DEF RInv, RouterTypeOK, InboxInv, RecordInv, Out, Current, Violation
  <1>5. ASSUME NEW ticket \in Tickets, SubmitTicket(ticket) PROVE RInv'
    <2>1. 3 \in 1..3 /\ ticket \in Messages  BY DEF Messages
    <2>2. /\ inbox' \in [Routers -> [1..3 -> Seq(Messages)]]
          /\ InboxInv' /\ RecordInv'
      BY <1>5, <2>1, Delivery DEF SubmitTicket
    <2> QED  BY <1>0, <1>5, <2>2 DEF RInv, RouterTypeOK, SubmitTicket, LedgerInv, LedgerTellsTruth
  <1>6. CASE RouterNext  BY <1>2, <1>3, <1>4, <1>5, <1>6, RouterKeeps DEF RouterNext
  <1> QED  BY <1>1, <1>6 DEF Next, vars

\* An entry of the ledger that says something was sent on, or that a commit was confirmed, is
\* true, whatever fails or stops between the publishing and the entry.
THEOREM LedgerIsTrue == Spec => []LedgerTellsTruth
  <1>1. RInv => LedgerTellsTruth  BY DEF RInv, LedgerInv
  <1> QED  BY <1>1, RInit, RStep, PTL DEF Spec

\* Of the halts that wait, only the one r is done with is taken.
LEMMA OneTaken ==
    ASSUME RInv, NEW r \in Routers, inbox[r][1] # <<>>, Taken(r, 1),
           NEW q \in Routers, NEW s, Waits(q, s)
    PROVE  Waits(q, s)' \/ (q = r /\ s = Current(r))
  <1>1. inbox \in [Routers -> [1..3 -> Seq(Messages)]]  BY DEF RInv, RouterTypeOK
  <1>2. inbox' = [inbox EXCEPT ![r] = [inbox[r] EXCEPT ![1] = Tail(inbox[r][1])]]  BY <1>1 DEF Taken
  <1>3. CASE q # r  BY <1>1, <1>2, <1>3 DEF Waits
  <1>4. CASE q = r
    <2>1. inbox[r] \in [1..3 -> Seq(Messages)] /\ inbox[r][1] \in Seq(Messages) /\ 1 \in 1..3  BY <1>1
    <2>2. inbox'[r] = [inbox[r] EXCEPT ![1] = Tail(inbox[r][1])]  BY <1>1, <1>2
    <2>3. inbox'[r][1] = Tail(inbox[r][1])  BY <2>1, <2>2
    <2>4. PICK i \in 1..Len(inbox[r][1]) : inbox[r][1][i] = s  BY <1>4 DEF Waits
    <2>5. CASE i = 1  BY <1>4, <2>1, <2>4, <2>5 DEF Current
    <2>6. CASE i # 1
      <3>1. i - 1 \in 1..Len(Tail(inbox[r][1])) /\ Tail(inbox[r][1])[i - 1] = s
        BY <2>1, <2>4, <2>6
      <3> QED  BY <1>4, <2>3, <3>1 DEF Waits
    <2> QED  BY <2>5, <2>6
  <1> QED  BY <1>3, <1>4

\* What waits still waits when something of another topic is done with, or is delivered.
LEMMA WaitsOn ==
    ASSUME RInv, NEW q \in Routers, NEW s, Waits(q, s),
           \/ \E r \in Routers, t \in {2, 3} : Taken(r, t)
           \/ \E t \in 1..3, m \in Messages : Deliver(t, m)
    PROVE  Waits(q, s)'
  <1>1. inbox \in [Routers -> [1..3 -> Seq(Messages)]]  BY DEF RInv, RouterTypeOK
  <1>2. inbox[q] \in [1..3 -> Seq(Messages)] /\ inbox[q][1] \in Seq(Messages) /\ 1 \in 1..3  BY <1>1
  <1>3. ASSUME NEW r \in Routers, NEW t \in {2, 3}, Taken(r, t) PROVE Waits(q, s)'
    <2>1. inbox' = [inbox EXCEPT ![r] = [inbox[r] EXCEPT ![t] = Tail(inbox[r][t])]]  BY <1>1, <1>3 DEF Taken
    <2>2. inbox'[q] = inbox[q] \/ inbox'[q] = [inbox[q] EXCEPT ![t] = Tail(inbox[q][t])]  BY <1>1, <2>1
    <2>3. inbox'[q][1] = inbox[q][1]  BY <1>2, <2>2
    <2> QED  BY <2>3 DEF Waits
  <1>4. ASSUME NEW t \in 1..3, NEW m \in Messages, Deliver(t, m) PROVE Waits(q, s)'
    <2>1. inbox'[q] = inbox[q] \/ inbox'[q] = [inbox[q] EXCEPT ![t] = Append(inbox[q][t], m)]
      BY <1>4 DEF Deliver
    <2>2. inbox'[q][1] = inbox[q][1] \/ inbox'[q][1] = Append(inbox[q][1], m)  BY <1>2, <2>1
    <2>3. PICK i \in 1..Len(inbox[q][1]) : inbox[q][1][i] = s  BY DEF Waits
    <2>4. i \in 1..Len(inbox'[q][1]) /\ inbox'[q][1][i] = s
      <3>1. ASSUME NEW old \in Seq(Messages), i \in 1..Len(old)
            PROVE  i \in 1..Len(Append(old, m)) /\ Append(old, m)[i] = old[i]
        BY <3>1
      <3>2. CASE inbox'[q][1] = inbox[q][1]  BY <2>3, <3>2
      <3>3. CASE inbox'[q][1] = Append(inbox[q][1], m)  BY <1>2, <2>3, <3>1, <3>3
      <3> QED  BY <2>2, <3>2, <3>3
    <2> QED  BY <2>4 DEF Waits
  <1> QED  BY <1>3, <1>4

\* A halt is in a router's queue once, and answered only while it is at the head and being recorded.
OnceInv ==
    /\ \A m \in sent : m.signal \in DOMAIN defects
    /\ \A r \in Routers :
          /\ \A i, j \in 1..Len(inbox[r][1]) : inbox[r][1][i] = inbox[r][1][j] => i = j
          /\ \A i \in 1..Len(inbox[r][1]) :
                Answered(r, inbox[r][1][i]) => i = 1 /\ handling[r] = "record"

\* The halt r is done with, recorded or not, takes what was answered along.
LEMMA OnceTaken ==
    ASSUME RInv, OnceInv, NEW r \in Routers, inbox[r][1] # <<>>, Taken(r, 1),
           handling' = [handling EXCEPT ![r] = "idle"], UNCHANGED <<sent, defects>>
    PROVE  OnceInv'
  <1>1. /\ inbox \in [Routers -> [1..3 -> Seq(Messages)]]
        /\ handling \in [Routers -> {"idle", "publish", "record"}]
    BY DEF RInv, RouterTypeOK
  <1>2. inbox' = [inbox EXCEPT ![r] = [inbox[r] EXCEPT ![1] = Tail(inbox[r][1])]]  BY <1>1 DEF Taken
  <1>3. ASSUME NEW q \in Routers
        PROVE  /\ \A i, j \in 1..Len(inbox'[q][1]) : inbox'[q][1][i] = inbox'[q][1][j] => i = j
               /\ \A i \in 1..Len(inbox'[q][1]) :
                     Answered(q, inbox[q][1][i])' => i = 1 /\ handling'[q] = "record"
    <2>1. CASE q # r
      <3>1. inbox'[q] = inbox[q] /\ handling'[q] = handling[q]  BY <1>1, <1>2, <2>1
      <3> QED  BY <3>1 DEF OnceInv, Answered
    <2>2. CASE q = r
      <3> DEFINE old == inbox[r][1]
      <3>1. old \in Seq(Messages) /\ old # <<>> /\ inbox[r] \in [1..3 -> Seq(Messages)] /\ 1 \in 1..3
        BY <1>1
      <3>2. inbox'[r] = [inbox[r] EXCEPT ![1] = Tail(old)]  BY <1>1, <1>2
      <3>3. inbox'[r][1] = Tail(old)  BY <3>1, <3>2
      <3>4. \A i, j \in 1..Len(old) : old[i] = old[j] => i = j  BY DEF OnceInv
      <3>5. \A i \in 1..Len(old) : Answered(r, old[i]) => i = 1  BY DEF OnceInv
      <3> HIDE DEF old
      <3>6. \A i \in 1..Len(Tail(old)) : i + 1 \in 1..Len(old) /\ Tail(old)[i] = old[i + 1] /\ i + 1 # 1
        BY <3>1
      <3>7. \A i, j \in 1..Len(Tail(old)) : Tail(old)[i] = Tail(old)[j] => i = j
        BY <3>4, <3>6
      <3>8. \A i \in 1..Len(Tail(old)) : ~Answered(r, Tail(old)[i])  BY <3>5, <3>6
      <3>9. \A x : Answered(r, x)' <=> Answered(r, x)  BY DEF Answered
      <3> QED  BY <2>2, <3>3, <3>7, <3>8, <3>9
    <2> QED  BY <2>1, <2>2
  <1> QED  BY <1>3 DEF OnceInv

\* A fresh halt, or a message of another topic, is delivered.
LEMMA OnceDelivered ==
    ASSUME RInv, OnceInv, NEW t \in 1..3, NEW m \in Messages, Deliver(t, m),
           t = 1 => m \notin DOMAIN defects,
           DOMAIN defects \subseteq DOMAIN defects', UNCHANGED <<handling, sent>>
    PROVE  OnceInv'
  <1>1. inbox \in [Routers -> [1..3 -> Seq(Messages)]]  BY DEF RInv, RouterTypeOK
  <1>2. \A r \in Routers : \A x : Answered(r, x)' <=> Answered(r, x)  BY DEF Answered
  <1>3. ASSUME NEW q \in Routers
        PROVE  /\ \A i, j \in 1..Len(inbox'[q][1]) : inbox'[q][1][i] = inbox'[q][1][j] => i = j
               /\ \A i \in 1..Len(inbox'[q][1]) :
                     Answered(q, inbox[q][1][i])' => i = 1 /\ handling'[q] = "record"
    <2> DEFINE old == inbox[q][1]
    <2>1. old \in Seq(Messages) /\ inbox[q] \in [1..3 -> Seq(Messages)] /\ 1 \in 1..3  BY <1>1
    <2>2. inbox'[q] = inbox[q] \/ inbox'[q] = [inbox[q] EXCEPT ![t] = Append(inbox[q][t], m)]
      BY DEF Deliver
    <2>3. inbox'[q][1] = old \/ (t = 1 /\ inbox'[q][1] = Append(old, m))  BY <2>1, <2>2
    <2>4. \A i, j \in 1..Len(old) : old[i] = old[j] => i = j  BY DEF OnceInv
    <2>5. \A i \in 1..Len(old) : Answered(q, old[i]) => i = 1 /\ handling[q] = "record"  BY DEF OnceInv
    <2>6. \A i \in 1..Len(old) : old[i] \in DOMAIN defects  BY DEF RInv, InboxInv
    <2> HIDE DEF old
    <2>7. CASE inbox'[q][1] = old  BY <1>2, <2>4, <2>5, <2>7
    <2>8. CASE t = 1 /\ inbox'[q][1] = Append(old, m)
      <3> DEFINE new == Append(old, m)
      <3>1. Len(new) = Len(old) + 1 /\ new[Len(old) + 1] = m /\ Len(old) \in Nat
            /\ \A i \in 1..Len(old) : new[i] = old[i]
        BY <2>1
      <3>2. ~Answered(q, m)  BY <2>8 DEF OnceInv, Answered
      <3>3. \A i \in 1..Len(old) : old[i] # m  BY <2>6, <2>8
      <3> HIDE DEF new
      <3>4. \A i, j \in 1..Len(new) : new[i] = new[j] => i = j  BY <2>4, <3>1, <3>3
      <3>5. \A i \in 1..Len(new) : Answered(q, new[i]) => i = 1 /\ handling[q] = "record"
        BY <2>5, <3>1, <3>2
      <3>6. inbox'[q][1] = new  BY <2>8 DEF new
      <3> QED  BY <1>2, <3>4, <3>5, <3>6
    <2> QED  BY <2>3, <2>7, <2>8
  <1>4. \A x \in sent' : x.signal \in DOMAIN defects'  BY DEF OnceInv
  <1> QED  BY <1>3, <1>4 DEF OnceInv

\* A step that leaves the halts of every router where they are.
LEMMA OnceStays ==
    ASSUME OnceInv, UNCHANGED <<handling, sent>>, DOMAIN defects \subseteq DOMAIN defects',
           \A q \in Routers : inbox'[q][1] = inbox[q][1]
    PROVE  OnceInv'
  BY DEF OnceInv, Answered

\* Each step of a router, and then of the system, keeps it so.
LEMMA OnceRouter ==
    ASSUME RInv, OnceInv, NEW r \in Routers, RouterStep(r)
    PROVE  OnceInv'
  <1>0. /\ inbox \in [Routers -> [1..3 -> Seq(Messages)]]
        /\ handling \in [Routers -> {"idle", "publish", "record"}]
    BY DEF RInv, RouterTypeOK
  <1>1. CASE HandleAndon(r)
    <2>1. handling[r] = "idle" /\ handling' = [handling EXCEPT ![r] = "publish"] /\ UNCHANGED <<inbox, sent, defects>>
      BY <1>1 DEF HandleAndon
    <2> QED  BY <1>0, <2>1 DEF OnceInv, Answered
  <1>2. CASE Route(r)
    <2>1. /\ handling[r] = "publish" /\ handling' = [handling EXCEPT ![r] = "record"]
          /\ sent' = sent \union {Answer(r, Current(r), Violation(r))}
          /\ UNCHANGED <<inbox, defects>>
      BY <1>2 DEF Route
    <2>2. inbox[r][1] \in Seq(Messages) /\ inbox[r][1] # <<>> /\ Current(r) \in DOMAIN defects
      BY <2>1, HeadWaits DEF Current
    <2>3. 1 \in 1..Len(inbox[r][1]) /\ Current(r) = inbox[r][1][1]  BY <2>2 DEF Current
    <2>4. \A q, x : Answered(q, x)' <=> Answered(q, x) \/ (q = r /\ x = Current(r))
      <3> DEFINE a == Answer(r, Current(r), Violation(r))
      <3>1. a.router = r /\ a.signal = Current(r) /\ sent' = sent \union {a}  BY <2>1 DEF Answer
      <3> HIDE DEF a
      <3> QED  BY <3>1 DEF Answered
    <2>5. \A m \in sent' : m.signal \in DOMAIN defects  BY <2>1, <2>2 DEF OnceInv, Answer
    <2> QED  BY <1>0, <2>1, <2>3, <2>4, <2>5 DEF OnceInv
  <1>3. CASE RouteFails(r) \/ RecordAnswer(r)
    <2>1. inbox[r][1] # <<>>  BY <1>3 DEF RInv, InboxInv, RouteFails, RecordAnswer
    <2> QED  BY <1>3, <2>1, OnceTaken DEF RouteFails, RecordAnswer
  <1>4. CASE HandleConfirm(r) \/ HandleSubmit(r)
    <2>1. PICK t \in {2, 3} : Taken(r, t)  BY <1>4 DEF HandleConfirm, HandleSubmit
    <2>2. inbox' = [inbox EXCEPT ![r] = [inbox[r] EXCEPT ![t] = Tail(inbox[r][t])]]  BY <1>0, <2>1 DEF Taken
    <2>3. \A q \in Routers : inbox[q] \in [1..3 -> Seq(Messages)]  BY <1>0
    <2>4. ASSUME NEW q \in Routers PROVE inbox'[q][1] = inbox[q][1]
      <3>1. inbox'[q] = inbox[q] \/ inbox'[q] = [inbox[q] EXCEPT ![t] = Tail(inbox[q][t])]  BY <1>0, <2>2
      <3> QED  BY <2>1, <2>3, <3>1
    <2>5. UNCHANGED <<handling, sent, defects>>  BY <1>4 DEF HandleConfirm, HandleSubmit
    <2> QED  BY <2>4, <2>5, OnceStays
  <1>5. CASE Subscribe(r) \/ StopRouter(r)
    BY <1>5, OnceStays DEF Subscribe, StopRouter
  <1>6. CASE CrashRouter(r)
    <2>1. inbox' = [inbox EXCEPT ![r] = Silent] /\ handling' = [handling EXCEPT ![r] = "idle"]
          /\ UNCHANGED <<sent, defects>>
      BY <1>6 DEF CrashRouter
    <2>2. Silent[1] = <<>>  BY ThreeTopics DEF Silent
    <2>3. inbox'[r][1] = <<>> /\ \A q \in Routers \ {r} : inbox'[q] = inbox[q] /\ handling'[q] = handling[q]
      BY <1>0, <2>1, <2>2
    <2> QED  BY <2>1, <2>3 DEF OnceInv, Answered
  <1> QED  BY <1>1, <1>2, <1>3, <1>4, <1>5, <1>6 DEF RouterStep, HandleHalt, Lifecycle

LEMMA OnceStep == ASSUME RInv, OnceInv, [Next]_vars PROVE OnceInv'
  <1>1. CASE UNCHANGED routerVars  BY <1>1, OnceStays DEF routerVars
  <1>2. ASSUME NEW s \in Signals, Raise(s) PROVE OnceInv'
    <2>1. s \notin DOMAIN defects /\ DOMAIN defects \subseteq DOMAIN defects' /\ Deliver(1, s)
          /\ UNCHANGED <<handling, sent>>
      BY <1>2 DEF Raise
    <2> QED  BY <2>1, OnceDelivered DEF Messages
  <1>3. ASSUME NEW a \in Artifacts, Confirm(a) PROVE OnceInv'
    BY <1>3, OnceDelivered, OnceStays DEF Confirm, Messages
  <1>4. ASSUME NEW a \in Artifacts, RecordCommit(a) PROVE OnceInv'
    BY <1>4, OnceStays DEF RecordCommit
  <1>5. ASSUME NEW x \in Tickets, SubmitTicket(x) PROVE OnceInv'
    BY <1>5, OnceDelivered DEF SubmitTicket, Messages
  <1>6. CASE RouterNext  BY <1>2, <1>3, <1>4, <1>5, <1>6, OnceRouter DEF RouterNext
  <1> QED  BY <1>1, <1>6 DEF Next, vars

\* A halt that reached a router is routed by it at most once, and leaves it only answered or counted
\* as dropped.
THEOREM HaltsAreHandledOnce == Spec => HaltsHandledOnce
  <1>1. ASSUME RInv, Next, NEW q \in Routers, NEW s \in Signals, Waits(q, s)
        PROVE  Waits(q, s)' \/ Answered(q, s)' \/ <<q, s>> \in dropped'
    <2>1. ASSUME UNCHANGED inbox PROVE Waits(q, s)'  BY <1>1, <2>1 DEF Waits
    <2>2. ASSUME NEW r \in Routers, RouterStep(r)
          PROVE  Waits(q, s)' \/ Answered(q, s)' \/ <<q, s>> \in dropped'
      <3>1. CASE HandleAndon(r) \/ Route(r) \/ Subscribe(r) \/ StopRouter(r)
        BY <2>1, <3>1 DEF HandleAndon, Route, Subscribe, StopRouter
      <3>2. CASE RouteFails(r)
        <4>1. inbox[r][1] # <<>>  BY <1>1, <3>2 DEF RInv, InboxInv, RouteFails
        <4> QED  BY <1>1, <3>2, <4>1, OneTaken DEF RouteFails
      <3>3. CASE RecordAnswer(r)
        <4>1. inbox[r][1] # <<>> /\ Out(r)  BY <1>1, <3>3 DEF RInv, InboxInv, RecordInv, RecordAnswer
        <4>2. UNCHANGED sent /\ Taken(r, 1)  BY <3>3 DEF RecordAnswer
        <4>3. CASE Waits(q, s)'  BY <4>3
        <4>4. CASE q = r /\ s = Current(r)  BY <4>1, <4>2, <4>4 DEF Out, Answered
        <4> QED  BY <1>1, <4>1, <4>2, <4>3, <4>4, OneTaken
      <3>4. CASE HandleConfirm(r) \/ HandleSubmit(r)
        BY <1>1, <3>4, WaitsOn DEF HandleConfirm, HandleSubmit
      <3>5. CASE CrashRouter(r)
        <4>1. CASE q = r  BY <1>1, <3>5, <4>1 DEF CrashRouter, Waits
        <4>2. CASE q # r
          <5>1. inbox'[q] = inbox[q]  BY <3>5, <4>2, <1>1 DEF CrashRouter, RInv, RouterTypeOK
          <5> QED  BY <1>1, <5>1 DEF Waits
        <4> QED  BY <4>1, <4>2
      <3> QED  BY <2>2, <3>1, <3>2, <3>3, <3>4, <3>5 DEF RouterStep, HandleHalt, Lifecycle
    <2>3. ASSUME RouterNext PROVE Waits(q, s)' \/ Answered(q, s)' \/ <<q, s>> \in dropped'
      <3>1. CASE \E x \in Signals : Raise(x)  BY <1>1, <3>1, WaitsOn DEF Raise, Messages
      <3>2. CASE \E a \in Artifacts : Confirm(a) \/ RecordCommit(a)
        BY <1>1, <2>1, <3>2, WaitsOn DEF Confirm, RecordCommit, Messages
      <3>3. CASE \E x \in Tickets : SubmitTicket(x)  BY <1>1, <3>3, WaitsOn DEF SubmitTicket, Messages
      <3> QED  BY <2>2, <2>3, <3>1, <3>2, <3>3 DEF RouterNext
    <2> QED  BY <1>1, <2>1, <2>3 DEF Next, routerVars
  <1>2. ASSUME RInv, OnceInv, NEW r \in Routers, Route(r) PROVE ~Answered(r, Current(r))
    <2>1. handling[r] = "publish"  BY <1>2 DEF Route
    <2>2. inbox[r][1] \in Seq(Messages) /\ inbox[r][1] # <<>>  BY <1>2, <2>1, HeadWaits
    <2>3. 1 \in 1..Len(inbox[r][1]) /\ Current(r) = inbox[r][1][1]  BY <2>2 DEF Current
    <2> QED  BY <1>2, <2>1, <2>3 DEF OnceInv
  <1>3. RInv /\ OnceInv /\ [Next]_vars =>
          [\A r \in Routers :
              /\ Route(r) => ~Answered(r, Current(r))
              /\ \A s \in Signals :
                    Waits(r, s) => Waits(r, s)' \/ Answered(r, s)' \/ <<r, s>> \in dropped']_vars
    BY <1>1, <1>2
  <1>4. Init => OnceInv
    BY ThreeTopics DEF Init, RouterInit, OnceInv, Silent
  <1>5. RInv /\ OnceInv /\ [Next]_vars => OnceInv'  BY OnceStep
  <1> QED  BY <1>3, <1>4, <1>5, RInit, RStep, PTL DEF Spec, HaltsHandledOnce

-------------------------------------------------------------------------------
(* The plugin manager *)

Fetching  == [at: {"fetch"}, slug: Slugs]
Comparing == [at: {"compare"}, slug: Slugs, has: Versions]
Loading   == [at: {"download"}, slug: Slugs, entry: Entry]
Writing   == [at: {"write", "record"}, slug: Slugs, entry: Entry, data: Contents]

\* What each manager does, and what it has fetched is at most what the registry offers.
InstallOK(m) ==
    \/ install[m] = NoInstall
    \/ install[m] \in Fetching \union Comparing
    \/ /\ install[m] \in Loading \union Writing
       /\ install[m].entry.version <= offered[install[m].slug].version

PluginTypeOK ==
    /\ offered \in [Slugs -> Entry \union {NotFound}]
    /\ DOMAIN file = Slugs
    /\ manifest \in [Slugs -> Manifest \union {None, Torn}]
    /\ DOMAIN install = Managers
    /\ \A m \in Managers : InstallOK(m)

\* No manifest is newer than the registry.
NotAhead == \A p \in Slugs : Installed(p) => manifest[p].version <= offered[p].version

\* Two managers on one plugin overlap.
OneAtATime ==
    \A m, n \in Managers :
        /\ m # n /\ install[m] # NoInstall /\ install[n] # NoInstall
        /\ install[m].slug = install[n].slug
        => install[m].slug \in overlapped

\* A manager that works alone replaces an older version, and has written what it is to record.
Older(m) ==
    install[m].at \in {"download", "write", "record"} =>
        LET p == install[m].slug
        IN  \/ p \in overlapped \union repeated
            \/ /\ Installed(p) => manifest[p].version < install[m].entry.version
               /\ install[m].at = "record" => file[p] = install[m].data

PInv == PluginTypeOK /\ NotAhead /\ OneAtATime /\ (\A m \in Managers : Older(m)) /\ UpToDateIsWhole

LEMMA PInit == ASSUME Init PROVE PInv
  BY DEF Init, PluginInit, PInv, PluginTypeOK, NotAhead, OneAtATime, Older, UpToDateIsWhole, InstallOK,
         NoInstall, Installed

\* What a manager has at hand.
LEMMA AtHand ==
    ASSUME PInv, NEW m \in Managers, install[m] # NoInstall
    PROVE  /\ install[m].slug \in Slugs
           /\ install[m].at = "fetch" => install[m] \in Fetching
           /\ install[m].at = "compare" => install[m] \in Comparing
           /\ install[m].at \in {"download", "write", "record"} =>
                 /\ install[m].entry \in Entry
                 /\ install[m].entry.version <= offered[install[m].slug].version
           /\ install[m].at \in {"write", "record"} => install[m] \in Writing
  BY DEF PInv, PluginTypeOK, InstallOK, Fetching, Comparing, Loading, Writing

\* A step that changes only what one manager does, without it starting on another plugin, to
\* where nothing is claimed of it.
LEMMA StepAside ==
    ASSUME PInv, NEW m \in Managers, NEW to,
           install' = [install EXCEPT ![m] = to],
           UNCHANGED <<offered, file, manifest, overlapped, repeated>>,
           \/ to = NoInstall
           \/ to \in Fetching /\ install[m] # NoInstall /\ to.slug = install[m].slug
    PROVE  PInv'
  <1> USE DEF PInv
  <1>1. PluginTypeOK'
    <2>1. \A n \in Managers : InstallOK(n)'  BY DEF PluginTypeOK, InstallOK
    <2> QED  BY <2>1 DEF PluginTypeOK
  <1>2. NotAhead'  BY DEF NotAhead, Installed
  <1>3. OneAtATime'  BY DEF OneAtATime, PluginTypeOK
  <1>4. ASSUME NEW n \in Managers PROVE Older(n)'
    <2>1. CASE n = m  BY <2>1 DEF Older, NoInstall, Fetching, PluginTypeOK
    <2>2. CASE n # m  BY <2>2 DEF Older, PluginTypeOK, Installed
    <2> QED  BY <2>1, <2>2
  <1>5. UpToDateIsWhole'  BY DEF UpToDateIsWhole, Installed
  <1> QED  BY <1>1, <1>2, <1>3, <1>4, <1>5

\* One step of a manager.
LEMMA ManagerKeeps ==
    ASSUME PInv, NEW m \in Managers, ManagerStep(m)
    PROVE  PInv'
  <1>0. PluginTypeOK /\ NotAhead /\ OneAtATime /\ (\A n \in Managers : Older(n)) /\ UpToDateIsWhole
    BY DEF PInv
  <1> DEFINE q == install[m].slug
  <1>1. ASSUME NEW p \in Slugs, NEW to \in Fetching \union Comparing, to.slug = p, Begin(m, p, to)
        PROVE  PInv'
    <2>1. install[m] = NoInstall /\ install' = [install EXCEPT ![m] = to]
          /\ UNCHANGED <<offered, file, manifest, repeated>> /\ overlapped \subseteq overlapped'
      BY <1>1 DEF Begin
    <2>2. PluginTypeOK'
      <3>1. \A n \in Managers : InstallOK(n)'  BY <1>0, <2>1 DEF PluginTypeOK, InstallOK
      <3> QED  BY <1>0, <2>1, <3>1 DEF PluginTypeOK
    <2>3. OneAtATime'  BY <1>0, <1>1, <2>1 DEF OneAtATime, PluginTypeOK, Begin, WorkedOn
    <2>4. ASSUME NEW n \in Managers PROVE Older(n)'
      <3>1. CASE n = m  BY <1>0, <2>1, <3>1 DEF Older, Fetching, Comparing, PluginTypeOK
      <3>2. CASE n # m  BY <1>0, <2>1, <3>2 DEF Older, PluginTypeOK, Installed
      <3> QED  BY <3>1, <3>2
    <2> QED  BY <1>0, <2>1, <2>2, <2>3, <2>4 DEF PInv, NotAhead, UpToDateIsWhole, Installed
  <1>2. CASE \E p \in Slugs : InstallPlugin(m, p) \/ UpdatePlugin(m, p)
    <2>1. ASSUME NEW p \in Slugs, InstallPlugin(m, p) PROVE PInv'
      BY <1>1, <2>1 DEF InstallPlugin, Fetching
    <2>2. ASSUME NEW p \in Slugs, UpdatePlugin(m, p) PROVE PInv'
      <3>1. manifest[p].version \in Versions
        BY <1>0, <2>2 DEF PluginTypeOK, UpdatePlugin, Installed, Manifest
      <3> QED  BY <1>1, <2>2, <3>1 DEF UpdatePlugin, Comparing
    <2> QED  BY <1>2, <2>1, <2>2
  <1>3. CASE Compare(m)
    <2>1. install[m] # NoInstall  BY <1>3 DEF Compare, NoInstall
    <2>2. q \in Slugs  BY <2>1, AtHand
    <2>3. CASE Leave(m)  BY <1>3, <2>3, StepAside DEF Compare, Leave
    <2>4. CASE install' = [install EXCEPT ![m] = [at |-> "fetch", slug |-> q]]
      <3> DEFINE to == [at |-> "fetch", slug |-> q]
      <3>1. to \in Fetching /\ to.slug = q  BY <2>2 DEF Fetching
      <3>2. UNCHANGED <<offered, file, manifest, overlapped, repeated>>  BY <1>3 DEF Compare
      <3>3. install' = [install EXCEPT ![m] = to]  BY <2>4
      <3> HIDE DEF to
      <3> QED  BY <2>1, <3>1, <3>2, <3>3, StepAside
    <2> QED  BY <1>3, <2>3, <2>4 DEF Compare
  <1>4. CASE Fetch(m)
    <2>1. install[m] # NoInstall /\ install[m].at = "fetch"  BY <1>4 DEF Fetch, NoInstall
    <2>2. q \in Slugs /\ offered[q] \in Entry  BY <1>0, <1>4, <2>1, AtHand DEF Fetch, PluginTypeOK
    <2> DEFINE to == [at |-> "download", slug |-> q, entry |-> offered[q]]
    <2>3. install' = [install EXCEPT ![m] = to] /\ UNCHANGED <<offered, file, manifest, overlapped>>
          /\ repeated \subseteq repeated'
      BY <1>4 DEF Fetch
    <2>4. to \in Loading /\ to.slug = q /\ to.entry = offered[q] /\ to.at = "download"
      BY <2>2 DEF Loading
    <2>5. offered[q].version <= offered[q].version  BY <2>2 DEF Entry, Versions
    <2>6. Installed(q) => manifest[q].version < offered[q].version \/ q \in repeated'
      <3>1. SUFFICES ASSUME Installed(q), manifest[q].version # offered[q].version
            PROVE  manifest[q].version < offered[q].version
        BY <1>4 DEF Fetch
      <3>2. manifest[q].version <= offered[q].version  BY <1>0, <2>2, <3>1 DEF NotAhead
      <3>3. manifest[q].version \in Nat /\ offered[q].version \in Nat
        BY <1>0, <2>2, <3>1 DEF PluginTypeOK, Installed, Manifest, Entry, Versions
      <3> QED  BY <3>1, <3>2, <3>3
    <2> HIDE DEF to
    <2>7. PluginTypeOK'
      <3>1. \A n \in Managers : InstallOK(n)'
        BY <1>0, <2>3, <2>4, <2>5 DEF PluginTypeOK, InstallOK
      <3> QED  BY <1>0, <2>3, <3>1 DEF PluginTypeOK
    <2>8. OneAtATime'  BY <1>0, <2>1, <2>3, <2>4 DEF OneAtATime, PluginTypeOK
    <2>9. ASSUME NEW n \in Managers PROVE Older(n)'
      <3>1. CASE n = m  BY <1>0, <2>3, <2>4, <2>6, <3>1 DEF Older, PluginTypeOK, Installed
      <3>2. CASE n # m  BY <1>0, <2>3, <3>2 DEF Older, PluginTypeOK, Installed
      <3> QED  BY <3>1, <3>2
    <2> QED  BY <1>0, <2>3, <2>7, <2>8, <2>9 DEF PInv, NotAhead, UpToDateIsWhole, Installed
  <1>5. CASE Download(m)
    <2>1. install[m] # NoInstall /\ install[m].at = "download"  BY <1>5 DEF Download, NoInstall
    <2>2. q \in Slugs /\ install[m].entry \in Entry /\ install[m].entry.version <= offered[q].version
      BY <2>1, AtHand
    <2>3. UNCHANGED <<offered, file, manifest, overlapped, repeated>>  BY <1>5 DEF Download
    <2>4. CASE Leave(m)  BY <2>3, <2>4, StepAside DEF Leave
    <2>5. ASSUME NEW data \in {install[m].entry.version, Other},
                 install' = [install EXCEPT ![m] = [at |-> "write", slug |-> q, entry |-> install[m].entry,
                                                    data |-> data]]
          PROVE  PInv'
      <3> DEFINE to == [at |-> "write", slug |-> q, entry |-> install[m].entry, data |-> data]
      <3>1. data \in Contents  BY <2>2 DEF Contents, Entry
      <3>2. to \in Writing /\ to.slug = q /\ to.entry = install[m].entry /\ to.at = "write"
        BY <2>2, <3>1 DEF Writing
      <3>3. install' = [install EXCEPT ![m] = to]  BY <2>5
      <3> HIDE DEF to
      <3>4. PluginTypeOK'
        <4>1. \A n \in Managers : InstallOK(n)'
          BY <1>0, <2>2, <2>3, <3>2, <3>3 DEF PluginTypeOK, InstallOK
        <4> QED  BY <1>0, <2>3, <3>3, <4>1 DEF PluginTypeOK
      <3>5. OneAtATime'  BY <1>0, <2>1, <2>3, <3>2, <3>3 DEF OneAtATime, PluginTypeOK
      <3>6. ASSUME NEW n \in Managers PROVE Older(n)'
        <4>1. CASE n = m  BY <1>0, <2>1, <2>3, <3>2, <3>3, <4>1 DEF Older, PluginTypeOK, Installed
        <4>2. CASE n # m  BY <1>0, <2>3, <3>3, <4>2 DEF Older, PluginTypeOK, Installed
        <4> QED  BY <4>1, <4>2
      <3> QED  BY <1>0, <2>3, <3>4, <3>5, <3>6 DEF PInv, NotAhead, UpToDateIsWhole, Installed
    <2> QED  BY <1>5, <2>4, <2>5 DEF Download
  <1>6. CASE Abandon(m)  BY <1>6, StepAside DEF Abandon, Leave
  <1>7. CASE WriteBinary(m) \/ WriteFails(m)
    <2>1. install[m].at = "write" /\ install[m] # NoInstall
      BY <1>7 DEF WriteBinary, WriteFails, NoInstall
    <2>2. install[m] \in Writing /\ q \in Slugs /\ install[m].entry \in Entry
          /\ install[m].entry.version <= offered[q].version
      BY <2>1, AtHand
    <2>3. UNCHANGED <<offered, manifest, overlapped, repeated>>
      BY <1>7 DEF WriteBinary, WriteFails
    <2>4. DOMAIN file' = Slugs /\ \A p \in Slugs \ {q} : file'[p] = file[p]
      BY <1>0, <1>7 DEF WriteBinary, WriteFails, PluginTypeOK
    <2>5. /\ DOMAIN install' = Managers
          /\ \A n \in Managers \ {m} : install'[n] = install[n]
          /\ \/ install'[m] = NoInstall
             \/ /\ install'[m] \in Writing /\ install'[m].slug = q
                /\ install'[m].entry = install[m].entry
                /\ file'[q] = install'[m].data
      <3>1. CASE WriteFails(m)  BY <1>0, <3>1 DEF WriteFails, Leave, PluginTypeOK
      <3>2. CASE WriteBinary(m)
        <4>1. install'[m] = [install[m] EXCEPT !.at = "record"]
              /\ file'[q] = install[m].data
          BY <1>0, <2>2, <3>2 DEF WriteBinary, PluginTypeOK
        <4> QED  BY <1>0, <2>2, <3>2, <4>1 DEF WriteBinary, PluginTypeOK, Writing
      <3> QED  BY <1>7, <3>1, <3>2
    <2>6. PluginTypeOK'
      <3>1. ASSUME NEW n \in Managers PROVE InstallOK(n)'
        <4>1. CASE n = m  BY <2>2, <2>3, <2>5, <4>1 DEF InstallOK
        <4>2. CASE n # m  BY <1>0, <2>3, <2>5, <4>2 DEF PluginTypeOK, InstallOK
        <4> QED  BY <4>1, <4>2
      <3> QED  BY <1>0, <2>3, <2>4, <2>5, <3>1 DEF PluginTypeOK
    <2>7. OneAtATime'  BY <1>0, <2>1, <2>3, <2>5 DEF OneAtATime
    <2>8. q \in overlapped \union repeated \/ (Installed(q) => manifest[q].version < install[m].entry.version)
      BY <1>0, <2>1 DEF Older
    <2>9. ASSUME NEW n \in Managers PROVE Older(n)'
      <3>1. CASE n = m  BY <2>3, <2>5, <2>8, <3>1 DEF Older, NoInstall, Installed
      <3>2. CASE n # m
        <4>1. CASE install[n].slug = q /\ install[n].at \in {"download", "write", "record"}
          <5>1. q \in overlapped  BY <1>0, <2>1, <3>2, <4>1 DEF OneAtATime, NoInstall
          <5> QED  BY <2>3, <2>5, <3>2, <4>1, <5>1 DEF Older
        <4>2. CASE install[n].slug # q /\ install[n].at \in {"download", "write", "record"}
          <5>1. install[n].slug \in Slugs  BY <4>2, AtHand DEF NoInstall
          <5> QED  BY <1>0, <2>3, <2>4, <2>5, <3>2, <4>2, <5>1 DEF Older, Installed
        <4>3. CASE install[n].at \notin {"download", "write", "record"}
          BY <2>5, <3>2, <4>3 DEF Older
        <4> QED  BY <4>1, <4>2, <4>3
      <3> QED  BY <3>1, <3>2
    <2>10. UpToDateIsWhole'
      <3>1. SUFFICES ASSUME NEW p \in Slugs \ (overlapped \union repeated), Installed(p),
                            manifest[p].version = offered[p].version
                     PROVE  file'[p] = manifest[p].sum
        BY <2>3 DEF UpToDateIsWhole, Installed
      <3>2. CASE p = q
        <4>1. manifest[q].version < install[m].entry.version  BY <2>8, <3>1, <3>2
        <4>2. manifest[q].version \in Nat /\ install[m].entry.version \in Nat /\ offered[q].version \in Nat
          BY <1>0, <2>2, <3>1, <3>2 DEF PluginTypeOK, Installed, Manifest, Entry, Versions, NotFound
        <4> QED  BY <2>2, <3>1, <3>2, <4>1, <4>2
      <3>3. CASE p # q  BY <1>0, <2>4, <3>1, <3>3 DEF UpToDateIsWhole
      <3> QED  BY <3>2, <3>3
    <2> QED  BY <1>0, <2>3, <2>6, <2>7, <2>9, <2>10 DEF PInv, NotAhead, Installed
  <1>8. CASE SaveManifest(m)
    <2>1. install[m].at = "record" /\ install[m] # NoInstall  BY <1>8 DEF SaveManifest, NoInstall
    <2>2. install[m] \in Writing /\ q \in Slugs /\ install[m].entry \in Entry
          /\ install[m].entry.version <= offered[q].version
      BY <2>1, AtHand
    <2> DEFINE new == [version |-> install[m].entry.version, sum |-> install[m].data]
    <2>3. /\ UNCHANGED <<offered, file, overlapped, repeated>>
          /\ \A p \in Slugs \ {q} : manifest'[p] = manifest[p]
          /\ manifest'[q] = new \/ manifest'[q] = Torn
          /\ DOMAIN manifest' = Slugs
      BY <1>0, <1>8, <2>2 DEF SaveManifest, PluginTypeOK
    <2>4. new \in Manifest /\ new.version = install[m].entry.version /\ new.sum = install[m].data
      BY <2>2 DEF Manifest, Writing, Entry
    <2> HIDE DEF new
    <2>5. /\ DOMAIN install' = Managers /\ install'[m] = NoInstall
          /\ \A n \in Managers \ {m} : install'[n] = install[n]
      BY <1>0, <1>8 DEF SaveManifest, Leave, PluginTypeOK
    <2>6. manifest' \in [Slugs -> Manifest \union {None, Torn}]
      <3>1. \A p \in Slugs : manifest'[p] \in Manifest \union {None, Torn}
        BY <1>0, <2>3, <2>4 DEF PluginTypeOK
      <3>2. manifest' = [p \in Slugs |-> manifest'[p]]  BY <1>0, <1>8 DEF SaveManifest, PluginTypeOK
      <3> QED  BY <3>1, <3>2
    <2>7. PluginTypeOK'
      <3>1. \A n \in Managers : InstallOK(n)'  BY <1>0, <2>3, <2>5 DEF PluginTypeOK, InstallOK
      <3> QED  BY <1>0, <2>3, <2>5, <2>6, <3>1 DEF PluginTypeOK
    <2>8. NotAhead'
      <3>1. ASSUME NEW p \in Slugs, Installed(p)' PROVE manifest'[p].version <= offered[p].version
        <4>1. CASE p = q  BY <2>2, <2>3, <2>4, <3>1, <4>1 DEF Installed
        <4>2. CASE p # q  BY <1>0, <2>3, <3>1, <4>2 DEF NotAhead, Installed
        <4> QED  BY <4>1, <4>2
      <3> QED  BY <2>3, <3>1 DEF NotAhead
    <2>9. OneAtATime'  BY <1>0, <2>3, <2>5 DEF OneAtATime
    <2>10. ASSUME NEW n \in Managers PROVE Older(n)'
      <3>1. CASE n = m  BY <2>5, <3>1 DEF Older, NoInstall
      <3>2. CASE n # m
        <4>1. CASE install[n].slug = q /\ install[n].at \in {"download", "write", "record"}
          <5>1. q \in overlapped  BY <1>0, <2>1, <3>2, <4>1 DEF OneAtATime, NoInstall
          <5> QED  BY <2>3, <2>5, <3>2, <4>1, <5>1 DEF Older
        <4>2. CASE install[n].slug # q /\ install[n].at \in {"download", "write", "record"}
          <5>1. install[n].slug \in Slugs  BY <4>2, AtHand DEF NoInstall
          <5> QED  BY <1>0, <2>3, <2>5, <3>2, <4>2, <5>1 DEF Older, Installed
        <4>3. CASE install[n].at \notin {"download", "write", "record"}
          BY <2>5, <3>2, <4>3 DEF Older
        <4> QED  BY <4>1, <4>2, <4>3
      <3> QED  BY <3>1, <3>2
    <2>11. UpToDateIsWhole'
      <3>1. SUFFICES ASSUME NEW p \in Slugs \ (overlapped \union repeated), Installed(p)',
                            manifest'[p].version = offered[p].version
                     PROVE  file[p] = manifest'[p].sum
        BY <2>3 DEF UpToDateIsWhole
      <3>2. CASE p = q
        <4>1. manifest'[q] = new  BY <2>3, <3>1, <3>2 DEF Installed
        <4>2. file[q] = install[m].data  BY <1>0, <2>1, <3>1, <3>2 DEF Older
        <4> QED  BY <2>4, <3>2, <4>1, <4>2
      <3>3. CASE p # q  BY <1>0, <2>3, <3>1, <3>3 DEF UpToDateIsWhole, Installed
      <3> QED  BY <3>2, <3>3
    <2> QED  BY <2>7, <2>8, <2>9, <2>10, <2>11 DEF PInv
  <1> QED  BY <1>2, <1>3, <1>4, <1>5, <1>6, <1>7, <1>8 DEF ManagerStep

LEMMA PStep == ASSUME PInv, [Next]_vars PROVE PInv'
  <1>0. PluginTypeOK /\ NotAhead /\ OneAtATime /\ (\A n \in Managers : Older(n)) /\ UpToDateIsWhole
    BY DEF PInv
  <1>1. CASE UNCHANGED pluginVars
    BY <1>0, <1>1 DEF PInv, PluginTypeOK, NotAhead, OneAtATime, Older, UpToDateIsWhole, InstallOK, Installed,
                      pluginVars
  <1>2. ASSUME NEW p \in Slugs, Publish(p) PROVE PInv'
    <2>1. UNCHANGED <<file, manifest, install, overlapped, repeated>>  BY <1>2 DEF Publish
    <2>2. /\ offered[p].version \in Nat /\ offered[p].version < MaxVersion
          /\ \E hashed \in BOOLEAN :
                offered' = [offered EXCEPT ![p] = [version |-> offered[p].version + 1, hashed |-> hashed]]
      <3>1. offered[p] \in Entry \/ offered[p] = NotFound  BY <1>0 DEF PluginTypeOK
      <3>2. \A e \in Entry : e.version \in Nat  BY DEF Entry, Versions
      <3>3. NotFound.version \in Nat  BY DEF NotFound
      <3>4. offered[p].version \in Nat  BY <3>1, <3>2, <3>3
      <3> QED  BY <1>2, <3>4 DEF Publish
    <2>3. PICK hashed \in BOOLEAN :
            offered' = [offered EXCEPT ![p] = [version |-> offered[p].version + 1, hashed |-> hashed]]
      BY <2>2
    <2>4. [version |-> offered[p].version + 1, hashed |-> hashed] \in Entry
      BY <2>2, PluginAssumption DEF Entry, Versions
    <2>5. offered' \in [Slugs -> Entry \union {NotFound}]  BY <1>0, <2>3, <2>4 DEF PluginTypeOK
    <2>6. /\ offered'[p].version = offered[p].version + 1
          /\ \A s \in Slugs \ {p} : offered'[s] = offered[s]
      BY <1>0, <2>3 DEF PluginTypeOK
    <2>7. ASSUME NEW m \in Managers PROVE InstallOK(m)'
      <3>1. CASE install[m] = NoInstall \/ install[m] \in Fetching \union Comparing
        BY <2>1, <3>1 DEF InstallOK
      <3>2. CASE install[m] \in Loading \union Writing
        <4>1. install[m].entry.version \in Nat /\ install[m].slug \in Slugs
          BY <3>2 DEF Loading, Writing, Entry, Versions
        <4>2. install[m].entry.version <= offered[install[m].slug].version
          BY <1>0, <3>2 DEF PluginTypeOK, InstallOK, NoInstall, Fetching, Comparing, Loading, Writing
        <4>3. install[m].entry.version <= offered'[install[m].slug].version
          <5>1. CASE install[m].slug = p  BY <2>2, <2>6, <4>1, <4>2, <5>1
          <5>2. CASE install[m].slug # p  BY <2>6, <4>1, <4>2, <5>2
          <5> QED  BY <5>1, <5>2
        <4> QED  BY <2>1, <3>2, <4>3 DEF InstallOK
      <3> QED  BY <1>0, <3>1, <3>2 DEF PluginTypeOK, InstallOK
    <2>8. PluginTypeOK'  BY <1>0, <2>1, <2>5, <2>7 DEF PluginTypeOK
    <2>9. ASSUME NEW s \in Slugs, Installed(s)
          PROVE  /\ manifest[s].version <= offered'[s].version
                 /\ s = p => manifest[s].version # offered'[s].version
      <3>1. manifest[s].version \in Nat /\ manifest[s].version <= offered[s].version
        BY <1>0, <2>9 DEF PluginTypeOK, NotAhead, Installed, Manifest, Versions
      <3>2. CASE s = p  BY <2>2, <2>6, <3>1, <3>2
      <3>3. CASE s # p  BY <2>6, <3>1, <3>3
      <3> QED  BY <3>2, <3>3
    <2>10. NotAhead'  BY <2>1, <2>9 DEF NotAhead, Installed
    <2>11. OneAtATime' /\ \A m \in Managers : Older(m)'
      BY <1>0, <2>1 DEF OneAtATime, Older, Installed
    <2>12. UpToDateIsWhole'  BY <1>0, <2>1, <2>6, <2>9 DEF UpToDateIsWhole, Installed
    <2> QED  BY <2>8, <2>10, <2>11, <2>12 DEF PInv
  <1>3. CASE PluginNext  BY <1>2, <1>3, ManagerKeeps DEF PluginNext
  <1> QED  BY <1>1, <1>3 DEF Next, vars

\* A plugin that Update calls up to date has the binary its manifest was written for, unless two
\* managers worked on it at once or its version was installed again.
THEOREM UpToDateMeansWhole == Spec => []UpToDateIsWhole
  <1>1. PInv => UpToDateIsWhole  BY DEF PInv
  <1> QED  BY <1>1, PInit, PStep, PTL DEF Spec
===============================================================================
