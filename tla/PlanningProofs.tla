---------------------------- MODULE PlanningProofs ----------------------------
(***************************************************************************)
(* Theorems about the round table, its session and the approval of scopes,  *)
(* for every number of terminals and approvals, every answer of the planner *)
(* and every scope the user may write.                                     *)
(***************************************************************************)
EXTENDS PlanningProps, SequenceTheorems, TLAPS

-------------------------------------------------------------------------------
(* Types *)

\* The planner gives every ticket an id, whatever the model left out.
LEMMA GeneratedScope ==
    ASSUME NEW plan \in Plans
    PROVE  GenerateScope(plan) \in Seq(TicketIDs)
  <1>1. plan \in Seq(PlanItem)  BY ScopeAssumption
  <1>2. \A i \in 1..Len(plan) : plan[i] \in PlanItem  BY <1>1
  <1>3. DOMAIN plan = 1..Len(plan) /\ Len(plan) \in Nat  BY <1>1
  <1>4. \A i \in 1..Len(plan) : GenerateScope(plan)[i] \in TicketIDs
    BY <1>2, <1>3 DEF GenerateScope, PlanItem, TicketIDs
  <1>5. DOMAIN GenerateScope(plan) = 1..Len(plan)  BY <1>3 DEF GenerateScope
  <1>6. GenerateScope(plan) \in [1..Len(plan) -> TicketIDs]
    BY <1>4, <1>5 DEF GenerateScope
  <1> QED  BY <1>3, <1>6

\* What an approval reads next is a ticket of its scope.
LEMMA NextTicket ==
    ASSUME TypeOK, SendInv, NEW a \in Approvals, Running(a)
    PROVE  /\ loaded[a] \in Seq(TicketIDs) /\ loaded[a] # <<>>
           /\ next[a] \in 1..Len(loaded[a])
           /\ loaded[a][next[a]] \in TicketIDs
  <1>1. loaded[a] \in Seq(TicketIDs) /\ next[a] \in Nat \ {0}
    BY DEF TypeOK, ApprovalTypeOK
  <1>2. next[a] <= Len(loaded[a])  BY DEF SendInv
  <1> QED  BY <1>1, <1>2 DEF Running

\* A step of the approvals, or none of them, keeps their types.
LEMMA ApprovalTypes ==
    ASSUME TypeOK, SendInv, [Next]_vars
    PROVE  ApprovalTypeOK'
  <1>0. ApprovalTypeOK  BY DEF TypeOK
  <1>1. CASE UNCHANGED approvalVars
    BY <1>0, <1>1 DEF ApprovalTypeOK, approvalVars
  <1>2. CASE KeepScope
    <2>1. ASSUME NEW s \in Seq(TicketIDs), Keep(s) PROVE ApprovalTypeOK'
      BY <1>0, <2>1 DEF ApprovalTypeOK, Keep
    <2>2. \A t \in Terminals : scope[t] \in Seq(TicketIDs)
      BY DEF TypeOK, TableTypeOK
    <2> QED  BY <1>2, <2>1, <2>2, ScopeAssumption DEF KeepScope
  <1>3. ASSUME NEW a \in Approvals, ApproveScope(a) PROVE ApprovalTypeOK'
    <2>1. CASE Approve(a)
      BY <1>0, <2>1 DEF ApprovalTypeOK, Approve
    <2>2. CASE SubmitNext(a)
      <3>1. Running(a)  BY <2>2 DEF SubmitNext
      <3>2. loaded[a][next[a]] \in TicketIDs  BY <3>1, NextTicket
      <3> QED  BY <1>0, <2>2, <3>2 DEF ApprovalTypeOK, SubmitNext, Insert, Stop
    <2>3. CASE SubmitFails(a)
      <3>1. Running(a)  BY <2>3 DEF SubmitFails
      <3>2. loaded[a][next[a]] \in TicketIDs  BY <3>1, NextTicket
      <3>3. CASE UNCHANGED <<by, next>>
        BY <1>0, <2>3, <3>3 DEF ApprovalTypeOK, SubmitFails, Stop
      <3>4. CASE Insert(loaded[a][next[a]], a) /\ next' = [next EXCEPT ![a] = @ + 1]
        BY <1>0, <2>3, <3>2, <3>4 DEF ApprovalTypeOK, SubmitFails, Insert, Stop
      <3> QED  BY <2>3, <3>3, <3>4 DEF SubmitFails
    <2> QED  BY <1>3, <2>1, <2>2, <2>3 DEF ApproveScope
  <1>4. ASSUME NEW id \in Names, Submit(id) PROVE ApprovalTypeOK'
    BY <1>0, <1>4 DEF ApprovalTypeOK, Submit, SubmitOne, Insert, TicketIDs
  <1>5. ASSUME NEW t \in Terminals,
               \/ StartPlan(t) \/ EndPlan(t) \/ StartResume(t) \/ EndResume(t) \/ Kill(t) \/ Talk(t)
        PROVE  UNCHANGED approvalVars
    BY <1>5 DEF StartPlan, EndPlan, SaveAtEnd, StartResume, EndResume, Kill, Talk
  <1>6. CASE UNCHANGED vars  BY <1>1, <1>6 DEF vars
  <1> QED  BY <1>1, <1>2, <1>3, <1>4, <1>5, <1>6 DEF Next

\* Whatever Start was doing, it is gone when it returns.
LEMMA ClearTypes ==
    ASSUME TableTypeOK, NEW t \in Terminals, NEW s \in TableStages,
           stage' = [stage EXCEPT ![t] = s], Clear(t)
    PROVE  TableTypeOK'
  <1>1. <<>> \in Seq(TicketIDs)  OBVIOUS
  <1>2. scope' \in [Terminals -> Seq(TicketIDs)]  BY <1>1 DEF TableTypeOK, Clear
  <1>3. said' \in [Terminals -> [alpha: Answers, beta: Answers]] /\ forced' \in [Terminals -> BOOLEAN]
    BY DEF TableTypeOK, Clear, Forget, Silence, Answers
  <1>4. stage' \in [Terminals -> TableStages]  BY DEF TableTypeOK
  <1>5. alphaConverged' \in [Terminals -> BOOLEAN] /\ betaConverged' \in [Terminals -> BOOLEAN]
    BY DEF TableTypeOK, Clear
  <1> QED  BY <1>2, <1>3, <1>4, <1>5 DEF TableTypeOK

\* A step of a conversation keeps its types.
LEMMA TalkTypes ==
    ASSUME TableTypeOK, NEW t \in Terminals, Converse(t)
    PROVE  TableTypeOK'
  <1> USE DEF TableTypeOK, TableStages, Move
  <1>1. ASSUME NEW answer \in Answers, AlphaTurn(t, answer) PROVE TableTypeOK'
    BY <1>1 DEF AlphaTurn, Signed, Answers
  <1>2. ASSUME NEW answer \in Answers, BetaTurn(t, answer) PROVE TableTypeOK'
    <2>1. said' \in [Terminals -> [alpha: Answers, beta: Answers]]
      BY <1>2 DEF BetaTurn
    <2> QED  BY <1>2, <2>1 DEF BetaTurn, Signed
  <1>3. CASE ForcePlan(t)  BY <1>3 DEF ForcePlan
  <1>4. CASE Leave(t) \/ GenerateFails(t) \/ Decided(t)
    BY <1>4, ClearTypes DEF Leave, GenerateFails, Decided, Return
  <1>5. CASE ObjectTo(t)  BY <1>5 DEF ObjectTo
  <1>6. ASSUME NEW plan \in Plans, Generate(t, plan) PROVE TableTypeOK'
    <2>1. scope' \in [Terminals -> Seq(TicketIDs)]
      <3>1. GenerateScope(plan) \in Seq(TicketIDs)  BY GeneratedScope
      <3> QED  BY <1>6, <3>1 DEF Generate
    <2>2. said' \in [Terminals -> [alpha: Answers, beta: Answers]] /\ forced' \in [Terminals -> BOOLEAN]
      BY <1>6 DEF Generate, Forget, Silence, Answers
    <2> QED  BY <1>6, <2>1, <2>2 DEF Generate
  <1>7. ASSUME NEW edited \in Edits, Edit(t, edited) PROVE TableTypeOK'
    BY <1>7, ScopeAssumption DEF Edit
  <1> QED  BY <1>1, <1>2, <1>3, <1>4, <1>5, <1>6, <1>7 DEF Converse

\* Every step keeps the types of the conversations.
LEMMA TableTypes ==
    ASSUME TypeOK, [Next]_vars
    PROVE  TableTypeOK'
  <1>0. TableTypeOK  BY DEF TypeOK
  <1>1. CASE UNCHANGED tableVars  BY <1>0, <1>1 DEF TableTypeOK, tableVars
  <1>2. ASSUME NEW t \in Terminals, StartPlan(t) \/ StartResume(t) PROVE TableTypeOK'
    BY <1>0, <1>2 DEF StartPlan, StartResume, Open, Move, TableTypeOK, TableStages
  <1>3. ASSUME NEW t \in Terminals, EndPlan(t) \/ EndResume(t) \/ Kill(t) PROVE TableTypeOK'
    BY <1>0, <1>3, ClearTypes DEF EndPlan, SaveAtEnd, EndResume, Kill, Close, TableStages
  <1>4. ASSUME NEW t \in Terminals, Talk(t) PROVE TableTypeOK'
    BY <1>0, <1>4, TalkTypes DEF Talk
  <1>5. CASE KeepScope \/ (\E a \in Approvals : ApproveScope(a)) \/ (\E id \in Names : Submit(id))
    BY <1>1, <1>5 DEF KeepScope, ApproveScope, Submit
  <1>6. CASE UNCHANGED vars  BY <1>1, <1>6 DEF vars
  <1> QED  BY <1>2, <1>3, <1>4, <1>5, <1>6 DEF Next

\* And those of the session.
LEMMA SessionTypes ==
    ASSUME TypeOK, [Next]_vars
    PROVE  /\ session' \in SessionStates
           /\ command' \in [Terminals -> Commands]
           /\ unfinished' \subseteq Terminals
           /\ overlapped' \in BOOLEAN
  <1> USE DEF TypeOK, SessionStates, Commands
  <1>1. CASE UNCHANGED sessionVars  BY <1>1 DEF sessionVars
  <1>2. ASSUME NEW t \in Terminals, StartPlan(t) \/ EndPlan(t) PROVE UNCHANGED sessionVars \/
          /\ session' \in SessionStates /\ command' \in [Terminals -> Commands]
          /\ unfinished' \subseteq Terminals /\ overlapped' \in BOOLEAN
    BY <1>2 DEF StartPlan, EndPlan, SaveAtEnd, Save, Left, Planners
  <1>3. ASSUME NEW t \in Terminals, StartResume(t) \/ EndResume(t) \/ Kill(t)
        PROVE  UNCHANGED <<session, unfinished, overlapped>> /\ command' \in [Terminals -> Commands]
    BY <1>3 DEF StartResume, EndResume, Kill
  <1>4. CASE (\E t \in Terminals : Talk(t)) \/ KeepScope
             \/ (\E a \in Approvals : ApproveScope(a)) \/ (\E id \in Names : Submit(id))
    BY <1>1, <1>4 DEF Talk, KeepScope, ApproveScope, Submit
  <1>5. CASE UNCHANGED vars  BY <1>1, <1>5 DEF vars
  <1> QED  BY <1>1, <1>2, <1>3, <1>4, <1>5 DEF Next

-------------------------------------------------------------------------------
(* The invariants *)

\* Approvals: the rows of an approval are those before the ticket it has come to.
LEMMA SendKeeps ==
    ASSUME TypeOK, SendInv, [Next]_vars
    PROVE  SendInv'
  <1>1. CASE UNCHANGED <<by, loaded, next, stopped>>
    BY <1>1 DEF SendInv, Sent, Running
  <1>2. ASSUME NEW a \in Approvals, ApproveScope(a) PROVE SendInv'
    <2>0. loaded \in [Approvals -> Seq(TicketIDs)] /\ next \in [Approvals -> Nat \ {0}]
          /\ by \in [TicketIDs -> Approvals \union {Nobody, Hand}] /\ stopped \subseteq Approvals
          /\ file \in Seq(TicketIDs)
      BY DEF TypeOK, ApprovalTypeOK
    <2>1. CASE Approve(a)
      <3>1. loaded[a] = <<>> /\ Len(loaded[a]) = 0  BY <2>1 DEF Approve
      <3>2. next[a] = 1  BY <2>0, <3>1 DEF SendInv
      <3>3. Sent(a) = {}  BY <3>1, <3>2 DEF SendInv
      <3>4. file # <<>> /\ Len(file) >= 1  BY <2>0, <2>1 DEF Approve
      <3> QED  BY <2>0, <2>1, <3>2, <3>3, <3>4 DEF SendInv, Sent, Approve, Running
    <2>2. ASSUME Running(a), Insert(loaded[a][next[a]], a), next' = [next EXCEPT ![a] = @ + 1],
                 UNCHANGED loaded
          PROVE  /\ Sent(a)' = {loaded[a][i] : i \in 1..next[a]}
                 /\ \A b \in Approvals \ {a} : Sent(b)' = Sent(b)
      <3>1. loaded[a][next[a]] \in TicketIDs /\ next[a] \in 1..Len(loaded[a])
        BY <2>2, NextTicket
      <3>2. \A b \in Approvals \ {a} : Sent(b)' = Sent(b)
        BY <2>0, <2>2, <3>1, ScopeAssumption DEF Sent, Insert
      <3>3. Sent(a)' = Sent(a) \union {loaded[a][next[a]]}
        BY <2>0, <2>2, <3>1 DEF Sent, Insert
      <3>4. Sent(a) = {loaded[a][i] : i \in 1..(next[a] - 1)}  BY DEF SendInv
      <3>5. 1..next[a] = 1..(next[a] - 1) \union {next[a]}  BY <3>1
      <3> QED  BY <3>2, <3>3, <3>4, <3>5
    <2>3. CASE SubmitNext(a)
      <3>1. Running(a) /\ next[a] \in 1..Len(loaded[a])  BY <2>3, NextTicket DEF SubmitNext
      <3>2. /\ Sent(a)' = {loaded[a][i] : i \in 1..next[a]}
            /\ \A b \in Approvals \ {a} : Sent(b)' = Sent(b)
        BY <2>2, <2>3 DEF SubmitNext
      <3>3. next'[a] = next[a] + 1 /\ next'[a] - 1 = next[a]  BY <2>0, <2>3 DEF SubmitNext
      <3>4. ASSUME NEW b \in Approvals \ {a}
            PROVE  next'[b] = next[b] /\ loaded'[b] = loaded[b] /\ (b \in stopped' <=> b \in stopped)
        BY <2>0, <2>3 DEF SubmitNext, Stop
      <3>5. a \in stopped' <=> next[a] = Len(loaded[a])
        BY <2>0, <2>3 DEF SubmitNext, Stop, Running
      <3>6. loaded' = loaded  BY <2>3 DEF SubmitNext
      <3>7. loaded[a] # <<>>  BY <2>0, <3>1
      <3>8. next[a] = Len(loaded[a]) \/ next[a] + 1 <= Len(loaded[a])  BY <2>0, <3>1
      <3>9. ASSUME NEW b \in Approvals
            PROVE  /\ Sent(b)' = {loaded[b][i] : i \in 1..(next'[b] - 1)}
                   /\ next'[b] <= Len(loaded[b]) + 1
                   /\ loaded[b] = <<>> => b \notin stopped'
                   /\ loaded[b] # <<>> /\ b \notin stopped' => next'[b] <= Len(loaded[b])
        <4>1. CASE b = a  BY <2>0, <3>1, <3>2, <3>3, <3>5, <3>7, <3>8, <4>1
        <4>2. CASE b # a  BY <3>2, <3>4, <4>2 DEF SendInv, Running
        <4> QED  BY <4>1, <4>2
      <3> QED  BY <3>6, <3>9 DEF SendInv, Running
    <2>4. CASE SubmitFails(a)
      <3>1. Running(a) /\ next[a] \in 1..Len(loaded[a])  BY <2>4, NextTicket DEF SubmitFails
      <3>2. loaded' = loaded /\ stopped' = stopped \union {a}  BY <2>4 DEF SubmitFails, Stop
      <3>3. CASE UNCHANGED <<by, next>>
        BY <2>0, <3>1, <3>2, <3>3 DEF SendInv, Sent, Running
      <3>4. CASE Insert(loaded[a][next[a]], a) /\ next' = [next EXCEPT ![a] = @ + 1]
        <4>1. /\ Sent(a)' = {loaded[a][i] : i \in 1..next[a]}
              /\ \A b \in Approvals \ {a} : Sent(b)' = Sent(b)
          BY <2>2, <3>1, <3>2, <3>4
        <4>2. next'[a] = next[a] + 1 /\ next'[a] - 1 = next[a]  BY <2>0, <3>4
        <4>3. \A b \in Approvals \ {a} : next'[b] = next[b]  BY <2>0, <3>4
        <4> QED  BY <2>0, <3>1, <3>2, <4>1, <4>2, <4>3 DEF SendInv, Running
      <3> QED  BY <2>4, <3>3, <3>4 DEF SubmitFails
    <2> QED  BY <1>2, <2>1, <2>3, <2>4 DEF ApproveScope
  <1>3. ASSUME NEW id \in Names, Submit(id) PROVE SendInv'
    <2>1. by \in [TicketIDs -> Approvals \union {Nobody, Hand}] /\ id \in TicketIDs
      BY DEF TypeOK, ApprovalTypeOK, TicketIDs
    <2>2. \A a \in Approvals : Sent(a)' = Sent(a)
      BY <1>3, <2>1, ScopeAssumption DEF Submit, SubmitOne, Insert, Sent
    <2> QED  BY <1>3, <2>2 DEF Submit, SubmitOne, SendInv, Running
  <1>4. CASE KeepScope  BY <1>1, <1>4 DEF KeepScope, Keep
  <1>5. ASSUME NEW t \in Terminals,
               \/ StartPlan(t) \/ EndPlan(t) \/ StartResume(t) \/ EndResume(t) \/ Kill(t) \/ Talk(t)
        PROVE  SendInv'
    BY <1>1, <1>5 DEF StartPlan, EndPlan, SaveAtEnd, StartResume, EndResume, Kill, Talk, approvalVars
  <1>6. CASE UNCHANGED vars  BY <1>1, <1>6 DEF vars, approvalVars
  <1> QED  BY <1>2, <1>3, <1>4, <1>5, <1>6 DEF Next

\* Conversations: an agent that asked for more has not signed.
LEMMA TalkKeeps ==
    ASSUME TypeOK, TalkInv, [Next]_vars
    PROVE  TalkInv'
  <1> DEFINE Sound(u) == /\ said[u].alpha = "asks" => ~alphaConverged[u]
                         /\ said[u].beta = "asks" /\ stage[u] # "beta" => ~betaConverged[u]
                         /\ stage[u] = "generate" => forced[u] \/ (alphaConverged[u] /\ betaConverged[u])
  <1>0. TableTypeOK /\ \A u \in Terminals : Sound(u)  BY DEF TypeOK, TalkInv
  <1>1. CASE UNCHANGED tableVars  BY <1>1 DEF TalkInv, tableVars
  <1>2. ASSUME NEW t \in Terminals, NEW s \in TableStages \ {"generate"},
               stage' = [stage EXCEPT ![t] = s], Clear(t)
        PROVE  TalkInv'
    <2>1. ASSUME NEW u \in Terminals PROVE Sound(u)'
      <3>1. CASE u = t  BY <1>0, <1>2, <3>1 DEF TableTypeOK, Clear, Forget, Silence
      <3>2. CASE u # t  BY <1>0, <1>2, <3>2 DEF TableTypeOK, Clear, Forget
      <3> QED  BY <3>1, <3>2
    <2> QED  BY <2>1 DEF TalkInv
  <1>3. ASSUME NEW t \in Terminals, StartPlan(t) \/ StartResume(t) PROVE TalkInv'
    BY <1>0, <1>3 DEF StartPlan, StartResume, Open, Move, TalkInv, TableTypeOK
  <1>4. ASSUME NEW t \in Terminals, EndPlan(t) \/ EndResume(t) \/ Kill(t) PROVE TalkInv'
    BY <1>2, <1>4 DEF EndPlan, SaveAtEnd, EndResume, Kill, Close, TableStages
  <1>5. ASSUME NEW t \in Terminals, Talk(t) PROVE TalkInv'
    <2> USE DEF Move
    <2>1. ASSUME NEW answer \in Answers, AlphaTurn(t, answer) PROVE TalkInv'
      <3>1. ASSUME NEW u \in Terminals PROVE Sound(u)'
        <4>1. CASE u = t  BY <1>0, <2>1, <4>1 DEF AlphaTurn, Signed, TableTypeOK
        <4>2. CASE u # t  BY <1>0, <2>1, <4>2 DEF AlphaTurn, TableTypeOK
        <4> QED  BY <4>1, <4>2
      <3> QED  BY <3>1 DEF TalkInv
    <2>2. ASSUME NEW answer \in Answers, BetaTurn(t, answer) PROVE TalkInv'
      <3>1. ASSUME NEW u \in Terminals PROVE Sound(u)'
        <4>1. CASE u = t  BY <1>0, <2>2, <4>1 DEF BetaTurn, Signed, TableTypeOK
        <4>2. CASE u # t  BY <1>0, <2>2, <4>2 DEF BetaTurn, TableTypeOK
        <4> QED  BY <4>1, <4>2
      <3> QED  BY <3>1 DEF TalkInv
    <2>3. CASE ForcePlan(t)  BY <1>0, <2>3 DEF ForcePlan, TalkInv, TableTypeOK
    <2>4. CASE Leave(t) \/ GenerateFails(t) \/ Decided(t)
      BY <1>2, <2>4 DEF Leave, GenerateFails, Decided, Return, TableStages
    <2>5. CASE ObjectTo(t)  BY <1>0, <2>5 DEF ObjectTo, TalkInv, TableTypeOK
    <2>6. ASSUME NEW plan \in Plans, Generate(t, plan) PROVE TalkInv'
      <3>1. ASSUME NEW u \in Terminals PROVE Sound(u)'
        <4>1. CASE u = t  BY <1>0, <2>6, <4>1 DEF Generate, Forget, Silence, TableTypeOK
        <4>2. CASE u # t  BY <1>0, <2>6, <4>2 DEF Generate, Forget, TableTypeOK
        <4> QED  BY <4>1, <4>2
      <3> QED  BY <3>1 DEF TalkInv
    <2>7. ASSUME NEW edited \in Edits, Edit(t, edited) PROVE TalkInv'
      BY <2>7 DEF Edit, TalkInv
    <2> QED  BY <1>5, <2>1, <2>2, <2>3, <2>4, <2>5, <2>6, <2>7 DEF Talk, Converse
  <1>6. CASE KeepScope \/ (\E a \in Approvals : ApproveScope(a)) \/ (\E id \in Names : Submit(id))
    BY <1>1, <1>6 DEF KeepScope, ApproveScope, Submit
  <1>7. CASE UNCHANGED vars  BY <1>1, <1>7 DEF vars
  <1> QED  BY <1>3, <1>4, <1>5, <1>6, <1>7 DEF Next

\* The session file: while at most one plan runs, nothing that ends well hides one that did not.
LEMMA SessionKeeps ==
    ASSUME TypeOK, SessionInv, [Next]_vars
    PROVE  SessionInv'
  <1> SUFFICES ASSUME ~overlapped' PROVE SessionInv'  BY DEF SessionInv
  <1>0. ~overlapped /\ overlapped \in BOOLEAN /\ command \in [Terminals -> Commands]
        /\ session \in SessionStates /\ unfinished \subseteq Terminals
    <2>1. overlapped => overlapped'
      BY DEF Next, StartPlan, EndPlan, SaveAtEnd, StartResume, EndResume, Kill, Talk, KeepScope,
             ApproveScope, Submit, sessionVars, vars
    <2> QED  BY <2>1 DEF TypeOK
  <1>1. CASE UNCHANGED sessionVars  BY <1>1 DEF SessionInv, Planners, sessionVars
  <1>2. ASSUME NEW t \in Terminals, StartPlan(t) PROVE SessionInv'
    <2>1. Planners = {}  BY <1>0, <1>2 DEF StartPlan
    <2>2. Planners' = {t}  BY <1>0, <1>2, <2>1 DEF StartPlan, Planners
    <2>3. session' = "active" \/ session' = session \/ session' = "torn"
      BY <1>2 DEF StartPlan, Save
    <2>4. session' # "active" => unfinished' = unfinished  BY <1>2 DEF StartPlan
    <2> QED  BY <1>0, <2>2, <2>3, <2>4 DEF SessionInv
  <1>3. ASSUME NEW t \in Terminals, EndPlan(t) PROVE SessionInv'
    <2>1. PICK s \in {"completed", "paused"} :
              SaveAtEnd(t, s) /\ command[t] = "plan" /\ (s = "completed" <=> stage[t] = "ok")
      BY <1>3 DEF EndPlan
    <2>2. Planners = {t}  BY <1>0, <2>1 DEF SessionInv, Planners
    <2>3. Planners' = {}  BY <1>0, <2>1, <2>2 DEF SaveAtEnd, Planners
    <2>4. session' = s \/ session' = session \/ session' = "torn"  BY <2>1 DEF SaveAtEnd, Save
    <2>5. CASE s = "completed" /\ session' = s
      BY <2>1, <2>2, <2>3, <2>5 DEF SaveAtEnd, Left, SessionInv
    <2>6. CASE session' \in {"paused", "torn"}  BY <2>3, <2>6 DEF SessionInv
    <2>7. CASE session' = session
      <3>1. unfinished' \subseteq unfinished  BY <2>1, <2>7 DEF SaveAtEnd, Left
      <3> QED  BY <1>0, <2>3, <2>7, <3>1 DEF SessionInv
    <2> QED  BY <2>4, <2>5, <2>6, <2>7
  <1>4. ASSUME NEW t \in Terminals, StartResume(t) \/ EndResume(t) \/ Kill(t) PROVE SessionInv'
    <2>1. UNCHANGED <<session, unfinished>>  BY <1>4 DEF StartResume, EndResume, Kill
    <2>2. Planners' \subseteq Planners
      BY <1>0, <1>4 DEF StartResume, EndResume, Kill, Planners
    <2> QED  BY <1>0, <2>1, <2>2 DEF SessionInv
  <1>5. CASE (\E t \in Terminals : Talk(t)) \/ KeepScope
             \/ (\E a \in Approvals : ApproveScope(a)) \/ (\E id \in Names : Submit(id))
    BY <1>1, <1>5 DEF Talk, KeepScope, ApproveScope, Submit
  <1>6. CASE UNCHANGED vars  BY <1>1, <1>6 DEF vars
  <1> QED  BY <1>2, <1>3, <1>4, <1>5, <1>6 DEF Next

-------------------------------------------------------------------------------
(* The theorems *)

\* It begins with the invariant.
LEMMA InitInv == Init => IInv
  <1> SUFFICES ASSUME Init PROVE IInv  OBVIOUS
  <1>1. ApprovalTypeOK
    BY DEF Init, ApprovalInit, ApprovalTypeOK
  <1>2. TableTypeOK
    BY DEF Init, TableInit, TableTypeOK, TableStages, Silence, Answers
  <1>3. TypeOK  BY <1>1, <1>2 DEF Init, TypeOK, SessionStates, Commands
  <1>4. TalkInv  BY DEF Init, TableInit, Silence, TalkInv
  <1>5. SendInv
    <2>1. \A a \in Approvals : Sent(a) = {}
      BY ScopeAssumption DEF Init, ApprovalInit, Sent
    <2>2. ASSUME NEW a \in Approvals PROVE {loaded[a][i] : i \in 1..(next[a] - 1)} = {}
      <3>1. next[a] = 1  BY DEF Init, ApprovalInit
      <3> QED  BY <3>1
    <2>3. ASSUME NEW a \in Approvals
          PROVE  loaded[a] = <<>> /\ Len(loaded[a]) = 0 /\ next[a] = 1 /\ a \notin stopped
      BY DEF Init, ApprovalInit
    <2>4. ASSUME NEW a \in Approvals PROVE ~Running(a) /\ next[a] <= Len(loaded[a]) + 1
      <3>1. ~Running(a)  BY <2>3 DEF Running
      <3>2. next[a] = 1 /\ Len(loaded[a]) = 0  BY <2>3
      <3>3. next[a] <= Len(loaded[a]) + 1  BY ONLY <3>2
      <3> QED  BY <3>1, <3>3
    <2>5. \A a \in Approvals : Sent(a) = {loaded[a][i] : i \in 1..(next[a] - 1)}  BY <2>1, <2>2
    <2> QED  BY <2>3, <2>4, <2>5, Zenon DEF SendInv
  <1>6. SessionInv  BY DEF Init, SessionInv, Planners
  <1> QED  BY <1>3, <1>4, <1>5, <1>6 DEF IInv

\* Every step keeps it.
LEMMA StepInv == IInv /\ [Next]_vars => IInv'
  BY ApprovalTypes, TableTypes, SessionTypes, SendKeeps, TalkKeeps, SessionKeeps DEF IInv, TypeOK

\* The invariant holds throughout.
LEMMA Invariance == Spec => []IInv
  BY InitInv, StepInv, PTL DEF Spec

\* Types: no answer, edit, failure or kill brings a conversation, a session or an approval into
\* a state the code has no name for, and every generated ticket has an id.
THEOREM PlanningTypeCorrect == Spec => []TypeOK
  <1>1. IInv => TypeOK  BY DEF IInv
  <1> QED  BY <1>1, Invariance, PTL

\* Planning that nobody forces never starts over an agent's questions of that round.
THEOREM QuestionsHeard == Spec => []NobodyAskedLast
  <1>1. IInv => NobodyAskedLast
    BY DEF IInv, TypeOK, TableTypeOK, TalkInv, NobodyAskedLast
  <1> QED  BY <1>1, Invariance, PTL

\* An interrupted plan stays visible in the session file, unless two plans overlapped.
THEOREM InterruptionKept == Spec => []UnfinishedStaysResumable
  <1>1. IInv => UnfinishedStaysResumable
    BY DEF IInv, SessionInv, UnfinishedStaysResumable
  <1> QED  BY <1>1, Invariance, PTL

\* However many approvals run, of scopes with one first ticket only one gets any row in.
THEOREM FirstTicketWins == Spec => []OneApprovalPerStart
  <1>1. ASSUME IInv, NEW a \in Approvals, Sent(a) # {}
        PROVE  by[loaded[a][1]] = a
    <2>1. next[a] \in Nat \ {0} /\ Sent(a) = {loaded[a][i] : i \in 1..(next[a] - 1)}
      BY <1>1 DEF IInv, TypeOK, ApprovalTypeOK, SendInv
    <2>2. 1 \in 1..(next[a] - 1)  BY <1>1, <2>1
    <2>3. loaded[a][1] \in Sent(a)  BY <2>1, <2>2
    <2> QED  BY <2>3 DEF Sent
  <1>2. IInv => OneApprovalPerStart  BY <1>1 DEF OneApprovalPerStart
  <1> QED  BY <1>2, Invariance, PTL

\* One step of an approval as ScopeSubmission sees it, or a stutter.
LEMMA SubmissionStep ==
    ASSUME IInv, [Next]_vars
    PROVE  [Submission!Next]_<<loaded, [a \in Approvals |-> Sent(a)]>>
  <1> DEFINE Rows == [a \in Approvals |-> Sent(a)]
  <1>0. loaded \in [Approvals -> Seq(TicketIDs)] /\ next \in [Approvals -> Nat \ {0}]
        /\ by \in [TicketIDs -> Approvals \union {Nobody, Hand}] /\ file \in Seq(TicketIDs)
    BY DEF IInv, TypeOK, ApprovalTypeOK
  <1>1. ASSUME UNCHANGED <<loaded, by>> PROVE UNCHANGED <<loaded, Rows>>
    BY <1>1 DEF Sent
  <1>2. ASSUME NEW a \in Approvals, Approve(a) PROVE Submission!Next
    <2>1. UNCHANGED Rows  BY <1>2 DEF Approve, Sent
    <2>2. loaded'[a] = file  BY <1>0, <1>2 DEF Approve
    <2>3. loaded[a] = <<>> /\ loaded' = [loaded EXCEPT ![a] = loaded'[a]] /\ loaded'[a] \in Seq(TicketIDs)
      BY <1>0, <1>2, <2>2 DEF Approve
    <2> QED  BY <2>1, <2>3 DEF Submission!Next, Submission!Read
  <1>3. ASSUME NEW a \in Approvals, Running(a), Insert(loaded[a][next[a]], a), UNCHANGED loaded
        PROVE  Submission!Next
    <2>0. TypeOK /\ SendInv  BY DEF IInv
    <2>1. loaded[a][next[a]] \in TicketIDs /\ next[a] \in 1..Len(loaded[a])
      BY <1>3, <2>0, NextTicket
    <2>2. \A b \in Approvals \ {a} : Sent(b)' = Sent(b)
      BY <1>0, <1>3, <2>1, ScopeAssumption DEF Sent, Insert
    <2>3. Sent(a)' = Sent(a) \union {loaded[a][next[a]]}
      BY <1>0, <1>3, <2>1 DEF Sent, Insert
    <2>4. Sent(a) = {loaded[a][i] : i \in 1..(next[a] - 1)}  BY <2>0 DEF SendInv
    <2>5. 1..next[a] = 1..(next[a] - 1) \union {next[a]}  BY <2>1
    <2>6. Sent(a)' = {loaded[a][i] : i \in 1..next[a]}  BY <2>3, <2>4, <2>5
    <2>7. Rows[a] = Submission!FirstOf(a, next[a] - 1)  BY <2>4 DEF Submission!FirstOf
    <2>8. Rows' = [Rows EXCEPT ![a] = Submission!FirstOf(a, next[a])]
      BY <2>2, <2>6 DEF Submission!FirstOf
    <2>9. Submission!Send(a)  BY <1>3, <2>1, <2>7, <2>8 DEF Submission!Send
    <2> QED  BY <2>9 DEF Submission!Next
  <1>4. ASSUME NEW a \in Approvals, ApproveScope(a) PROVE [Submission!Next]_<<loaded, Rows>>
    <2>1. CASE Approve(a)  BY <1>2, <2>1
    <2>2. CASE SubmitNext(a)  BY <1>3, <2>2 DEF SubmitNext
    <2>3. CASE SubmitFails(a)  BY <1>1, <1>3, <2>3 DEF SubmitFails
    <2> QED  BY <1>4, <2>1, <2>2, <2>3 DEF ApproveScope
  <1>5. ASSUME NEW id \in Names, Submit(id) PROVE UNCHANGED <<loaded, Rows>>
    <2>1. \A a \in Approvals : Sent(a)' = Sent(a)
      BY <1>0, <1>5, ScopeAssumption DEF Submit, SubmitOne, Insert, Sent, TicketIDs
    <2> QED  BY <1>5, <2>1 DEF Submit, SubmitOne
  <1>6. CASE KeepScope  BY <1>1, <1>6 DEF KeepScope, Keep
  <1>7. ASSUME NEW t \in Terminals,
               \/ StartPlan(t) \/ EndPlan(t) \/ StartResume(t) \/ EndResume(t) \/ Kill(t) \/ Talk(t)
        PROVE  UNCHANGED <<loaded, Rows>>
    BY <1>1, <1>7 DEF StartPlan, EndPlan, SaveAtEnd, StartResume, EndResume, Kill, Talk, approvalVars
  <1>8. CASE UNCHANGED vars  BY <1>1, <1>8 DEF vars, approvalVars
  <1> QED  BY <1>4, <1>5, <1>6, <1>7, <1>8 DEF Next

\* Approvals keep the promise of ScopeSubmission, whatever else inserts tickets meanwhile,
\* whatever becomes of the file, and however each of them ends.
THEOREM ScopesGoInOrder == Spec => InOrder
  <1>1. Init => Submission!Init
    BY ScopeAssumption DEF Init, ApprovalInit, Submission!Init, Sent
  <1>2. IInv /\ [Next]_vars => [Submission!Next]_<<loaded, [a \in Approvals |-> Sent(a)]>>
    BY SubmissionStep
  <1> QED  BY <1>1, <1>2, Invariance, PTL DEF Spec, InOrder, Submission!Spec
===============================================================================
