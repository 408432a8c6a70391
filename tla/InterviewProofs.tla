---------------------------- MODULE InterviewProofs ----------------------------
(***************************************************************************)
(* The theorem about the interviews, for every number of messages, phases   *)
(* and recalled messages, and whatever fails, is killed or resumed.        *)
(***************************************************************************)
EXTENDS WorkshopProps, SequenceTheorems, TLAPS

Entries == [role: {"user", "assistant"}, phase: Nat]

EndsWith(log, message) == log # <<>> /\ log[Len(log)] = message

EngineShape ==
    /\ DOMAIN step = Procs /\ DOMAIN job = Procs
    /\ DOMAIN betaStep = BetaProcs /\ DOMAIN betaJob = BetaProcs
    /\ DOMAIN turn = Sessions
    /\ phase \in [Sessions -> Nat]
    /\ history \in [Sessions -> Seq(Entries)]
    /\ graph \in [Sessions -> Seq(Entries)]

\* The engine is at work only while its process is in the conversation; an answer is awaited
\* only where the last message is the user's, of this phase.
Awaited(s) ==
    /\ turn[s] # "off" => InSession(s)
    /\ s \notin lost /\ turn[s] = "answer" =>
          EndsWith(history[s], Message(s, "user")) /\ EndsWith(graph[s], Message(s, "user"))

TalkInv ==
    /\ EngineShape
    /\ \A s \in Sessions : Awaited(s)
    /\ AnswersFollowQuestions

-------------------------------------------------------------------------------
(* Lists of messages *)

LEMMA AnsweredAppend ==
    ASSUME NEW log \in Seq(Entries), NEW m \in Entries, Answered(log),
           m.role = "assistant" => EndsWith(log, [role |-> "user", phase |-> m.phase])
    PROVE  /\ Append(log, m) \in Seq(Entries)
           /\ Answered(Append(log, m))
           /\ EndsWith(Append(log, m), m)
  <1> DEFINE new == Append(log, m)
  <1>1. /\ new \in Seq(Entries) /\ Len(new) = Len(log) + 1 /\ Len(log) \in Nat
        /\ new[Len(log) + 1] = m
        /\ \A i \in 1..Len(log) : new[i] = log[i]
    BY AppendProperties
  <1>2. ASSUME NEW i \in 2..Len(new), new[i].role = "assistant"
        PROVE  new[i - 1] = [role |-> "user", phase |-> new[i].phase]
    <2>1. CASE i \in 2..Len(log)
      <3>1. i \in 1..Len(log) /\ i - 1 \in 1..Len(log)  BY <2>1, <1>1
      <3>2. new[i] = log[i] /\ new[i - 1] = log[i - 1]  BY <3>1, <1>1
      <3> QED  BY <1>2, <2>1, <3>2 DEF Answered
    <2>2. CASE i = Len(log) + 1
      <3>1. new[i] = m /\ log # <<>> /\ log[Len(log)] = [role |-> "user", phase |-> m.phase]
        BY <1>1, <1>2, <2>2 DEF EndsWith
      <3>2. i - 1 = Len(log) /\ Len(log) \in 1..Len(log)  BY <1>1, <2>2, <1>2
      <3> QED  BY <1>1, <3>1, <3>2
    <2> QED  BY <1>1, <2>1, <2>2
  <1>3. new # <<>> /\ new[Len(new)] = m  BY <1>1
  <1> QED  BY <1>1, <1>2, <1>3 DEF Answered, EndsWith

\* What is recalled is the end of the log: its messages stay neighbours.
LEMMA AnsweredRecall ==
    ASSUME NEW log \in Seq(Entries)
    PROVE  Recall(log) \in Seq(Entries) /\ (Answered(log) => Answered(Recall(log)))
  <1> DEFINE first == IF Len(log) > HistoryLimit THEN Len(log) - HistoryLimit + 1 ELSE 1
  <1> DEFINE new == SubSeq(log, first, Len(log))
  <1>1. Len(log) \in Nat /\ HistoryLimit \in Nat \ {0}  BY EngineAssumption, LenProperties
  <1>2. first \in Nat /\ first >= 1 /\ first <= Len(log) + 1  BY <1>1
  <1> HIDE DEF first
  <1>3. /\ new \in Seq(Entries)
        /\ Len(new) = Len(log) - first + 1
        /\ \A i \in 1..(Len(log) - first + 1) : new[i] = log[first + i - 1]
    BY <1>1, <1>2, SubSeqProperties
  <1>4. ASSUME Answered(log), NEW i \in 2..Len(new), new[i].role = "assistant"
        PROVE  new[i - 1] = [role |-> "user", phase |-> new[i].phase]
    <2> DEFINE j == first + i - 1
    <2>1. j \in 2..Len(log) /\ j - 1 = first + (i - 1) - 1  BY <1>1, <1>2, <1>3, <1>4
    <2>2. i \in 1..(Len(log) - first + 1) /\ i - 1 \in 1..(Len(log) - first + 1)
      BY <1>1, <1>2, <1>3, <1>4
    <2>3. new[i] = log[j] /\ new[i - 1] = log[j - 1]  BY <1>3, <2>1, <2>2
    <2> HIDE DEF j
    <2> QED  BY <1>4, <2>1, <2>3 DEF Answered
  <1>5. Recall(log) = new  BY DEF Recall, first
  <1> QED  BY <1>3, <1>4, <1>5 DEF Answered

-------------------------------------------------------------------------------
(* The processes around the conversation *)

\* A step of a process moves no other one, and from the conversation it only ends.
LEMMA AlphaMoves ==
    ASSUME EngineShape, NEW p \in Procs, Perform(p)
    PROVE  /\ DOMAIN step' = Procs /\ DOMAIN job' = Procs
           /\ \A q \in Procs \ {p} : step'[q] = step[q]
           /\ step[p] = "talk" => job'[p] = "none"
  BY DEF EngineShape, Perform, Load, Sign, SignFails, Archive, ArchiveFails, Check, NewManifest,
         NewCompat, InitFails, Import, ImportRefused, Die, Finish, Step

LEMMA BetaMoves ==
    ASSUME EngineShape, NEW p \in BetaProcs, BetaPerform(p)
    PROVE  /\ DOMAIN betaStep' = BetaProcs /\ DOMAIN betaJob' = BetaProcs
           /\ \A q \in BetaProcs \ {p} : betaStep'[q] = betaStep[q]
           /\ betaStep[p] = "talk" => betaJob'[p] = "none"
  BY DEF EngineShape, BetaPerform, LoadDesign, BetaCheck, SaveManifest, SaveVocab, SaveRules,
         SaveFails, ImportDesign, BetaDie, BetaFinish, BetaMove

\* Of a session that is not at work, nothing is awaited.
LEMMA OffIsFine ==
    ASSUME NEW s \in Sessions, turn'[s] = "off"
    PROVE  Awaited(s)'
  BY DEF Awaited

\* A step that moves neither this session nor its process.
LEMMA AwaitedKept ==
    ASSUME NEW s \in Sessions, Awaited(s),
           turn'[s] = turn[s], phase'[s] = phase[s],
           history'[s] = history[s], graph'[s] = graph[s], lost' = lost,
           turn[s] # "off" => InSession(s)'
    PROVE  Awaited(s)'
  BY DEF Awaited, Message

-------------------------------------------------------------------------------
(* The steps *)

LEMMA TalkInit == Init => TalkInv
  <1> SUFFICES ASSUME Init PROVE TalkInv  OBVIOUS
  <1>1. EngineShape
    <2>1. <<>> \in Seq(Entries)  OBVIOUS
    <2> QED  BY <2>1 DEF Init, AlphaInit, BetaInit, EngineInit, EngineShape
  <1>2. \A s \in Sessions : Awaited(s)  BY DEF Init, EngineInit, Awaited
  <1>3. Answered(<<>>)  BY DEF Answered
  <1>4. AnswersFollowQuestions  BY <1>3 DEF Init, EngineInit, AnswersFollowQuestions
  <1> QED  BY <1>1, <1>2, <1>4 DEF TalkInv

\* The conversation ends: what was said stays.
LEMMA TalkEnds ==
    ASSUME TalkInv, NEW s \in Sessions, EndSession(s),
           DOMAIN step' = Procs, DOMAIN job' = Procs, DOMAIN betaStep' = BetaProcs, DOMAIN betaJob' = BetaProcs,
           \A other \in Sessions \ {s} : InSession(other) => InSession(other)'
    PROVE  TalkInv'
  <1>1. EngineShape'  BY DEF TalkInv, EngineShape, EndSession
  <1>2. ASSUME NEW t \in Sessions PROVE Awaited(t)'
    <2>1. CASE t = s
      <3>1. turn'[t] = "off"  BY <2>1 DEF TalkInv, EngineShape, EndSession
      <3> QED  BY <3>1, OffIsFine
    <2>2. CASE t # s
      <3>1. Awaited(t)  BY DEF TalkInv
      <3>2. turn'[t] = turn[t] /\ UNCHANGED <<phase, history, graph, lost>>
        BY <2>2 DEF TalkInv, EngineShape, EndSession
      <3>3. turn[t] # "off" => InSession(t)'  BY <2>2, <3>1 DEF Awaited
      <3> QED  BY <3>1, <3>2, <3>3, AwaitedKept
    <2> QED  BY <2>1, <2>2
  <1>3. AnswersFollowQuestions'  BY DEF TalkInv, EndSession, AnswersFollowQuestions
  <1> QED  BY <1>1, <1>2, <1>3 DEF TalkInv

\* The engine does not move, nor does any process leave a conversation.
LEMMA TalkGoesOn ==
    ASSUME TalkInv, UNCHANGED engineVars,
           DOMAIN step' = Procs, DOMAIN job' = Procs, DOMAIN betaStep' = BetaProcs, DOMAIN betaJob' = BetaProcs,
           \A s \in Sessions : turn[s] # "off" /\ InSession(s) => InSession(s)'
    PROVE  TalkInv'
  <1>1. EngineShape'  BY DEF TalkInv, EngineShape, engineVars
  <1>2. ASSUME NEW t \in Sessions PROVE Awaited(t)'
    <2>1. Awaited(t)  BY DEF TalkInv
    <2>2. turn[t] # "off" => InSession(t)'  BY <2>1 DEF Awaited
    <2> QED  BY <2>1, <2>2, AwaitedKept DEF engineVars
  <1>3. AnswersFollowQuestions'  BY DEF TalkInv, engineVars, AnswersFollowQuestions
  <1> QED  BY <1>1, <1>2, <1>3 DEF TalkInv

LEMMA TalkAlphaStep ==
    ASSUME TalkInv, NEW p \in Procs, AlphaStep(p)
    PROVE  TalkInv'
  <1>1. EngineShape /\ Perform(p) /\ UNCHANGED betaVars  BY DEF TalkInv, AlphaStep
  <1>2. /\ DOMAIN step' = Procs /\ DOMAIN job' = Procs
        /\ \A q \in Procs \ {p} : step'[q] = step[q]
        /\ step[p] = "talk" => job'[p] = "none"
    BY <1>1, AlphaMoves
  <1>3. DOMAIN betaStep' = BetaProcs /\ DOMAIN betaJob' = BetaProcs  BY <1>1 DEF EngineShape, betaVars
  <1>4. InSession(Designer) => InSession(Designer)'  BY <1>1, WorkshopAssumption DEF InSession, betaVars
  <1>5. CASE p = Architect /\ job'[p] = "none"
    <2>1. EndSession(p) /\ p \in Sessions  BY <1>5, WorkshopAssumption DEF AlphaStep
    <2>2. \A other \in Sessions \ {p} : other = Designer  BY <1>5, WorkshopAssumption
    <2> QED  BY <1>2, <1>3, <1>4, <2>1, <2>2, TalkEnds
  <1>6. CASE ~(p = Architect /\ job'[p] = "none")
    <2>1. UNCHANGED engineVars  BY <1>6 DEF AlphaStep
    <2>2. InSession(Architect) => InSession(Architect)'
      BY <1>2, <1>6 DEF InSession, Procs
    <2>3. \A s \in Sessions : InSession(s) => InSession(s)'  BY <1>4, <2>2, WorkshopAssumption
    <2> QED  BY <1>2, <1>3, <2>1, <2>3, TalkGoesOn
  <1> QED  BY <1>5, <1>6

LEMMA TalkBetaStep ==
    ASSUME TalkInv, NEW p \in BetaProcs, BetaStep(p)
    PROVE  TalkInv'
  <1>1. EngineShape /\ BetaPerform(p) /\ UNCHANGED alphaVars  BY DEF TalkInv, BetaStep
  <1>2. /\ DOMAIN betaStep' = BetaProcs /\ DOMAIN betaJob' = BetaProcs
        /\ \A q \in BetaProcs \ {p} : betaStep'[q] = betaStep[q]
        /\ betaStep[p] = "talk" => betaJob'[p] = "none"
    BY <1>1, BetaMoves
  <1>3. DOMAIN step' = Procs /\ DOMAIN job' = Procs  BY <1>1 DEF EngineShape, alphaVars
  <1>4. InSession(Architect) => InSession(Architect)'  BY <1>1 DEF InSession, alphaVars
  <1>5. CASE p = Designer /\ betaJob'[p] = "none"
    <2>1. EndSession(p) /\ p \in Sessions  BY <1>5, WorkshopAssumption DEF BetaStep
    <2>2. \A other \in Sessions \ {p} : other = Architect  BY <1>5, WorkshopAssumption
    <2> QED  BY <1>2, <1>3, <1>4, <2>1, <2>2, TalkEnds
  <1>6. CASE ~(p = Designer /\ betaJob'[p] = "none")
    <2>1. UNCHANGED engineVars  BY <1>6 DEF BetaStep
    <2>2. InSession(Designer) => InSession(Designer)'
      BY <1>2, <1>6, WorkshopAssumption DEF InSession, BetaProcs
    <2>3. \A s \in Sessions : InSession(s) => InSession(s)'  BY <1>4, <2>2, WorkshopAssumption
    <2> QED  BY <1>2, <1>3, <2>1, <2>3, TalkGoesOn
  <1> QED  BY <1>5, <1>6

\* A session starts: its engine, which was not at work, remembers what the graph has, if anything.
LEMMA TalkStarts ==
    ASSUME TalkInv, NEW s \in Sessions, NEW resumed \in BOOLEAN, ~InSession(s), Remember(s, resumed),
           UNCHANGED <<turn, phase, graph, lost>>,
           DOMAIN step' = Procs, DOMAIN job' = Procs, DOMAIN betaStep' = BetaProcs, DOMAIN betaJob' = BetaProcs,
           \A other \in Sessions \ {s} : InSession(other) => InSession(other)'
    PROVE  TalkInv'
  <1> DEFINE log == IF resumed THEN Recall(graph[s]) ELSE <<>>
  <1>1. graph[s] \in Seq(Entries)  BY DEF TalkInv, EngineShape
  <1>2. log \in Seq(Entries) /\ (s \notin lost => Answered(log))
    <2>1. <<>> \in Seq(Entries) /\ Answered(<<>>)  BY DEF Answered
    <2>2. s \notin lost => Answered(graph[s])  BY DEF TalkInv, AnswersFollowQuestions
    <2> QED  BY <1>1, <2>1, <2>2, AnsweredRecall
  <1>3. history' = [history EXCEPT ![s] = log]  BY DEF Remember
  <1> HIDE DEF log
  <1>4. EngineShape'  BY <1>2, <1>3 DEF TalkInv, EngineShape
  <1>5. ASSUME NEW t \in Sessions PROVE Awaited(t)'
    <2>1. Awaited(t)  BY DEF TalkInv
    <2>2. CASE t = s
      <3>1. turn'[t] = "off"  BY <2>1, <2>2 DEF Awaited
      <3> QED  BY <3>1, OffIsFine
    <2>3. CASE t # s
      <3>1. history'[t] = history[t]  BY <1>3, <2>3 DEF TalkInv, EngineShape
      <3>2. turn[t] # "off" => InSession(t)'  BY <2>1, <2>3 DEF Awaited
      <3> QED  BY <2>1, <3>1, <3>2, AwaitedKept
    <2> QED  BY <2>2, <2>3
  <1>6. ASSUME NEW t \in Sessions \ lost' PROVE Answered(history'[t]) /\ Answered(graph'[t])
    <2>1. Answered(history[t]) /\ Answered(graph[t])  BY <1>6 DEF TalkInv, AnswersFollowQuestions
    <2>2. history'[t] = IF t = s THEN log ELSE history[t]  BY <1>3 DEF TalkInv, EngineShape
    <2> QED  BY <1>2, <1>6, <2>1, <2>2
  <1>7. AnswersFollowQuestions'
    <2>1. (\A t \in Sessions \ lost : Answered(history[t]) /\ Answered(graph[t]))'  BY <1>6 DEF Answered
    <2> QED  BY <2>1 DEF AnswersFollowQuestions
  <1> QED  BY <1>4, <1>5, <1>7 DEF TalkInv

LEMMA TalkStarted ==
    ASSUME TalkInv, NEW resumed \in BOOLEAN, StartArchitect(resumed) \/ StartDesigner(resumed)
    PROVE  TalkInv'
  <1>1. EngineShape  BY DEF TalkInv
  <1>2. CASE StartArchitect(resumed)
    <2>1. /\ ~InSession(Architect) /\ Remember(Architect, resumed)
          /\ UNCHANGED <<turn, phase, graph, lost>> /\ UNCHANGED betaVars
          /\ DOMAIN step' = Procs /\ DOMAIN job' = Procs
      BY <1>1, <1>2 DEF StartArchitect, Begin, Step, InSession, EngineShape
    <2>2. /\ DOMAIN betaStep' = BetaProcs /\ DOMAIN betaJob' = BetaProcs
          /\ \A other \in Sessions \ {Architect} : InSession(other) => InSession(other)'
      BY <1>1, <2>1 DEF EngineShape, InSession, betaVars
    <2> QED  BY <2>1, <2>2, TalkStarts, WorkshopAssumption
  <1>3. CASE StartDesigner(resumed)
    <2>1. /\ ~InSession(Designer) /\ Remember(Designer, resumed)
          /\ UNCHANGED <<turn, phase, graph, lost>> /\ UNCHANGED alphaVars
          /\ DOMAIN betaStep' = BetaProcs /\ DOMAIN betaJob' = BetaProcs
      BY <1>1, <1>3, WorkshopAssumption DEF StartDesigner, BetaBegin, BetaMove, InSession, EngineShape
    <2>2. /\ DOMAIN step' = Procs /\ DOMAIN job' = Procs
          /\ \A other \in Sessions \ {Designer} : InSession(other) => InSession(other)'
      BY <1>1, <2>1, WorkshopAssumption DEF EngineShape, InSession, alphaVars
    <2> QED  BY <2>1, <2>2, TalkStarts, WorkshopAssumption
  <1> QED  BY <1>2, <1>3

\* The processes as they are, for the steps of the engine alone.
Still == UNCHANGED <<step, job, betaStep, betaJob>>

\* The conversation moves on, and nothing is said.
LEMMA TalkMoves ==
    ASSUME TalkInv, Still, NEW s \in Sessions, InSession(s), NEW to \in Turns \ {"answer"},
           turn' = [turn EXCEPT ![s] = to], UNCHANGED <<history, graph, lost>>,
           phase' \in [Sessions -> Nat], \A t \in Sessions \ {s} : phase'[t] = phase[t]
    PROVE  TalkInv'
  <1>1. EngineShape'  BY DEF TalkInv, EngineShape, Still
  <1>2. ASSUME NEW t \in Sessions PROVE Awaited(t)'
    <2>1. Awaited(t)  BY DEF TalkInv
    <2>2. InSession(t) => InSession(t)'  BY DEF Still, InSession
    <2>3. CASE t = s
      <3>1. turn'[t] # "answer"  BY <2>3 DEF TalkInv, EngineShape
      <3> QED  BY <2>2, <2>3, <3>1 DEF Awaited
    <2>4. CASE t # s
      <3>1. turn'[t] = turn[t]  BY <2>4 DEF TalkInv, EngineShape
      <3> QED  BY <2>1, <2>2, <2>4, <3>1, AwaitedKept DEF Awaited
    <2> QED  BY <2>3, <2>4
  <1>3. AnswersFollowQuestions'  BY DEF TalkInv, AnswersFollowQuestions
  <1> QED  BY <1>1, <1>2, <1>3 DEF TalkInv

\* A message of the user, or an answer that was awaited, is stored.
LEMMA TalkStores ==
    ASSUME TalkInv, Still, NEW s \in Sessions, InSession(s), NEW to \in Turns, NEW m,
           turn' = [turn EXCEPT ![s] = to], UNCHANGED phase, Store(s, m),
           \/ m = Message(s, "user")
           \/ m = Message(s, "assistant") /\ turn[s] = "answer" /\ to # "answer"
    PROVE  TalkInv'
  <1>1. m \in Entries  BY DEF Message, TalkInv, EngineShape, Entries
  <1>2. /\ history[s] \in Seq(Entries) /\ graph[s] \in Seq(Entries)
        /\ Append(history[s], m) \in Seq(Entries) /\ Append(graph[s], m) \in Seq(Entries)
    BY <1>1, AppendProperties DEF TalkInv, EngineShape
  <1>3. /\ history' = [history EXCEPT ![s] = Append(@, m)]
        /\ graph' \in {graph, [graph EXCEPT ![s] = Append(@, m)]}
        /\ lost' \in {lost, lost \union {s}}
        /\ s \notin lost' => graph' = [graph EXCEPT ![s] = Append(@, m)]
    BY DEF Store
  <1>4. EngineShape'  BY <1>2, <1>3 DEF TalkInv, EngineShape, Still
  <1>5. s \notin lost' =>
           /\ Answered(history'[s]) /\ EndsWith(history'[s], m)
           /\ Answered(graph'[s]) /\ EndsWith(graph'[s], m)
    <2> SUFFICES ASSUME s \notin lost'
                 PROVE  /\ Answered(history'[s]) /\ EndsWith(history'[s], m)
                        /\ Answered(graph'[s]) /\ EndsWith(graph'[s], m)
      OBVIOUS
    <2>1. s \notin lost  BY <1>3
    <2>2. Answered(history[s]) /\ Answered(graph[s])  BY <2>1 DEF TalkInv, AnswersFollowQuestions
    <2>3. m.role = "assistant" =>
             /\ EndsWith(history[s], [role |-> "user", phase |-> m.phase])
             /\ EndsWith(graph[s], [role |-> "user", phase |-> m.phase])
      <3>1. Awaited(s)  BY DEF TalkInv
      <3> QED  BY <2>1, <3>1 DEF Awaited, Message
    <2>4. history'[s] = Append(history[s], m) /\ graph'[s] = Append(graph[s], m)
      BY <1>3 DEF TalkInv, EngineShape
    <2> QED  BY <1>1, <1>2, <2>2, <2>3, <2>4, AnsweredAppend
  <1>6. ASSUME NEW t \in Sessions \ {s}
        PROVE  /\ turn'[t] = turn[t] /\ history'[t] = history[t] /\ graph'[t] = graph[t]
               /\ t \in lost' <=> t \in lost
    BY <1>3, <1>6 DEF TalkInv, EngineShape
  <1>7. ASSUME NEW t \in Sessions PROVE Awaited(t)'
    <2>1. Awaited(t)  BY DEF TalkInv
    <2>2. InSession(t) => InSession(t)'  BY DEF Still, InSession
    <2>3. CASE t = s
      <3>1. turn'[s] = "answer" => m = Message(s, "user")  BY DEF TalkInv, EngineShape
      <3>2. Message(s, "user")' = Message(s, "user")  BY DEF Message
      <3> QED  BY <1>5, <2>2, <2>3, <3>1, <3>2 DEF Awaited, EndsWith
    <2>4. CASE t # s
      <3>1. Message(t, "user")' = Message(t, "user")  BY DEF Message
      <3> QED  BY <1>6, <2>1, <2>2, <2>4, <3>1 DEF Awaited, EndsWith
    <2> QED  BY <2>3, <2>4
  <1>8. AnswersFollowQuestions'
    <2>1. ASSUME NEW t \in Sessions, t \notin lost' PROVE Answered(history'[t]) /\ Answered(graph'[t])
      <3>1. CASE t = s  BY <1>5, <2>1, <3>1
      <3>2. CASE t # s  BY <1>6, <2>1, <3>2 DEF TalkInv, AnswersFollowQuestions
      <3> QED  BY <3>1, <3>2
    <2>2. (\A t \in Sessions \ lost : Answered(history[t]) /\ Answered(graph[t]))'  BY <2>1 DEF Answered
    <2> QED  BY <2>2 DEF AnswersFollowQuestions
  <1> QED  BY <1>4, <1>7, <1>8 DEF TalkInv

LEMMA TalkInterview ==
    ASSUME TalkInv, NEW s \in Sessions, Interview(s) \/ LeaveInterview(s) \/ WriteBlock(s)
    PROVE  TalkInv'
  <1>1. InSession(s)  BY DEF Interview, LeaveInterview, WriteBlock
  <1>2. EngineShape  BY DEF TalkInv
  <1>3. CASE Interview(s)
    <2>1. Still  BY <1>3 DEF Interview, Still, alphaVars, betaVars
    <2>2. CASE FirstPhase(s) \/ Opened(s) \/ TurnFails(s) \/ NextPhase(s)
      <3>1. PICK to \in Turns \ {"answer"} : turn' = [turn EXCEPT ![s] = to]
        BY <2>2 DEF FirstPhase, Opened, TurnFails, NextPhase, Pass, Turns
      <3>2. UNCHANGED <<history, graph, lost>>
        BY <2>2 DEF FirstPhase, Opened, TurnFails, NextPhase
      <3>3. phase' \in [Sessions -> Nat] /\ \A t \in Sessions \ {s} : phase'[t] = phase[t]
        <4>1. phase \in [Sessions -> Nat] /\ phase[s] + 1 \in Nat  BY <1>2 DEF EngineShape
        <4>2. phase' = phase \/ phase' = [phase EXCEPT ![s] = 1] \/ phase' = [phase EXCEPT ![s] = phase[s] + 1]
          BY <2>2 DEF FirstPhase, Opened, TurnFails, NextPhase
        <4> QED  BY <4>1, <4>2
      <3> QED  BY <1>1, <2>1, <3>1, <3>2, <3>3, TalkMoves
    <2>3. CASE Say(s)
      <3>1. turn' = [turn EXCEPT ![s] = "answer"] /\ Store(s, Message(s, "user")) /\ UNCHANGED phase
        BY <2>3 DEF Say, Pass
      <3> QED  BY <1>1, <2>1, <3>1, TalkStores DEF Turns
    <2>4. CASE Answer(s)
      <3>1. PICK to \in Turns \ {"answer"} : turn' = [turn EXCEPT ![s] = to]
        BY <2>4 DEF Answer, Pass, Turns
      <3>2. turn[s] = "answer" /\ Store(s, Message(s, "assistant")) /\ UNCHANGED phase
        BY <2>4 DEF Answer, Pass
      <3> QED  BY <1>1, <2>1, <3>1, <3>2, TalkStores
    <2> QED  BY <1>3, <2>2, <2>3, <2>4 DEF Interview, RunPhase
  <1>4. CASE LeaveInterview(s)
    <2>1. EndSession(s)  BY <1>4 DEF LeaveInterview
    <2>2. CASE s = Architect
      <3>1. Finish(s) /\ UNCHANGED betaVars  BY <1>4, <2>2 DEF LeaveInterview
      <3>2. /\ DOMAIN step' = Procs /\ DOMAIN job' = Procs
            /\ DOMAIN betaStep' = BetaProcs /\ DOMAIN betaJob' = BetaProcs
            /\ \A other \in Sessions \ {s} : InSession(other) => InSession(other)'
        BY <1>2, <2>2, <3>1 DEF EngineShape, Finish, betaVars, InSession
      <3> QED  BY <2>1, <3>2, TalkEnds
    <2>3. CASE s # Architect
      <3>1. BetaFinish(s) /\ UNCHANGED alphaVars  BY <1>4, <2>3 DEF LeaveInterview
      <3>2. \A other \in Sessions \ {s} : other = Architect  BY <2>3, WorkshopAssumption
      <3>3. /\ DOMAIN step' = Procs /\ DOMAIN job' = Procs
            /\ DOMAIN betaStep' = BetaProcs /\ DOMAIN betaJob' = BetaProcs
            /\ \A other \in Sessions \ {s} : InSession(other) => InSession(other)'
        BY <1>2, <3>1, <3>2 DEF EngineShape, BetaFinish, alphaVars, InSession
      <3> QED  BY <2>1, <3>3, TalkEnds
    <2> QED  BY <2>2, <2>3
  <1>5. CASE WriteBlock(s)
    <2>1. Still /\ BlockDone(s)  
      BY <1>5 DEF WriteBlock, Overwrite, OverwriteFile, OverwriteManifest, OverwriteDesign, alphaVars, betaVars, Still
    <2>2. PICK to \in Turns \ {"answer"} : turn' = [turn EXCEPT ![s] = to]
      BY <2>1 DEF BlockDone, Pass, Turns
    <2>3. UNCHANGED <<phase, history, graph, lost>>  BY <2>1 DEF BlockDone
    <2> QED  BY <1>1, <1>2, <2>1, <2>2, <2>3, TalkMoves DEF EngineShape
  <1> QED  BY <1>3, <1>4, <1>5

-------------------------------------------------------------------------------
(* The theorem *)

LEMMA TalkStep == ASSUME TalkInv, [Next]_vars PROVE TalkInv'
  <1>1. CASE UNCHANGED vars
    <2>1. Still /\ UNCHANGED engineVars  BY <1>1 DEF vars, alphaVars, betaVars, Still
    <2> QED  BY <2>1, TalkGoesOn DEF Still, InSession, TalkInv, EngineShape
  <1>2. ASSUME NEW p \in Procs, AlphaStep(p) PROVE TalkInv'  BY <1>2, TalkAlphaStep
  <1>3. ASSUME NEW p \in BetaProcs, BetaStep(p) PROVE TalkInv'  BY <1>3, TalkBetaStep
  <1>4. ASSUME NEW p \in Commands, AlphaCommand(p) PROVE TalkInv'
    <2>1. PICK what \in Jobs, v \in Versions \union {"draft"} : Begin(p, what, v)
      BY <1>4 DEF AlphaCommand, Jobs
    <2>2. UNCHANGED <<betaVars, engineVars>>  BY <1>4 DEF AlphaCommand
    <2>3. /\ DOMAIN step' = Procs /\ DOMAIN job' = Procs
          /\ DOMAIN betaStep' = BetaProcs /\ DOMAIN betaJob' = BetaProcs
          /\ \A s \in Sessions : InSession(s) => InSession(s)'
      BY <2>1, <2>2, AlphaAssumption DEF TalkInv, EngineShape, Begin, Step, InSession, betaVars
    <2> QED  BY <2>2, <2>3, TalkGoesOn
  <1>5. ASSUME NEW p \in BetaCommands, BetaCommand(p) PROVE TalkInv'
    <2>1. PICK what, v : BetaBegin(p, what, v)  BY <1>5 DEF BetaCommand
    <2>2. UNCHANGED <<alphaVars, engineVars>>  BY <1>5 DEF BetaCommand
    <2>3. /\ DOMAIN step' = Procs /\ DOMAIN job' = Procs
          /\ DOMAIN betaStep' = BetaProcs /\ DOMAIN betaJob' = BetaProcs
      BY <2>1, <2>2 DEF TalkInv, EngineShape, BetaBegin, BetaMove, alphaVars
    <2>4. \A s \in Sessions : InSession(s) => InSession(s)'
      BY <2>1, <2>2, BetaAssumption, WorkshopAssumption
      DEF TalkInv, EngineShape, BetaBegin, BetaMove, InSession, alphaVars
    <2> QED  BY <2>2, <2>3, <2>4, TalkGoesOn
  <1>6. ASSUME NEW s \in Sessions, Interview(s) \/ LeaveInterview(s) \/ WriteBlock(s) PROVE TalkInv'
    BY <1>6, TalkInterview
  <1>7. ASSUME NEW resumed \in BOOLEAN, StartArchitect(resumed) \/ StartDesigner(resumed) PROVE TalkInv'
    BY <1>7, TalkStarted
  <1>8. CASE Hand
    <2>1. Still /\ UNCHANGED engineVars
      BY <1>8 DEF Hand, Overwrite, OverwriteFile, OverwriteManifest, OverwriteDesign, alphaVars, betaVars, Still
    <2> QED  BY <2>1, TalkGoesOn DEF Still, InSession, TalkInv, EngineShape
  <1> QED  BY <1>1, <1>2, <1>3, <1>4, <1>5, <1>6, <1>7, <1>8 DEF Next

\* In memory and in a graph that has missed nothing, every answer comes right after a message
\* of the user in the same phase, whatever turns fail, processes die and sessions are resumed.
THEOREM AnswersKeepTheirQuestions == Spec => []AnswersFollowQuestions
  <1>1. Init => TalkInv  BY TalkInit
  <1>2. TalkInv /\ [Next]_vars => TalkInv'  BY TalkStep
  <1>3. TalkInv => AnswersFollowQuestions  BY DEF TalkInv
  <1> QED  BY <1>1, <1>2, <1>3, PTL DEF Spec
===============================================================================
