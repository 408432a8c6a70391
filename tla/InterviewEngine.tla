--------------------------- MODULE InterviewEngine ---------------------------
(***************************************************************************)
(* The conversation of internal/interview/engine.go, which Alpha's          *)
(* architect and Beta's designer share: a fixed list of phases, in each of  *)
(* which user and model talk until the user moves on, with every message    *)
(* kept in memory and in the pair's graph.                                  *)
(*                                                                         *)
(* The graph is a service outside the repository: it keeps what it is told  *)
(* unless a call fails, and failures are not looked at.  Of a message only  *)
(* role and phase are kept, of an answer the tagged blocks in it.          *)
(***************************************************************************)
EXTENDS Naturals, Sequences

CONSTANTS
    Sessions,       \* the architect's and the designer's, one of each at a time
    Phases,         \* of each
    Drafts,         \* lists of blocks an answer may hold
    Spoken,         \* bound: phases in which the user says anything
    HistoryLimit,   \* messages recalled by Resume: 100
    MaxMessages     \* bound: messages in the graph of each

\* What is built, and what there is already; then the data, the connections, the rules and
\* the review of the whole.  A prompt asks for blocks of some kind, and Required says whether
\* the phase needs one, but neither is ever looked at.
IntentPhases == <<"intent", "upload">>
AlphaPhases  == IntentPhases \o <<"data_model", "connections", "rules", "review">>

\* Vision and brand; color, motion, effects and the rules of the design.
VisionPhases == <<"vision", "import">>
BetaPhases   == VisionPhases \o <<"color", "motion", "effects", "design_rules">>

ASSUME EngineAssumption ==
    /\ DOMAIN Phases = Sessions
    /\ \A s \in Sessions : Phases[s] \in Seq(STRING) /\ Phases[s] # <<>>
    /\ HistoryLimit \in Nat \ {0}

VARIABLES
    turn,       \* where RunPhase of each session is
    phase,      \* the phase it runs
    history,    \* Engine.history
    graph,      \* the messages in the graph of its pair
    pending,    \* blocks of the last answer still to be written
    lost        \* ghost: sessions whose graph has missed a message

engineVars == <<turn, phase, history, graph, pending, lost>>

Turns == {"off", "opening", "prompt", "answer", "blocks"}

Message(s, r) == [role |-> r, phase |-> phase[s]]

EngineInit ==
    /\ turn = [s \in Sessions |-> "off"]
    /\ phase = [s \in Sessions |-> 1]
    /\ history = [s \in Sessions |-> <<>>]
    /\ graph = [s \in Sessions |-> <<>>]
    /\ pending = [s \in Sessions |-> <<>>]
    /\ lost = {}

Pass(s, from, to) == turn[s] = from /\ turn' = [turn EXCEPT ![s] = to]

\* Mutant: the newest messages are recalled newest first.
RecallNewestFirst(log) ==
    [i \in 1..(IF Len(log) > HistoryLimit THEN HistoryLimit ELSE Len(log)) |-> log[Len(log) + 1 - i]]

\* QueryHistory: the newest messages, oldest first.
Recall(log) == SubSeq(log, IF Len(log) > HistoryLimit THEN Len(log) - HistoryLimit + 1 ELSE 1, Len(log))

\* New makes an engine that remembers nothing; Resume recalls what the graph has.
Remember(s, resumed) ==
    history' = [history EXCEPT ![s] = IF resumed THEN Recall(graph[s]) ELSE <<>>]

\* A session starts at the first phase, resumed or not.
FirstPhase(s) ==
    /\ Pass(s, "off", "opening")
    /\ phase' = [phase EXCEPT ![s] = 1]
    /\ UNCHANGED <<history, graph, pending, lost>>

\* The opening question is not kept, nor are the blocks in it.
Opened(s) ==
    /\ Pass(s, "opening", "prompt")
    /\ UNCHANGED <<phase, history, graph, pending, lost>>

\* The session is over: the last phase is done, an opening failed, or the user quit.
EndSession(s) ==
    /\ turn' = [turn EXCEPT ![s] = "off"]
    /\ pending' = [pending EXCEPT ![s] = <<>>]
    /\ UNCHANGED <<phase, history, graph, lost>>

\* StoreMessage, whose error is dropped.
Store(s, message) ==
    /\ history' = [history EXCEPT ![s] = Append(@, message)]
    /\ \/ graph' = [graph EXCEPT ![s] = Append(@, message)] /\ UNCHANGED lost
       \/ lost' = lost \union {s} /\ UNCHANGED graph

Say(s) ==
    /\ phase[s] \in Spoken[s]
    /\ Len(graph[s]) + 1 < MaxMessages[s] /\ Len(history[s]) + 1 < MaxMessages[s]
    /\ Pass(s, "prompt", "answer")
    /\ Store(s, Message(s, "user"))
    /\ UNCHANGED <<phase, pending>>

\* The message stays in history and graph without an answer.
TurnFails(s) ==
    /\ Pass(s, "answer", "prompt")
    /\ UNCHANGED <<phase, history, graph, pending, lost>>

\* The model writes blocks of any kind in any phase, or none: nothing compares the module or
\* the category of a block with the session or the phase.
Answer(s) ==
    \E blocks \in Drafts :
        /\ Pass(s, "answer", IF blocks = <<>> THEN "prompt" ELSE "blocks")
        /\ Store(s, Message(s, "assistant"))
        /\ pending' = [pending EXCEPT ![s] = blocks]
        /\ UNCHANGED phase

\* The next block is done with, written or not; after the last the decision is recorded.
BlockDone(s) ==
    /\ Pass(s, "blocks", IF Len(pending[s]) = 1 THEN "prompt" ELSE "blocks")
    /\ pending' = [pending EXCEPT ![s] = Tail(@)]
    /\ UNCHANGED <<phase, history, graph, lost>>

\* /done, and the end of the input: nothing checks that a Required phase has an output.
NextPhase(s) ==
    /\ phase[s] < Len(Phases[s])
    /\ Pass(s, "prompt", "opening")
    /\ phase' = [phase EXCEPT ![s] = @ + 1]
    /\ UNCHANGED <<history, graph, pending, lost>>

RunPhase(s) == FirstPhase(s) \/ Opened(s) \/ Say(s) \/ TurnFails(s) \/ Answer(s) \/ NextPhase(s)

\* Where RunPhase may return an error, or the last phase its result.
MayEnd(s) == turn[s] \in {"opening", "prompt"}
===============================================================================
