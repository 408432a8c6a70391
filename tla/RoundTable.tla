------------------------------ MODULE RoundTable ------------------------------
(***************************************************************************)
(* RoundTable.Start and triggerPlanning of internal/foundry/roundtable.go:  *)
(* user, Alpha and Beta talk until both agents append [CONVERGED] or the    *)
(* user asks for the plan; the planner drafts a scope, and the user decides *)
(* about it.  One conversation per terminal.                               *)
(***************************************************************************)
EXTENDS ScopeApproval

CONSTANT Terminals

VARIABLES
    stage,              \* where in Start each conversation is
    alphaConverged,
    betaConverged,
    said,               \* ghost: what Alpha and Beta answered in this round
    forced,             \* ghost: the user asked for the plan
    scope               \* the scope under decision

tableVars == <<stage, alphaConverged, betaConverged, said, forced, scope>>

\* "ok" and "error" are the two ways Start returns.
TableStages == {"off", "you", "beta", "generate", "decide", "ok", "error"}

\* An agent signs off with [CONVERGED], asks more, or its executor fails.
Answers == {"signs", "asks", "fails"}
Silence == [alpha |-> "fails", beta |-> "fails"]

TableInit ==
    /\ stage = [t \in Terminals |-> "off"]
    /\ alphaConverged = [t \in Terminals |-> FALSE]
    /\ betaConverged = [t \in Terminals |-> FALSE]
    /\ said = [t \in Terminals |-> Silence]
    /\ forced = [t \in Terminals |-> FALSE]
    /\ scope = [t \in Terminals |-> <<>>]

Talking == {t \in Terminals : stage[t] # "off"}

Move(t, from, to) == stage[t] = from /\ stage' = [stage EXCEPT ![t] = to]

\* The ghosts are about one round; once it is decided they are dropped.
Forget(t) ==
    /\ said' = [said EXCEPT ![t] = Silence]
    /\ forced' = [forced EXCEPT ![t] = FALSE]

\* The table and its scope are gone with the call of Start.
Clear(t) ==
    /\ alphaConverged' = [alphaConverged EXCEPT ![t] = FALSE]
    /\ betaConverged' = [betaConverged EXCEPT ![t] = FALSE]
    /\ scope' = [scope EXCEPT ![t] = <<>>]
    /\ Forget(t)

Return(t, from, how) == Move(t, from, how) /\ Clear(t)

\* NewRoundTable.
Open(t) == Move(t, "off", "you") /\ UNCHANGED <<alphaConverged, betaConverged, said, forced, scope>>

\* The process ends, whatever Start was doing.
Close(t) == stage' = [stage EXCEPT ![t] = "off"] /\ Clear(t)

\* Mutant: further questions do not take the sign-off back.
SignedOnce(flag, answer) == flag \/ answer = "signs"

\* An answer sets or resets the flag; an error leaves it as it was.
Signed(flag, answer) == IF answer = "fails" THEN flag ELSE answer = "signs"

AlphaTurn(t, answer) ==
    /\ Move(t, "you", "beta")
    /\ alphaConverged' = [alphaConverged EXCEPT ![t] = Signed(@, answer)]
    /\ said' = [said EXCEPT ![t] = [alpha |-> answer, beta |-> "fails"]]
    /\ UNCHANGED <<betaConverged, forced, scope>>

\* Beta's turn, then checkConvergence.
BetaTurn(t, answer) ==
    LET signed == Signed(betaConverged[t], answer)
    IN  /\ Move(t, "beta", IF alphaConverged[t] /\ signed THEN "generate" ELSE "you")
        /\ betaConverged' = [betaConverged EXCEPT ![t] = signed]
        /\ said' = [said EXCEPT ![t].beta = answer]
        /\ UNCHANGED <<alphaConverged, forced, scope>>

\* /plan, whatever the agents think.
ForcePlan(t) ==
    /\ Move(t, "you", "generate")
    /\ forced' = [forced EXCEPT ![t] = TRUE]
    /\ UNCHANGED <<alphaConverged, betaConverged, said, scope>>

\* /quit is an error, the end of the input is not.
Leave(t) == Return(t, "you", "error") \/ Return(t, "you", "ok")

\* The planner's call fails, or its answer is not a scope.
GenerateFails(t) == Return(t, "generate", "error")

Generate(t, plan) ==
    /\ Move(t, "generate", "decide")
    /\ scope' = [scope EXCEPT ![t] = GenerateScope(plan)]
    /\ Forget(t)
    /\ UNCHANGED <<alphaConverged, betaConverged>>

\* The scope as the editor left it.  Also after "Edit failed": a value of the wrong type
\* does not keep the rest of the file from being taken over.
Edit(t, edited) ==
    /\ stage[t] = "decide"
    /\ scope' = [scope EXCEPT ![t] = edited]
    /\ UNCHANGED <<stage, alphaConverged, betaConverged, said, forced>>

\* The flags are reset, but the decision goes on: the objection reaches nobody.
ObjectTo(t) ==
    /\ stage[t] = "decide"
    /\ alphaConverged' = [alphaConverged EXCEPT ![t] = FALSE]
    /\ betaConverged' = [betaConverged EXCEPT ![t] = FALSE]
    /\ UNCHANGED <<stage, said, forced, scope>>

\* Approving calls ApproveScope without a dispatcher, a dry run; it returns nil, and so do
\* quitting and the end of the input.
Decided(t) == Return(t, "decide", "ok")

Converse(t) ==
    \/ \E answer \in Answers : AlphaTurn(t, answer) \/ BetaTurn(t, answer)
    \/ ForcePlan(t) \/ Leave(t) \/ GenerateFails(t) \/ ObjectTo(t) \/ Decided(t)
    \/ \E plan \in Plans : Generate(t, plan)
    \/ \E edited \in Edits : Edit(t, edited)
===============================================================================
