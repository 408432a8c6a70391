---------------------------- MODULE PlanningProps ----------------------------
(***************************************************************************)
(* What is asserted of the round table, its session and the approval of a   *)
(* scope.                                                                  *)
(***************************************************************************)
EXTENDS Planning

ApprovalTypeOK ==
    /\ file \in Seq(TicketIDs)
    /\ by \in [TicketIDs -> Approvals \union {Nobody, Hand}]
    /\ loaded \in [Approvals -> Seq(TicketIDs)]
    /\ next \in [Approvals -> Nat \ {0}]
    /\ stopped \subseteq Approvals

TableTypeOK ==
    /\ stage \in [Terminals -> TableStages]
    /\ alphaConverged \in [Terminals -> BOOLEAN]
    /\ betaConverged \in [Terminals -> BOOLEAN]
    /\ said \in [Terminals -> [alpha: Answers, beta: Answers]]
    /\ forced \in [Terminals -> BOOLEAN]
    /\ scope \in [Terminals -> Seq(TicketIDs)]

TypeOK ==
    /\ ApprovalTypeOK
    /\ TableTypeOK
    /\ session \in SessionStates
    /\ command \in [Terminals -> Commands]
    /\ unfinished \subseteq Terminals
    /\ overlapped \in BOOLEAN

\* Unless the user forces it, planning never starts in a round in which an agent still asked
\* for more, whichever turns failed in this round and in earlier ones.
NobodyAskedLast ==
    \A t \in Terminals :
        stage[t] = "generate" /\ ~forced[t] => said[t].alpha # "asks" /\ said[t].beta # "asks"

\* A plan that was killed or returned an error can be resumed, or the file shows that it is
\* damaged: no failed save, kill or resume since then makes the session look completed,
\* unless two plans ran at once in one directory.
UnfinishedStaysResumable ==
    overlapped \/ unfinished = {} \/ session \in {"active", "paused", "torn"}

\* The rows of tickets an approval has inserted.
Sent(a) == {id \in TicketIDs : by[id] = a}

\* Scopes that begin with the same ticket are submitted by one approval at most: an approval
\* run again after a failure, or beside another one, adds nothing to what the first left.
OneApprovalPerStart ==
    \A a, b \in Approvals :
        a # b /\ Sent(a) # {} /\ Sent(b) # {} => loaded[a][1] # loaded[b][1]

\* Approvals implement ScopeSubmission: whatever others insert meanwhile and however one
\* fails, the rows it has inserted are the first so many of the scope it read.
Submission == INSTANCE ScopeSubmission WITH scope <- loaded, sent <- [a \in Approvals |-> Sent(a)]
InOrder == Submission!Spec

-------------------------------------------------------------------------------
(* The inductive invariants behind them *)

\* Flags of a conversation, against what was said in its round.
TalkInv ==
    \A t \in Terminals :
        /\ said[t].alpha = "asks" => ~alphaConverged[t]
        /\ said[t].beta = "asks" /\ stage[t] # "beta" => ~betaConverged[t]
        /\ stage[t] = "generate" => forced[t] \/ (alphaConverged[t] /\ betaConverged[t])

\* Where an approval stands, against the rows it has inserted.
SendInv ==
    \A a \in Approvals :
        /\ Sent(a) = {loaded[a][i] : i \in 1..(next[a] - 1)}
        /\ next[a] <= Len(loaded[a]) + 1
        /\ loaded[a] = <<>> => a \notin stopped
        /\ Running(a) => next[a] <= Len(loaded[a])

\* Without overlap at most one plan runs, and the file says so.
SessionInv ==
    ~overlapped =>
        /\ \A t, u \in Planners : t = u
        /\ unfinished = {} \/ session \in {"active", "paused", "torn"}

IInv == TypeOK /\ TalkInv /\ SendInv /\ SessionInv
===============================================================================
