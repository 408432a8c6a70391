--------------------------- MODULE ScopeSubmission ---------------------------
(***************************************************************************)
(* What approvals of scopes promise: each reads its scope once, and the     *)
(* tickets it has put in the table are at any time the first so many of it, *)
(* in the scope's order.                                                   *)
(***************************************************************************)
EXTENDS Naturals, Sequences

CONSTANTS Approvals, TicketIDs

VARIABLES
    scope,      \* the ticket_ids each was given, in the order of the scope
    sent        \* those it has put in the table

FirstOf(a, n) == {scope[a][i] : i \in 1..n}

Init ==
    /\ scope = [a \in Approvals |-> <<>>]
    /\ sent = [a \in Approvals |-> {}]

Read(a) ==
    /\ scope[a] = <<>>
    /\ scope'[a] \in Seq(TicketIDs)
    /\ scope' = [scope EXCEPT ![a] = scope'[a]]
    /\ UNCHANGED sent

Send(a) ==
    \E n \in 1..Len(scope[a]) :
        /\ sent[a] = FirstOf(a, n - 1)
        /\ sent' = [sent EXCEPT ![a] = FirstOf(a, n)]
        /\ UNCHANGED scope

Next == \E a \in Approvals : Read(a) \/ Send(a)

Spec == Init /\ [][Next]_<<scope, sent>>
===============================================================================
