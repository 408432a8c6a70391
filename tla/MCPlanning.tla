------------------------------ MODULE MCPlanning ------------------------------
EXTENDS PlanningProps, TLC

CONSTANT n1

Item(p, q, n) == [phase |-> p, place |-> q, id |-> n]

Same == Permutations(Terminals) \union Permutations(Approvals)

\* A phase with a named and an unnamed ticket, and two groups that share a phase number.
TwoPlans == {<<Item(1, 1, n1), Item(1, 2, Missing)>>, <<Item(1, 1, Missing), Item(1, 1, Missing)>>}

\* The user turns the first plan round.
OneEdit == {<< <<1, 2>>, n1>>}
===============================================================================
