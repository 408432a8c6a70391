----------------------------- MODULE MCAdmission -----------------------------
EXTENDS Admission, TLC

CONSTANTS k1, k2, tenant

\* Two tickets of one tenant, that are one and the same to it, one before the other.
OneTenant     == [x \in Tickets |-> tenant]
OneKey        == [x \in Tickets |-> k1]
ThePriorities == k1 :> 1 @@ k2 :> 2

Same == Permutations(Workers)
===============================================================================
