---------------------------- MODULE SlotAllocation ----------------------------
(***************************************************************************)
(* What the factory registry promises of the slots of its stations, to      *)
(* operators who run one assign command at a time: a worker has at most one *)
(* place, is given one that nobody was given, in one step, and leaves it in *)
(* one.  A new worker may announce a place, which nobody checks.            *)
(***************************************************************************)
CONSTANTS Holders, Places, NoPlace

VARIABLES
    place,      \* of each holder
    announced   \* holders that are where they said

allocationVars == <<place, announced>>

Free(p) == \A h \in Holders \ announced : place[h] # p

Init ==
    /\ place = [h \in Holders |-> NoPlace]
    /\ announced = {}

\* The holder gives up the place it had, if any, in the same step.
Take(h, p) ==
    /\ Free(p)
    /\ place' = [place EXCEPT ![h] = p]
    /\ announced' = announced \ {h}

Leave(h) ==
    /\ place' = [place EXCEPT ![h] = NoPlace]
    /\ announced' = announced \ {h}

Announce(h, p) ==
    /\ place[h] = NoPlace
    /\ place' = [place EXCEPT ![h] = p]
    /\ announced' = announced \union {h}

Next ==
    \E h \in Holders :
       \/ Leave(h)
       \/ \E p \in Places : Take(h, p) \/ Announce(h, p)

Spec == Init /\ [][Next]_allocationVars
===============================================================================
