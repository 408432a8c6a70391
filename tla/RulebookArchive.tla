--------------------------- MODULE RulebookArchive ---------------------------
(***************************************************************************)
(* What the archive of a rulebook promises: a version is empty, torn by a   *)
(* write that was cut short, or holds a sound book; it changes only by a    *)
(* promotion to it, which signs one book, sound by then, and puts that one  *)
(* there or nothing; and it is never empty again.                          *)
(***************************************************************************)
CONSTANTS
    Promoters,
    Versions,
    Sound(_),       \* books that may be kept
    NoBook,
    NoVersion       \* what a promoter that has signed nothing is at

VARIABLES
    shelf,      \* what each version holds
    signed      \* what each promoter has signed and not yet put there

Empty   == [state |-> "empty", book |-> NoBook]
Torn    == [state |-> "torn", book |-> NoBook]
Kept(b) == [state |-> "kept", book |-> b]

Signature(v, b) == [version |-> v, book |-> b]
Nothing == Signature(NoVersion, NoBook)

Init ==
    /\ shelf = [v \in Versions |-> Empty]
    /\ signed = [p \in Promoters |-> Nothing]

Sign(p, v) ==
    /\ signed[p] = Nothing
    /\ Sound(signed'[p].book)
    /\ signed' = [signed EXCEPT ![p] = Signature(v, signed'[p].book)]
    /\ UNCHANGED shelf

\* The promotion ends, with its book there or a torn one, or without having come so far.
End(p) ==
    /\ signed[p].version \in Versions
    /\ signed' = [signed EXCEPT ![p] = Nothing]
    /\ \/ \E bundle \in {Kept(signed[p].book), Torn} :
             shelf' = [shelf EXCEPT ![signed[p].version] = bundle]
       \/ UNCHANGED shelf

Next == \E p \in Promoters : End(p) \/ \E v \in Versions : Sign(p, v)

Spec == Init /\ [][Next]_<<shelf, signed>>
===============================================================================
