------------------------------ MODULE RunLedger ------------------------------
(***************************************************************************)
(* What the runs and artifacts tables promise to a reader (foundry status, *)
(* foundry artifacts, the uniqueness gate), whatever the calls of Run do,  *)
(* fail at or die in:                                                      *)
(*   - a run is opened once, closed at most once, and its verdict is final;*)
(*   - the catalog only grows, and artifact_id is a key of it;             *)
(*   - only an open run adds to the catalog, and it may fail only while it *)
(*     has added nothing, so no artifact of a failed run is ever visible.  *)
(***************************************************************************)
CONSTANTS Runs, Ids, Contents

VARIABLES
    status,   \* of each run: none, running, completed, failed
    catalog   \* published artifacts: id, run and content

Entry == [id: Ids, run: Runs, content: Contents]

\* The entries of run r, and whether an id is in use.
Of(r)     == {e \in catalog : e.run = r}
Used(id)  == \E e \in catalog : e.id = id

Init == status = [r \in Runs |-> "none"] /\ catalog = {}

OpenRun(r) ==
    /\ status[r] = "none"
    /\ status' = [status EXCEPT ![r] = "running"]
    /\ UNCHANGED catalog

Add(e) ==
    /\ status[e.run] = "running"
    /\ ~Used(e.id)
    /\ catalog' = catalog \union {e}
    /\ UNCHANGED status

Complete(r) ==
    /\ status[r] = "running"
    /\ status' = [status EXCEPT ![r] = "completed"]
    /\ UNCHANGED catalog

Abandon(r) ==
    /\ status[r] = "running"
    /\ Of(r) = {}
    /\ status' = [status EXCEPT ![r] = "failed"]
    /\ UNCHANGED catalog

Next ==
    \/ \E r \in Runs : OpenRun(r) \/ Complete(r) \/ Abandon(r)
    \/ \E e \in Entry : Add(e)

Spec == Init /\ [][Next]_<<status, catalog>>
================================================================================
