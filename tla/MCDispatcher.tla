---------------------------- MODULE MCDispatcher ----------------------------
EXTENDS DispatcherProps, TLC

CONSTANTS c1, c2, c3, t1, t2, p1, p2, a1, a2, h1, h2, schema

\* Two calls in one process, and two processes of one call each (the CLI).
SharedProc == [c \in Calls |-> p1]
TwoProcs == (c1 :> p1) @@ (c2 :> p2)

Art(i, h) == [id |-> i, hash |-> h]

\* Nothing, one artifact, two, and a second plugin that reuses an id or a content.
MCBatches == {<<>>, <<Art(a1, h1)>>, <<Art(a1, h1), Art(a2, h2)>>, <<Art(a2, h1)>>}

\* A batch that repeats a content.
TwinBatches == {<<Art(a1, h1)>>, <<Art(a2, h1)>>, <<Art(a1, h1), Art(a2, h1)>>}

NoArtifacts == {<<>>}

\* One defect, and a report with the same class twice.
MCDefectLists == {<<schema>>, <<schema, schema>>}
OneDefect     == {<<schema>>}

CallSymmetry == Permutations({c1, c2})
================================================================================
