------------------------------- MODULE MCFloor -------------------------------
EXTENDS Floor

CONSTANTS r1, r2, s1, s2, a1, t1, c1, c2, pair, m1, m2, plugin

\* One router with two halts, two with one, two with a commit and a submission, two calls of
\* the maintenance API, and two managers of one plugin.
TheCasts == {{r1, s1, s2}, {r1, r2, s1}, {r1, r2, a1, t1}, {c1, c2, pair}, {m1, m2, plugin}}

\* The first class that is known decides; of the other lists one has a defect of no known
\* class, and one has none at all.
Lists == {<<"unclassified", "timeout", "schema_violation">>, <<"schema_violation">>, <<"unclassified">>, <<>>}
===============================================================================
