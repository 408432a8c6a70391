--------------------------- MODULE MCFactoryRegistry ---------------------------
EXTENDS FactoryRegistryProps, TLC

CONSTANTS r1, r2, w1, w2

\* Heartbeats that announce no place, and some that do.
NoClaims   == {NoPlace}
SomeClaims == {NoPlace, [station |-> "alpha", slot |-> 1]}
================================================================================
