---------------------------- MODULE MCFallbackChain ----------------------------
EXTENDS FallbackChainProps, TLC

CONSTANTS b1, b2, g1, g2

\* A guarded provider, then one without a breaker.
GuardedThenPlain == <<b1, NoBreaker>>

\* Two providers with a breaker each.
TwoGuarded == <<b1, b2>>
===============================================================================
