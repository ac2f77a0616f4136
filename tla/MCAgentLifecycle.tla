------------------------- MODULE MCAgentLifecycle -------------------------
\* AgentLifecycle for TLC.  Coroutines are interchangeable, and only safety is
\* checked, so they are a symmetry set.
EXTENDS AgentLifecycle, TLC

CallSymmetry == Permutations(Calls)
=============================================================================
