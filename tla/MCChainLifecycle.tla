-------------------------- MODULE MCChainLifecycle --------------------------
EXTENDS ChainLifecycle, TLC

CONSTANTS c1, c2, operator, sweeper, refresher

Symmetry == Permutations(Clients)
=============================================================================
