------------------------------ MODULE MCForward ------------------------------
EXTENDS Forward, TLC

CONSTANTS r1, r2, e1, e2, e3

Symmetry == Permutations(Endpoints)
=============================================================================
