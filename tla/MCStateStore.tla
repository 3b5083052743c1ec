---------------------------- MODULE MCStateStore ----------------------------
EXTENDS StateStore, TLC

CONSTANTS o1, o2, k1, a1, v1, v2

MCBackups == {[data |-> [k \in Keys |-> IF k = k1 THEN v1 ELSE None], health |-> 0]}
=============================================================================
