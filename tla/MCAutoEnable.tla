---------------------------- MODULE MCAutoEnable ----------------------------
EXTENDS AutoEnable, TLC

CONSTANTS c1, c2, o1, o2

Order == [c \in Chains |-> IF c = c1 THEN 1 ELSE 2]

(* The operators are alike.                                                *)
Symmetry == Permutations(Operators)

(* A reset, and the import of a backup that unpins an auto-enabled chain.  *)
Backups == {EmptyDocument,
            [overrides |-> [c \in Chains |-> [pinned |-> "no", disabled |-> "none"]],
             auto |-> Chains]}
=============================================================================
