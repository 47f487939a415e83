-------------------------- MODULE MCOrderLifecycle --------------------------
(***************************************************************************)
(* Small instances of OrderLifecycle: one order of two lines, with a       *)
(* channel SKU each or a common one.                                       *)
(***************************************************************************)
EXTENDS OrderLifecycle, TLC

CONSTANTS o1, o2, l1, l2, k1, k2, m1, m2, p1, p2

OneOrder == [l \in {l1, l2} |-> o1]
TwoKeys == [l \in {l1, l2} |-> IF l = l1 THEN k1 ELSE k2]
OneKey == [l \in {l1, l2} |-> k1]
OneChoice == [k \in Key |-> {m1}]
TwoChoices == [k \in Key |-> {m1, m2}]

Sessions == Permutations({p1, p2})
=============================================================================
