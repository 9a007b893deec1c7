------------------------------ MODULE MCOrders ------------------------------
(* Two sellers with one product each; ann wants both, bob one.             *)
EXTENDS Orders, TLC

CONSTANTS ann, bob, s1, s2, pen, ink

SoldBy == [p \in Products |-> IF p = ink THEN s2 ELSE s1]
OneEach == [p \in Products |-> 1]
CartOf == [b \in Buyers |-> [p \in Products |-> IF b = ann \/ p = pen THEN 1 ELSE 0]]
RequestSymmetry == Permutations(Requests)

\* Two of the requests are under way at a time: an ACTION_CONSTRAINT.
TwoAtATime == Cardinality({r \in Requests : req'[r].step \notin {"idle", "done"}}) <= 2

=============================================================================
