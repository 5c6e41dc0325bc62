------------------------------- MODULE MCCart -------------------------------
(* Instances of Cart for TLC: one customer with two tabs and one without any. *)
EXTENDS Cart, TLC

CONSTANTS c1, c2

TheOwners == [t \in Tabs |-> c1]

Symmetry == Permutations(Tabs) \cup Permutations(Requests)
=============================================================================
