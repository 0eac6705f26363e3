---------------------------- MODULE MCGroupStore ----------------------------
(* Instances of GroupStore for TLC. *)
EXTENDS GroupStore, TLC

CONSTANTS g1, g2, n1, n2, m1

MCOne == <<[id |-> g1, name |-> n1, members |-> {m1}]>>

MCTwo == <<[id |-> g1, name |-> n1, members |-> {}],
           [id |-> g2, name |-> n2, members |-> {m1}]>>

Symmetry == Permutations(Requests)
=============================================================================
