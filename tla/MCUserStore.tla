---------------------------- MODULE MCUserStore -----------------------------
(* Instances of UserStore for TLC. *)
EXTENDS UserStore, TLC

CONSTANTS u1, u2, u3, n1, n2

MCSeeds == <<[id |-> u1, name |-> n1, active |-> TRUE],
             [id |-> u2, name |-> n2, active |-> TRUE]>>

MCOne == <<[id |-> u1, name |-> n1, active |-> TRUE]>>

Symmetry == Permutations(Requests)
=============================================================================
