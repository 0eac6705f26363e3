------------------------------ MODULE MCOutbox ------------------------------
EXTENDS Outbox, TLC

\* BaseBackoff = 1 tick, doubling.
MCBackoff == [a \in 1 .. MaxAttempts |-> 2 ^ (a - 1)]

Symmetry == Permutations(Dispatchers)
=============================================================================
