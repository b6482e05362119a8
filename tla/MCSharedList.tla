---------------------------- MODULE MCSharedList ----------------------------
(* Instances of SharedList for TLC. *)
EXTENDS SharedList, TLC

CONSTANTS l1, l2, l3

\* Every list with itself, and with another one in one order only.
InOrder == {<<l1, l1>>, <<l1, l2>>, <<l1, l3>>, <<l2, l3>>}
NoPairs == {}

Symmetry == Permutations(Instances) \cup Permutations(Blocks) \cup Permutations(Threads)

\* Bound: at most this many elements are outside of the lists at a time.
FewHeld == Cardinality(held) <= 1
=============================================================================
