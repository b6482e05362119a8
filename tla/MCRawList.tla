------------------------------ MODULE MCRawList ------------------------------
(* Instances of RawList for TLC. *)
EXTENDS RawList, TLC

Symmetry == Permutations(Instances) \cup Permutations(Blocks)

\* Bound: at most this many elements are outside of the lists at a time.
FewHeld == Cardinality(held) <= 2
=============================================================================
