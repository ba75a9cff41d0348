-------------------------- MODULE MCInvertedIndex --------------------------
(* Instances of InvertedIndex for TLC. *)
EXTENDS InvertedIndex, TLC

Symmetry == Permutations(Files) \cup Permutations(Watchers)
=============================================================================
