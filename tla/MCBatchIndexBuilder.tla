------------------------ MODULE MCBatchIndexBuilder ------------------------
(* Small instances of BatchIndexBuilder for TLC. *)
EXTENDS BatchIndexBuilder, TLC

\* Readers and indexers are interchangeable.
Symmetry == Permutations(Readers) \cup Permutations(Indexers)
=============================================================================
