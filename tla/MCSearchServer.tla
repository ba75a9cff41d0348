--------------------------- MODULE MCSearchServer ---------------------------
(* Instances of SearchServer for TLC. *)
EXTENDS SearchServer
=============================================================================
