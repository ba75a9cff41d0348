---------------------------- MODULE MCFileEvents ----------------------------
(* Instances of FileEvents for TLC. *)
EXTENDS FileEvents
=============================================================================
