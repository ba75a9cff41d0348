---------------------------- MODULE MCRuntimeData ----------------------------
(* An instance of the file transactions for TLC.                           *)
EXTENDS RuntimeDataTransaction
=============================================================================
