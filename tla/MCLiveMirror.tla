---------------------------- MODULE MCLiveMirror ----------------------------
(* Instances of LiveMirror for TLC. *)
EXTENDS LiveMirror

Bodies == {{}, {"a"}}
=============================================================================
