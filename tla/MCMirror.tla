------------------------------ MODULE MCMirror ------------------------------
(* Instances of the mirror history and its restore for TLC.                *)
EXTENDS MirrorRestore

Day == {"day"}
OneKept == [t \in Day |-> 1]
EveryTick == [t \in Day |-> 1]

Faultless == [crash |-> 0, revert |-> 0, io |-> 0, locked |-> 0, restore |-> 0]
\* A crash, beside a restore or with a failed operation; or a reverting source
\* with a failed operation.
Separate == {[Faultless EXCEPT !.crash = 1, !.restore = 1],
             [Faultless EXCEPT !.crash = 1, !.io = 1],
             [Faultless EXCEPT !.revert = 1, !.io = 1]}
\* One crash and one source that returns to an earlier content.
Together == {[Faultless EXCEPT !.crash = 1, !.revert = 1]}
=============================================================================
