----------------------------- MODULE BatchBuild -----------------------------
(***************************************************************************)
(* What BatchIndexBuilder::build promises its caller                       *)
(* (InvertedIndex::updateDocumentBaseBatch): every path ends up either     *)
(* indexed or in fileErrors, once and for good; build() returns a          *)
(* dictionary only when all of them were indexed, returns the errors when  *)
(* some were not, or throws.                                               *)
(***************************************************************************)
EXTENDS Integers

CONSTANT NumFiles

VARIABLES
    outcome,    \* what became of each file
    result      \* what build() did

Files == 0 .. NumFiles - 1

Init ==
    /\ outcome = [f \in Files |-> "pending"]
    /\ result = "running"

Settle(f, how) ==
    /\ result = "running" /\ outcome[f] = "pending"
    /\ outcome' = [outcome EXCEPT ![f] = how]
    /\ UNCHANGED result

Return ==
    /\ result = "running"
    /\ \A f \in Files : outcome[f] # "pending"
    /\ result' = IF \E f \in Files : outcome[f] = "failed" THEN "errors" ELSE "snapshot"
    /\ UNCHANGED outcome

Throw ==
    /\ result = "running"
    /\ result' = "threw"
    /\ UNCHANGED outcome

Next ==
    \/ \E f \in Files, how \in {"indexed", "failed"} : Settle(f, how)
    \/ Return
    \/ Throw

Spec == Init /\ [][Next]_<<outcome, result>>
=============================================================================
