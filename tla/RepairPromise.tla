--------------------------- MODULE RepairPromise ---------------------------
(* What a fix loop promises: while it works, what there is to object to may *)
(* change at will; then it passes one verdict, and "verified" only when     *)
(* there is nothing to object to.                                           *)
CONSTANT Verdicts
VARIABLES objections, verdict

Init == verdict = "none"

Work == verdict = "none" /\ verdict' = "none"

Judge ==
  /\ verdict = "none" /\ verdict' \in Verdicts
  /\ verdict' = "verified" => objections = {} /\ objections' = {}

Next == Work \/ Judge

Spec == Init /\ [][Next]_<<objections, verdict>>
=============================================================================
