------------------------- MODULE MCDurableSession -------------------------
(* Instances of DurableSession for TLC: a handful of invocations of two     *)
(* messages, one or two conversation entries each.                          *)
EXTENDS DurableSession, TLC

(* At most two invocations are live at a time, and a session that was       *)
(* deleted sees no crash.                                                   *)
TwoAtATime == Cardinality(Live) <= 2 /\ (deletion = "none" \/ crashes = 0)

Symmetry == Permutations(Turns) \cup Permutations(Messages)
=============================================================================
