---------------------------- MODULE MCAgentTurn ----------------------------
(* Instances of AgentTurn for TLC: the constants of each run are in its cfg. *)
EXTENDS AgentTurn

(* The later turn is there for what it finds in the history: one iteration  *)
(* of it is followed to its end.                                            *)
ShortLastTurn == turnNo = 1 \/ iteration <= 1
============================================================================
