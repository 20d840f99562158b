----------------------------- MODULE MCFixLoop -----------------------------
(* Instances of FixLoop for TLC.                                            *)
EXTENDS FixLoop

Main == CHOOSE e \in Engines : TRUE
OneEngine == [f \in Findings |-> Main]

(* What is minor is found by an engine that found none of the targets.      *)
TwoEngines == [f \in Findings |->
                 IF f \in Minor \cup Asked THEN Main ELSE CHOOSE e \in Engines : e # Main]

(* Nothing the loop does reads the history `real`.                          *)
WithoutHistory ==
  <<pc, audit, change, repro, attempt, round, obs, previous, best, flat, issued, moves>>
=============================================================================
