SPECIFICATION Spec
CONSTANTS
  Turns = {t1, t2, t3}
  Messages = {m1, m2}
  MaxWork = 0
  MaxCrashes = 1
  Overlap = TRUE
  Deletable = TRUE
  Faults = {}
INVARIANTS RetransmitNeverReruns DanglingIsUnfinished LostTurnVisible
CONSTRAINT TwoAtATime
SYMMETRY Symmetry
CHECK_DEADLOCK FALSE
