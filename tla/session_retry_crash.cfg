SPECIFICATION Spec
CONSTANTS
  Turns = {t1, t2, t3}
  Messages = {m1}
  MaxWork = 1
  MaxCrashes = 2
  Overlap = FALSE
  Deletable = FALSE
  Faults = {}
INVARIANT LastStartIsInterrupted
SYMMETRY Symmetry
CHECK_DEADLOCK FALSE
