SPECIFICATION WsFairSpec
CONSTANTS
  Turns = {t1, t2}
  Messages = {m1}
  MaxWork = 1
  MaxCrashes = 1
  Overlap = TRUE
  Deletable = FALSE
  Faults = {"drop", "tear", "save"}
  Conns = {c1, c2}
  NoTurn = NoTurn
INVARIANTS NoAbortedTurnWaits
PROPERTIES AbortedTurnsEnd
CHECK_DEADLOCK FALSE
