SPECIFICATION FairSpec
CONSTANTS
  Turns = {t1, t2, t3}
  Messages = {m1}
  MaxWork = 1
  MaxCrashes = 1
  Overlap = FALSE
  Deletable = FALSE
  Faults = {"save"}
INVARIANTS AtMostOneDone  ReportedOnce
PROPERTIES InvocationsEnd RecoveryCloses ImplementsLedger
CHECK_DEADLOCK FALSE
