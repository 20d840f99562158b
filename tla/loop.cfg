SPECIFICATION Spec
CONSTANTS
  Asked = {t}
  Code = {}
  Others = {n, m}
  Minor = {m}
  Hidden = {n}
  Engines = {e, d}
  EngineOf <- TwoEngines
  MaxRounds = 2
  MaxAttempts = 0
  Rebases = TRUE
  FullScans = FALSE
  MaxMoves = 1
INVARIANTS FullScanDecides RecordAgrees
PROPERTIES ImplementsPromise
VIEW WithoutHistory
CHECK_DEADLOCK FALSE
