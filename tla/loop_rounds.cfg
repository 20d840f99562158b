SPECIFICATION FairSpec
CONSTANTS
  Asked = {t}
  Code = {t}
  Others = {}
  Minor = {}
  Hidden = {}
  Engines = {e}
  EngineOf <- OneEngine
  MaxRounds = 3
  MaxAttempts = 2
  Rebases = FALSE
  FullScans = FALSE
  MaxMoves = 0
PROPERTIES StallIsReal LoopEnds
CHECK_DEADLOCK FALSE
