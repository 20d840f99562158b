SPECIFICATION Spec
CONSTANTS
  Writes = {w}
  Checks = {c}
  Reads = {}
  Others = {}
  MaxIterations = 3
  MaxToolCalls = 3
  MaxRepeats = 2
  MaxUnverified = 2
  MaxBatch = 2
  MaxTurns = 2
  Interrupts = {1}
CONSTRAINT ShortLastTurn
INVARIANTS RequestsWellFormed WorkIsRecorded
PROPERTIES AbortStopsWork StallsAreReal TurnAdvances
