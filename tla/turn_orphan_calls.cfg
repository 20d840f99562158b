SPECIFICATION Spec
CONSTANTS
  Writes = {w}
  Checks = {}
  Reads = {r}
  Others = {}
  MaxIterations = 2
  MaxToolCalls = 8
  MaxRepeats = 2
  MaxUnverified = 2
  MaxBatch = 2
  MaxTurns = 2
  Interrupts = {1}
INVARIANTS RequestsAnswered
