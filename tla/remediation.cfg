SPECIFICATION Spec
CONSTANTS
  Issues = {f1, f2}
  Contents = {}
  OldStatuses = {"absent", "fixing"}
  WebOps = 1
  Files = {a, b}
  MaxConflictRounds = 2
  MaxMoves = 2
  Lines = {1, 2}
  Selections = {{"builtin", "codeql"}, {"builtin"}}
  Verifiers = {v1, v2}
  MaxEdits = 1
  Targets = {t}
  Fix = {x, y}
INVARIANTS  RebaseKeepsWork   
CONSTRAINT OneHole
SYMMETRY Symmetry
VIEW View
CHECK_DEADLOCK FALSE
