SPECIFICATION Spec
CONSTANTS
  Files = {f}
  Texts = {a, b}
  MaxCalls = 2
  MaxOutside = 0
INVARIANTS UndoRestores
CHECK_DEADLOCK FALSE
