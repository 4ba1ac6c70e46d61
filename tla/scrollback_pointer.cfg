SPECIFICATION Spec
CONSTANTS
  Cell = {c1, c2, c3, c4}
  Null = null
  Height = 2
  MaxHist = 3
  MaxLines = 5
SYMMETRY Symmetric
INVARIANTS
  IndexPointsAtHistory
CHECK_DEADLOCK FALSE
