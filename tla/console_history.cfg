SPECIFICATION Spec
CONSTANTS
  Height = 2
  MaxLines = 3
  MaxUnearned = 1
  NoCurses = FALSE
  LeftAvail <- CleanAvail
  LeftDrawn = {0}
INVARIANTS
  HistoryExact
CHECK_DEADLOCK FALSE
