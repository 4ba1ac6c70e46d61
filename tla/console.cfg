SPECIFICATION FairSpec
CONSTANTS
  Height = 2
  MaxLines = 3
  MaxUnearned = 2
  NoCurses = FALSE
  LeftAvail <- SomeAvail
  LeftDrawn = {0, 1}
INVARIANTS
  TypeOK
  OutputKept
  HistoryReadable
  ScreenCurrent
  DumpReadable
PROPERTIES
  RunCompletes
CHECK_DEADLOCK FALSE
