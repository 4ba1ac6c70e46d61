SPECIFICATION FairSpec
CONSTANTS
  MaxSent = 2
  MaxUnearned = 2
  NoCurses = FALSE
  LeftAvail <- CleanAvail
  LeftDrawn = {0}
PROPERTIES
  ShutdownDisconnects
CHECK_DEADLOCK FALSE
