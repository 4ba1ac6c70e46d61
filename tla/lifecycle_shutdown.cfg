SPECIFICATION FairSpec
CONSTANTS
  Batch = {TRUE, FALSE}
  Newline = {TRUE, FALSE}
  MaxInt = 0
PROPERTIES
  ShutdownExits
CHECK_DEADLOCK FALSE
