SPECIFICATION FairSpec
CONSTANTS
  Batch = {TRUE, FALSE}
  Newline = {TRUE, FALSE}
  MaxInt = 0
PROPERTIES
  BootFinishes
CHECK_DEADLOCK FALSE
