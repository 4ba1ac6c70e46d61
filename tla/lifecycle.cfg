SPECIFICATION FairSpec
CONSTANTS
  Batch = {TRUE, FALSE}
  Newline = {TRUE, FALSE}
  MaxInt = 3
INVARIANTS
  TypeOK
  ConsoleHasCard
  ResetOnExit
  LogOfLiveCard
PROPERTIES
  HandlerEnds
  BatchInterruptResets
  BootFinishesUnbuffered
CHECK_DEADLOCK FALSE
