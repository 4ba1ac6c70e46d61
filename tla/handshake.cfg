SPECIFICATION FairSpec
CONSTANTS
  MaxSent = 4
  MaxUnearned = 3
  NoCurses = FALSE
  LeftAvail <- AnyAvail
  LeftDrawn = {0, 1}
INVARIANTS
  TypeOK
  LossBound
  Quiescent
  ArgsFresh
  CardAtMostTwoAhead
PROPERTIES
  ChannelSpec
  CardReleased
  AllHandled
CHECK_DEADLOCK FALSE
