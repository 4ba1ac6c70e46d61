SPECIFICATION FairSpec
CONSTANTS
  Wrap = 64
  Page = 2
  Meg = 4
  KernelLoad = 18
  StatusPort = 5
  Top = 46
  Boots <- MCBoots
INVARIANTS TypeOK KernelStands HandedOver
PROPERTY StaticBoots
CHECK_DEADLOCK FALSE
