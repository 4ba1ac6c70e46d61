SPECIFICATION FairSpec
CONSTANTS
  Wrap = 64
  Page = 2
  Meg = 4
  KernelLoad = 18
  StatusPort = 5
  Top = 46
  Boots <- MCBoots
PROPERTY RelocatableBoots
CHECK_DEADLOCK FALSE
