SPECIFICATION FairSpec
CONSTANTS
  MaxTask = 1
  MaxDepth = 1
PROPERTY KilledEnds
CHECK_DEADLOCK FALSE
