SPECIFICATION FairSpec
CONSTANTS
  MaxTask = 2
  MaxDepth = 1
INVARIANT TypeOK
INVARIANT LiveAreListed
INVARIANT PanicsAreReported
PROPERTY WaitsForTheEnd
PROPERTY StopIsNoticed
PROPERTY WaiterWakes
CHECK_DEADLOCK FALSE
