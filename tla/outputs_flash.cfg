SPECIFICATION FairSpec
CONSTANTS
  Devices = {d1}
  Ports = {p1}
  TaskIds = {t1, t2}
  MaxPower = 1
  MaxDown = 1
  AdapterErrors = TRUE
  None = None
INVARIANT SoleTimer
PROPERTY FlashAlternates
PROPERTY CancelledRetires
