SPECIFICATION Spec
CONSTANTS
  Ports = {a, b}
  Settings <- TwoSettings
  MaxPower = 1
  Retries = 2
  MaxQueue = 0
  MaxUnread = 1
  None = None
INVARIANTS TypeOK AtMostOnce IgnoredOnlyAfterLapse OkMeansDoneIfExecuted
SYMMETRY Symmetry
