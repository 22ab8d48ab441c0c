SPECIFICATION Spec
CONSTANTS
  Ports = {a, b}
  Settings <- TwoSettings
  MaxPower = 1
  Retries = 2
  MaxQueue = 0
  MaxUnread = 0
  None = None
INVARIANTS OkMeansDone
SYMMETRY Symmetry
