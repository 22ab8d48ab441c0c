SPECIFICATION Spec
CONSTANTS
  Ports = {a, b}
  Modes = {m, n}
  MaxMishaps = 1
  MaxRid = 3
  MaxLate = 1
  MaxUp = 2
  MaxNotices = 2
  MaxFeedback = 1
  None = None
INVARIANTS TypeOK CacheFollowsHub
PROPERTIES GoneHubFailsCalls ImplementsHubCall
CHECK_DEADLOCK FALSE
