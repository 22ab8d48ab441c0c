SPECIFICATION FairSpec
CONSTANTS
  Host = host
  Clients = {c1, c2}
  Workers = {w1}
  Values = {v1, v2}
  None = None
  Cap = 1
  MaxWrites = 2
  MaxBreaks = 1
INVARIANT TypeOK
INVARIANT SequentialWritesConverge
PROPERTY EventuallyJoined
PROPERTY SetsDieOut
CHECK_DEADLOCK FALSE
