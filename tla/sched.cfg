SPECIFICATION FairSpec
CONSTANTS
  Clients = {c1, c2}
  Threads = {h1, h2}
  Slots = {s1}
  Tasks = {t1, t2}
  None = None
INVARIANT TypeOK
INVARIANT OneThread
INVARIANT NothingStranded
INVARIANT HeldOnce
PROPERTY CallsReturn
PROPERTY CancelledRetire
PROPERTY DeadSlotsAreReaped
PROPERTY ThreadEnds
