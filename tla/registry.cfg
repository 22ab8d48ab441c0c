SPECIFICATION FairSpec
CONSTANTS
  Names = {n1, n2}
  Adapters = {a1, a2, a3}
  Clients = {c1, c2}
  MaxShown = 2
  None = None
INVARIANT ActiveRegistered
INVARIANT RecencyExact
PROPERTY LiveDevicesStay
PROPERTY DeadAreRemoved
PROPERTY ConnectReturns
