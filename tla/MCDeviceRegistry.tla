--------------------------- MODULE MCDeviceRegistry ---------------------------
EXTENDS DeviceRegistry, TLC
Symmetry == Permutations(Names) \cup Permutations(Adapters) \cup Permutations(Clients)
=============================================================================
