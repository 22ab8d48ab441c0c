---------------------------- MODULE MCPortOutputs ----------------------------
EXTENDS PortOutputs, TLC
Symmetry == Permutations(TaskIds) \cup Permutations(Ports) \cup Permutations(Devices)
=============================================================================
