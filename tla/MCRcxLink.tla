------------------------------ MODULE MCRcxLink ------------------------------
EXTENDS RcxLink, TLC
(* Two settings that differ in everything.                                 *)
TwoSettings == {[dir |-> "even", power |-> 0], [dir |-> "odd", power |-> 1]}
Symmetry == Permutations(Ports)
=============================================================================
