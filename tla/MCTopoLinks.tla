---------------------------- MODULE MCTopoLinks ----------------------------
(* Model-checking instances of TopoLinks. *)
EXTENDS TopoLinks, TLC

NodeSymmetry == Permutations(Nodes)
=============================================================================
