----------------------------- MODULE MCL2Setup -----------------------------
(* A small instance of L2Setup for TLC: the nodes are interchangeable. *)
EXTENDS L2Setup, TLC

NodeSymmetry == Permutations(Nodes)
==============================================================================
