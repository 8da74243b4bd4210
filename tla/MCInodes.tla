------------------------------ MODULE MCInodes ------------------------------
(* Inodes for TLC.                                                         *)
EXTENDS Inodes, TLC

Symmetry == Permutations(Procs) \cup Permutations(Names) \cup Permutations(Blocks)
=============================================================================
