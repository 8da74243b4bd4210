------------------------------ MODULE MCBcache ------------------------------
(* Bcache for TLC.                                                         *)
EXTENDS Bcache, TLC

Symmetry == Permutations(Procs) \cup Permutations(Blocks) \cup Permutations(Bufs)
              \cup Permutations(Vals)
=============================================================================
