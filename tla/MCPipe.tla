------------------------------- MODULE MCPipe -------------------------------
(* Pipe for TLC.                                                           *)
EXTENDS Pipe, TLC

Symmetry == Permutations(Bytes)
=============================================================================
