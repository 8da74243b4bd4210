------------------------------- MODULE MCLog -------------------------------
(* Log for TLC: two reservations fit an empty log, and no longer fit once  *)
(* a block has been logged.                                                *)
EXTENDS LogSizing
=============================================================================
