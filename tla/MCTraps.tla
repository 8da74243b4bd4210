------------------------------ MODULE MCTraps -------------------------------
(* Traps for TLC.                                                          *)
EXTENDS Traps

\* ticks is only ever compared with the ticks0 of a process in its loop, so
\* states that agree on the differences are one.
Elapsed ==
  LET InLoop(p) == \E i \in DOMAIN code[p] : code[p][i][1] = "while"
  IN  <<cpu, lk, code, state, saved, hart, n, killed, panicked,
        [p \in Procs |-> IF InLoop(p) THEN (ticks - ticks0[p]) % WRAP ELSE 0]>>
=============================================================================
