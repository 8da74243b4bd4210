---------------------------- MODULE MCVirtioDisk ----------------------------
(* VirtioDisk for TLC.                                                     *)
EXTENDS VirtioDisk, TLC

Symmetry == Permutations(Procs) \cup Permutations(Blocks) \cup Permutations(Vals)

\* The driver and the device treat the entries of a ring alike, so two states
\* that differ by a rotation of both rings are one: indices and entries are
\* seen from used_idx.
Rotated ==
  LET From(i) == (i - used_idx) % WRAP
      Seen(ring) == [d \in Descs |-> ring[(used_idx + d) % NUM]]
  IN  <<free, desc, ops, info, Seen(avail), From(avail_idx), disk, Seen(used), From(uidx), From(seen),
        inflight, request, data, lock, raised, pc, head, bdisk, panicked>>
=============================================================================
