------------------------------ MODULE MCMemory ------------------------------
(***************************************************************************)
(* Memory and Umalloc for TLC: the kernel's allocator and address spaces,  *)
(* and the allocator of a user program.  A behaviour is of one part only;  *)
(* the other stays as it was in the beginning.                             *)
(*                                                                         *)
(* In Memory nothing depends on which page is which: two states where each *)
(* page has one holder are alike up to the pages' names when the same      *)
(* nodes have a page, so TLC keeps one of them.  A state with other pages  *)
(* than those never counts as seen.                                        *)
(***************************************************************************)
EXTENDS Memory, TLC

CONSTANTS Units, MINUNITS, SBRKS, LIMIT

VARIABLES head, freep, brk, held, foreign, refused, part

heap == <<head, freep, brk, held, foreign, refused>>
U == INSTANCE Umalloc

MCInit == Init /\ U!Init /\ part \in {"kernel", "user"}

MCNext ==
  \/ part = "kernel" /\ Next /\ UNCHANGED <<heap, part>>
  \/ part = "user" /\ U!Next /\ UNCHANGED <<vars, part>>

MCSpec == MCInit /\ [][MCNext]_<<vars, heap, part>>

\* malloc() and free() of user programs keep the free list in order, joined
\* and complete, and blocks apart; malloc() fails only when it must.
HeapSound == U!HeapSound

Shape ==
  IF part = "user" THEN <<heap>>
  ELSE <<Cardinality(free), [k \in DOMAIN tab |-> {n \in Nodes : tab[k][n] # 0}],
         {p \in Procs : tf[p] # 0}, sz, me, bad, PagesPartition, SpaceMatchesSize>>
=============================================================================
