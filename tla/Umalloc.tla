------------------------------- MODULE Umalloc -------------------------------
(***************************************************************************)
(* The memory allocator of user programs, user/umalloc.c.                  *)
(*                                                                         *)
(* An address counts headers; the static header base is below the heap, at *)
(* 0.  head has the header at the start of each block: the base, the free  *)
(* blocks, which have a pointer to the next one, and those handed out,     *)
(* whose pointer is not used.  What is inside a block is not modelled.     *)
(***************************************************************************)
EXTENDS Integers, FiniteSets, FiniteSetsExt

CONSTANTS Units,      \* the sizes asked for, in headers, with the block's own
          MINUNITS,   \* what morecore() asks for at least (4096)
          SBRKS,      \* what the program adds with sbrk() of its own
          LIMIT       \* where sbrk() fails

VARIABLES
  head,     \* address -> [ptr, size]
  freep,    \* where the next search begins
  brk,      \* the end of the heap
  held,     \* the blocks the program has: address -> the size asked for
  foreign,  \* the addresses the program got from sbrk()
  refused   \* the size for which malloc() just returned 0, or 0

vars == <<head, freep, brk, held, foreign, refused>>

base == 0
Null == -1
Ptr(h, p) == h[p].ptr
Size(h, p) == h[p].size
-----------------------------------------------------------------------------
(* free().  A definition with the name of another one and a suffix is a    *)
(* wrong version of it that no specification uses.                         *)

\* The free block after which bp belongs, searched from p on.
RECURSIVE Place(_, _, _)
Place(h, bp, p) ==
  LET q == Ptr(h, p) IN
  IF (bp > p /\ bp < q) \/ (p >= q /\ (bp > p \/ bp < q)) THEN p ELSE Place(h, bp, q)

Drop(h, a) == [x \in DOMAIN h \ {a} |-> h[x]]

JoinUpper_Not(h, bp, q) == [h EXCEPT ![bp].ptr = q]

\* Put bp before q, or make one block of them.
JoinUpper(h, bp, q) ==
  IF bp + Size(h, bp) = q
  THEN Drop([h EXCEPT ![bp] = [ptr |-> Ptr(h, q), size |-> @.size + Size(h, q)]], q)
  ELSE [h EXCEPT ![bp].ptr = q]

JoinLower(h, p, bp) ==
  IF p + Size(h, p) = bp
  THEN Drop([h EXCEPT ![p] = [ptr |-> Ptr(h, bp), size |-> @.size + Size(h, bp)]], bp)
  ELSE [h EXCEPT ![p].ptr = bp]

\* The headers, and freep, after free() of the block at bp.
Freed(h, bp, from) ==
  LET p == Place(h, bp, from)
  IN  [head |-> JoinLower(JoinUpper(h, bp, Ptr(h, p)), p, bp), freep |-> p]

free(bp) ==
  LET f == Freed(head, bp, freep) IN
  /\ head' = f.head /\ freep' = f.freep
  /\ held' = [a \in DOMAIN held \ {bp} |-> held[a]]
  /\ refused' = 0
  /\ UNCHANGED <<brk, foreign>>
-----------------------------------------------------------------------------
(* malloc().                                                               *)

\* The block before the first one of at least n, searched from prevp on; or
\* Null when the search is back at freep.
RECURSIVE Fit(_, _, _, _)
Fit(h, prevp, n, start) ==
  LET p == Ptr(h, prevp) IN
  IF Size(h, p) >= n THEN prevp ELSE IF p = start THEN Null ELSE Fit(h, p, n, start)

\* Take n units from the block after prevp, at its end.
Take(h, prevp, n) ==
  LET p == Ptr(h, prevp)
      a == p + Size(h, p) - n
  IN  IF Size(h, p) = n THEN [head |-> [h EXCEPT ![prevp].ptr = Ptr(h, p), ![p].ptr = Null], block |-> p]
      ELSE [head |-> [x \in DOMAIN h \cup {a} |-> IF x = a THEN [ptr |-> Null, size |-> n]
                                                  ELSE IF x = p THEN [h[p] EXCEPT !.size = @ - n] ELSE h[x]],
            block |-> a]

\* morecore(): a new block at the end of the heap is freed; or no memory.
Asked(n) == Max({n, MINUNITS})
morecore(h, n, from) == Freed([x \in DOMAIN h \cup {brk} |-> IF x = brk THEN [ptr |-> Null, size |-> Asked(n)] ELSE h[x]],
                              brk, from)

\* The first call makes the list of base only.
malloc(n) ==
  LET h == IF freep = Null THEN [x \in {base} |-> [ptr |-> base, size |-> 0]] ELSE head
      start == IF freep = Null THEN base ELSE freep
      found == Fit(h, start, n, start)
      more == morecore(h, n, start)
      enough == brk + Asked(n) <= LIMIT
      from == IF found # Null THEN h ELSE more.head
      prevp == IF found # Null THEN found ELSE Fit(more.head, more.freep, n, more.freep)
      t == Take(from, prevp, n)
  IN  IF found = Null /\ ~enough
      THEN head' = h /\ freep' = start /\ refused' = n /\ UNCHANGED <<brk, held, foreign>>
      ELSE /\ head' = t.head /\ freep' = prevp
           /\ held' = [a \in DOMAIN held \cup {t.block} |-> IF a = t.block THEN n ELSE held[a]]
           /\ brk' = IF found = Null THEN brk + Asked(n) ELSE brk
           /\ refused' = 0
           /\ UNCHANGED foreign

\* The program moves the end of the heap itself.
sbrk(n) ==
  /\ brk + n <= LIMIT
  /\ brk' = brk + n /\ foreign' = foreign \cup brk..brk + n - 1 /\ refused' = 0
  /\ UNCHANGED <<head, freep, held>>
-----------------------------------------------------------------------------
Init ==
  /\ head = [x \in {} |-> 0] /\ freep = Null /\ brk = 1 /\ held = [x \in {} |-> 0]
  /\ foreign = {} /\ refused = 0

Next ==
  \/ \E n \in Units : malloc(n)
  \/ \E a \in DOMAIN held : free(a)
  \/ \E n \in SBRKS : sbrk(n)

Spec == Init /\ [][Next]_vars
-----------------------------------------------------------------------------
(* Properties.                                                             *)

FreeBlocks == DOMAIN head \ (DOMAIN held \cup {base})
Extent(a) == a..a + Size(head, a) - 1

\* The free list is a circle through base in the order of addresses, on which
\* freep is; the free blocks, those handed out and what the program got from
\* sbrk() make up the heap without overlap, no two free blocks touch, a block
\* has the size asked for until it is freed; and malloc() returns 0 only when
\* no free block is large enough and sbrk() fails.
HeapSound ==
  freep # Null =>
    LET list == FreeBlocks \cup {base}
        blocks == DOMAIN head \ {base}
    IN  /\ freep \in list
        /\ \A p \in list : Ptr(head, p) = Min({q \in list : q > p} \cup (IF p = Max(list) THEN {base} ELSE {}))
        /\ UNION {Extent(a) : a \in blocks} \cup foreign = 1..brk - 1
        /\ \A a, b \in blocks : a # b => Extent(a) \cap Extent(b) = {}
        /\ \A a \in blocks : Extent(a) \cap foreign = {}
        /\ \A a \in FreeBlocks : Size(head, a) > 0 /\ a + Size(head, a) \notin FreeBlocks
        /\ \A a \in DOMAIN held : a \in blocks /\ Size(head, a) = held[a]
        /\ refused # 0 => /\ \A a \in FreeBlocks : Size(head, a) < refused
                          /\ brk + Asked(refused) > LIMIT
=============================================================================
