------------------------------- MODULE Bcache -------------------------------
(***************************************************************************)
(* The buffer cache of kernel/bio.c with the sleep locks of                *)
(* kernel/sleeplock.c.  A step is one section under bcache.lock or under   *)
(* the spinlock of a sleep lock, or one disk transfer by the process that  *)
(* has the buffer locked.                                                  *)
(*                                                                         *)
(* How the callers use it: a process that has modified a buffer writes it  *)
(* (bwrite) or has the log pin it (log_write) before it lets go, and the   *)
(* log unpins a block only after writing it home.                          *)
(***************************************************************************)
EXTENDS Integers, Sequences, FiniteSets

CONSTANTS Procs, Bufs, Blocks, Vals,
          Nobody,    \* "not locked", "no buffer"
          NoBlock,   \* dev 0: the buffer has never been used
          MAXPIN     \* bound: buffers the log pins at once

ASSUME BcacheAssumption ==
  /\ Nobody \notin Procs \cup Bufs /\ NoBlock \notin Blocks /\ MAXPIN \in Nat
  /\ IsFiniteSet(Procs) /\ IsFiniteSet(Bufs)

VARIABLES
  disk,     \* contents of every block on the disk
  lru,      \* bcache.head list, most recently used first
  bno,      \* b->dev and b->blockno
  valid,    \* b->valid
  refcnt,   \* b->refcnt
  data,     \* b->data
  locked,   \* b->lock: the process holding the sleep lock, or Nobody
  pinned,   \* buffers the log has pinned
  pc,
  blk,      \* the block each process asked for
  mine,     \* the buffer bget() gave it
  panicked  \* bget() found no buffer

cache == <<lru, bno, refcnt>>
contents == <<disk, data, valid>>
Holding == {"read", "have", "dirty"}
vars == <<disk, lru, bno, valid, refcnt, data, locked, pinned, pc, blk, mine, panicked>>
-----------------------------------------------------------------------------
(* Helpers.  A definition with the name of another one and a suffix is a   *)
(* wrong version of it that no specification uses.                         *)

\* Walking the list from the front (or the back), b is the first one in S.
FirstOf(b, S) == \E k \in DOMAIN lru : lru[k] = b /\ b \in S
                   /\ \A m \in DOMAIN lru : m < k => lru[m] \notin S

LastOf(b, S) == \E k \in DOMAIN lru : lru[k] = b /\ b \in S
                  /\ \A m \in DOMAIN lru : m > k => lru[m] \notin S

Caching(k) == {b \in Bufs : bno[b] = k}

\* bget() may recycle a buffer that nobody uses, waits for or has pinned.
Unused == {b \in Bufs : refcnt[b] = 0}

\* releasesleep(): wakeup(lk).
Wake(b, f) == [p \in Procs |-> IF f[p] = "asleep" /\ mine[p] = b THEN "lock" ELSE f[p]]

Fetch_KeepValid(b) == UNCHANGED valid

\* bget() on a recycled buffer: b->valid = 0.
Fetch(b) == valid' = [valid EXCEPT ![b] = FALSE]

Unref_Leak(b) == refcnt

\* b->refcnt--
Unref(b) == [refcnt EXCEPT ![b] = @ - 1]

MoveToFront(b) == <<b>> \o SelectSeq(lru, LAMBDA x : x # b)

Goto(p, l) == pc' = [pc EXCEPT ![p] = l]
-----------------------------------------------------------------------------
\* bread() enters bget(): one section under bcache.lock.
bget(p, k) ==
  /\ ~panicked
  /\ pc[p] = "idle"
  /\ \/ \E b \in Bufs :
          /\ FirstOf(b, Caching(k))
          /\ refcnt' = [refcnt EXCEPT ![b] = @ + 1]
          /\ mine' = [mine EXCEPT ![p] = b]
          /\ blk' = [blk EXCEPT ![p] = k]
          /\ Goto(p, "lock")
          /\ UNCHANGED <<bno, valid, panicked>>
     \/ \E b \in Bufs :
          /\ Caching(k) = {}
          /\ LastOf(b, Unused)
          /\ bno' = [bno EXCEPT ![b] = k]
          /\ Fetch(b)
          /\ refcnt' = [refcnt EXCEPT ![b] = 1]
          /\ mine' = [mine EXCEPT ![p] = b]
          /\ blk' = [blk EXCEPT ![p] = k]
          /\ Goto(p, "lock")
          /\ UNCHANGED panicked
     \/ /\ Caching(k) = {} /\ Unused = {}
        /\ panicked' = TRUE
        /\ UNCHANGED <<bno, valid, refcnt, mine, blk, pc>>
  /\ UNCHANGED <<disk, lru, data, locked, pinned>>

acquiresleep(p) ==
  LET b == mine[p] IN
  /\ pc[p] = "lock"
  /\ IF locked[b] = Nobody
     THEN locked' = [locked EXCEPT ![b] = p] /\ Goto(p, "read")
     ELSE Goto(p, "asleep") /\ UNCHANGED locked
  /\ UNCHANGED <<contents, cache, pinned, blk, mine, panicked>>

\* The rest of bread(): read the block unless the buffer is valid.
bread(p) ==
  LET b == mine[p] IN
  /\ pc[p] = "read"
  /\ data' = IF valid[b] THEN data ELSE [data EXCEPT ![b] = disk[bno[b]]]
  /\ valid' = [valid EXCEPT ![b] = TRUE]
  /\ Goto(p, "have")
  /\ UNCHANGED <<disk, cache, locked, pinned, blk, mine, panicked>>

\* The caller changes b->data ...
Modify(p, v) ==
  /\ pc[p] \in {"have", "dirty"}
  /\ data' = [data EXCEPT ![mine[p]] = v]
  /\ Goto(p, "dirty")
  /\ UNCHANGED <<disk, valid, cache, locked, pinned, blk, mine, panicked>>

\* ... and writes it to the disk,
bwrite(p) ==
  /\ pc[p] \in {"have", "dirty"}
  /\ disk' = [disk EXCEPT ![bno[mine[p]]] = data[mine[p]]]
  /\ Goto(p, "have")
  /\ UNCHANGED <<data, valid, cache, locked, pinned, blk, mine, panicked>>

\* ... or has log_write() pin it.
bpin(p) ==
  LET b == mine[p] IN
  /\ pc[p] = "dirty"
  /\ IF b \in pinned THEN UNCHANGED <<pinned, refcnt>>
     ELSE /\ Cardinality(pinned) < MAXPIN
          /\ pinned' = pinned \cup {b}
          /\ refcnt' = [refcnt EXCEPT ![b] = @ + 1]
  /\ Goto(p, "have")
  /\ UNCHANGED <<contents, lru, bno, locked, blk, mine, panicked>>

\* install_trans(): bunpin() right after bwrite(), with the buffer locked.
bunpin(p) ==
  LET b == mine[p] IN
  /\ pc[p] = "have"
  /\ b \in pinned /\ data[b] = disk[bno[b]]
  /\ pinned' = pinned \ {b}
  /\ refcnt' = Unref(b)
  /\ UNCHANGED <<contents, lru, bno, locked, pc, blk, mine, panicked>>

\* brelse(): first releasesleep(&b->lock),
releasesleep(p) ==
  LET b == mine[p] IN
  /\ pc[p] = "have"
  /\ locked' = [locked EXCEPT ![b] = Nobody]
  /\ pc' = [Wake(b, pc) EXCEPT ![p] = "release"]
  /\ UNCHANGED <<contents, cache, pinned, blk, mine, panicked>>

\* ... then the section under bcache.lock.
brelse(p) ==
  LET b == mine[p] IN
  /\ pc[p] = "release"
  /\ refcnt' = Unref(b)
  /\ lru' = IF refcnt[b] = 1 THEN MoveToFront(b) ELSE lru
  /\ Goto(p, "idle")
  /\ mine' = [mine EXCEPT ![p] = Nobody]
  /\ blk' = [blk EXCEPT ![p] = NoBlock]
  /\ UNCHANGED <<contents, bno, locked, pinned, panicked>>
-----------------------------------------------------------------------------
\* binit(): no buffer caches a block.
Init ==
  /\ disk \in [Blocks -> Vals]
  /\ lru \in [1..Cardinality(Bufs) -> Bufs]
  /\ \A b \in Bufs : \E k \in DOMAIN lru : lru[k] = b
  /\ bno = [b \in Bufs |-> NoBlock]
  /\ valid = [b \in Bufs |-> FALSE]
  /\ refcnt = [b \in Bufs |-> 0]
  /\ data \in {[b \in Bufs |-> v] : v \in Vals}
  /\ locked = [b \in Bufs |-> Nobody]
  /\ pinned = {}
  /\ pc = [p \in Procs |-> "idle"]
  /\ blk = [p \in Procs |-> NoBlock]
  /\ mine = [p \in Procs |-> Nobody]
  /\ panicked = FALSE

Step(p) ==
  acquiresleep(p) \/ bread(p) \/ bwrite(p) \/ bpin(p) \/ bunpin(p)
    \/ releasesleep(p) \/ brelse(p)

Next ==
  \E p \in Procs :
    Step(p) \/ (\E k \in Blocks : bget(p, k)) \/ (\E v \in Vals : Modify(p, v))

Spec == Init /\ [][Next]_vars
-----------------------------------------------------------------------------
(* Properties.                                                             *)

\* The type of every variable.
TypeOK ==
  /\ disk \in [Blocks -> Vals]
  /\ bno \in [Bufs -> Blocks \cup {NoBlock}]
  /\ valid \in [Bufs -> BOOLEAN]
  /\ refcnt \in [Bufs -> Nat]
  /\ data \in [Bufs -> Vals]
  /\ locked \in [Bufs -> Procs \cup {Nobody}]
  /\ pinned \in SUBSET Bufs
  /\ pc \in [Procs -> {"idle", "lock", "asleep", "release"} \cup Holding]
  /\ blk \in [Procs -> Blocks \cup {NoBlock}]
  /\ mine \in [Procs -> Bufs \cup {Nobody}]
  /\ panicked \in BOOLEAN

\* What a process that locks a block would find in it: the valid buffer that
\* caches the block, or the disk.
View(bn, va, da, d) ==
  [k \in Blocks |-> IF \E b \in Bufs : bn[b] = k /\ va[b]
                    THEN da[CHOOSE b \in Bufs : bn[b] = k /\ va[b]]
                    ELSE d[k]]

\* The process that has each block locked.
Owners(bl, at) ==
  [k \in Blocks |-> IF \E p \in Procs : bl[p] = k /\ at[p] \in Holding
                    THEN CHOOSE p \in Procs : bl[p] = k /\ at[p] \in Holding
                    ELSE Nobody]

BS == INSTANCE BlockStore WITH content <- View(bno, valid, data, disk),
                               owner <- Owners(blk, pc)

\* The cache is coherent: recycling, concurrent misses and hits and the two
\* halves of brelse() never show a process an old contents of its block, and no
\* two processes have the same block locked.
Coherent == BS!SSpec

\* No block is cached twice, and the buffer a process got from bget() still
\* belongs to its block however long it slept for the lock.
OneBufferPerBlock ==
  /\ \A b, c \in Bufs : bno[b] = bno[c] /\ bno[b] # NoBlock => b = c
  /\ \A p \in Procs : pc[p] # "idle" => bno[mine[p]] = blk[p]

\* A process sleeps for a buffer only while another has it locked.
NoLostWakeup ==
  \A p \in Procs : pc[p] = "asleep" => locked[mine[p]] \notin {Nobody, p}

\* bget() finds a buffer as long as the processes and the pins leave one.
EnoughBuffers ==
  Cardinality(Procs) + MAXPIN <= Cardinality(Bufs) => ~panicked
-----------------------------------------------------------------------------
(* The inductive invariant.                                                *)

\* Who holds a reference on b: the processes bget() gave it to, and the log.
Refs(b) == {p \in Procs : mine[p] = b} \cup (IF b \in pinned THEN {Nobody} ELSE {})

RefInv ==
  /\ \A b \in Bufs : refcnt[b] = Cardinality(Refs(b))
  /\ Cardinality(pinned) <= MAXPIN

UserInv ==
  \A p \in Procs : IF pc[p] = "idle" THEN mine[p] = Nobody /\ blk[p] = NoBlock
                    ELSE mine[p] \in Bufs /\ blk[p] \in Blocks

LockInv ==
  \A p \in Procs, b \in Bufs : locked[b] = p <=> mine[p] = b /\ pc[p] \in Holding

\* A valid buffer equals its block on the disk unless it is being modified or
\* the log has pinned it.
DataInv ==
  /\ \A b \in Bufs : valid[b] => bno[b] # NoBlock
  /\ \A b \in pinned : valid[b]
  /\ \A p \in Procs : pc[p] \in {"have", "dirty"} => valid[mine[p]]
  /\ \A b \in Bufs :
       valid[b] /\ b \notin pinned /\ (\A p \in Procs : mine[p] = b => pc[p] # "dirty")
         => data[b] = disk[bno[b]]

\* Reference counts, locks, waiters, tags and contents agree in every state:
\* what makes it safe for bget() to recycle a buffer with refcnt 0.
IInv == TypeOK /\ RefInv /\ UserInv /\ LockInv /\ DataInv /\ NoLostWakeup /\ OneBufferPerBlock
=============================================================================
