-------------------------------- MODULE Pipe --------------------------------
(***************************************************************************)
(* One pipe of kernel/pipe.c, used by several processes.  A step is one    *)
(* iteration of the loop of pipewrite() or piperead(), taken with pi->lock *)
(* held.  sleep() is atomic with the release of the lock and wakeup() with *)
(* the step that calls it (Proc shows why no wakeup falls between).        *)
(*                                                                         *)
(* nread and nwrite are unsigned counters of WRAP values (2^32); that      *)
(* PIPESIZE divides it is what lets the ring survive the wrap.             *)
(* A process holds one end from the start, and fileclose() calls           *)
(* pipeclose() when the last holder of an end lets go of it.               *)
(***************************************************************************)
EXTENDS Integers, Sequences

CONSTANTS Readers, Writers,  \* processes holding the read or the write end
          Nobody,            \* "pi->lock is free"
          Bytes,
          PIPESIZE, WRAP,
          MAXN,              \* bound: largest n of a read() or write()
          Kills, Faults      \* processes that may be killed; whose copyin/copyout may fail

ASSUME PipeAssumption ==
  /\ PIPESIZE \in Nat \ {0} /\ MAXN \in Nat
  /\ WRAP \in Nat /\ WRAP > PIPESIZE /\ WRAP % PIPESIZE = 0
  /\ Kills \cup Faults \subseteq Readers \cup Writers
  /\ Readers \cap Writers = {} /\ Nobody \notin Readers \cup Writers

Procs == Readers \cup Writers

VARIABLES
  data, nread, nwrite, readopen, writeopen,  \* struct pipe
  freed,    \* kfree(pi) has been called
  lock,     \* owner of pi->lock
  pc,       \* where each process is
  i, n,     \* its locals in pipewrite() and piperead()
  killed,   \* p->killed
  eof       \* readers whose last read() returned 0

pipe == <<data, nread, nwrite>>
open == <<readopen, writeopen, freed>>
vars == <<data, nread, nwrite, readopen, writeopen, freed, lock, pc, i, n, killed, eof>>

Asleep == {"w_asleep", "r_asleep"}
Inside == {"w_lock", "w_loop", "r_lock", "r_wait", "r_copy", "close"} \cup Asleep
-----------------------------------------------------------------------------
(* Helpers.  A definition with the name of another one and a suffix is a   *)
(* wrong version of it that no specification uses.                         *)

Full_Late == (nwrite - nread) % WRAP = PIPESIZE + 1

\* pi->nwrite == pi->nread + PIPESIZE, in unsigned arithmetic.
Full == nwrite = (nread + PIPESIZE) % WRAP

Empty == nread = nwrite

\* piperead(): the pipe is empty and somebody may still write to it.
MustWait == Empty /\ writeopen

WakeReaders_None(f) == f

\* wakeup(&pi->nread), applied to the program counters f.
WakeReaders(f) == [p \in Procs |-> IF f[p] = "r_asleep" THEN "r_lock" ELSE f[p]]

\* wakeup(&pi->nwrite).
WakeWriters(f) == [p \in Procs |-> IF f[p] = "w_asleep" THEN "w_lock" ELSE f[p]]

LastHolder_Any(p, S) == TRUE

\* fileclose(): --f->ref has reached 0, p was the last holder of its end.
LastHolder(p, S) == \A r \in S \ {p} : pc[r] \in {"close", "closed"}

Index(k) == k % PIPESIZE

\* k++ on an unsigned counter.
Advance(k) == (k + 1) % WRAP

Goto(p, l) == pc' = [pc EXCEPT ![p] = l]

\* release(&pi->lock) and return r, with pc' made from f.
Return(p, r, f) ==
  /\ lock' = Nobody
  /\ eof' = IF p \in Readers /\ r = 0 THEN eof \cup {p} ELSE eof
  /\ i' = [i EXCEPT ![p] = 0]
  /\ n' = [n EXCEPT ![p] = 0]
  /\ pc' = [f EXCEPT ![p] = "idle"]
-----------------------------------------------------------------------------
\* A process calls write() or read() with some n.
Call(p) ==
  /\ pc[p] = "idle" /\ ~killed[p]
  /\ Goto(p, IF p \in Writers THEN "w_lock" ELSE "r_lock")
  /\ \E m \in 1..MAXN : n' = [n EXCEPT ![p] = m]
  /\ eof' = eof \ {p}
  /\ UNCHANGED <<pipe, open, lock, i, killed>>

\* acquire(&pi->lock), at the start or when sleep() returns.
Acquire(p) ==
  /\ pc[p] \in {"w_lock", "r_lock"}
  /\ lock = Nobody
  /\ lock' = p
  /\ Goto(p, IF pc[p] = "w_lock" THEN "w_loop" ELSE "r_wait")
  /\ UNCHANGED <<pipe, open, i, n, killed, eof>>

\* One iteration of pipewrite()'s loop, or its end.
pipewrite(p) ==
  /\ pc[p] = "w_loop"
  /\ \/ /\ i[p] < n[p] /\ (~readopen \/ killed[p])
        /\ Return(p, -1, pc)
        /\ UNCHANGED pipe
     \/ /\ i[p] < n[p] /\ readopen /\ ~killed[p] /\ Full
        /\ pc' = [WakeReaders(pc) EXCEPT ![p] = "w_asleep"]
        /\ lock' = Nobody
        /\ UNCHANGED <<pipe, i, n, eof>>
     \/ /\ i[p] < n[p] /\ readopen /\ ~killed[p] /\ ~Full
        /\ \E b \in Bytes : data' = [data EXCEPT ![Index(nwrite)] = b]
        /\ nwrite' = Advance(nwrite)
        /\ i' = [i EXCEPT ![p] = @ + 1]
        /\ UNCHANGED <<nread, lock, pc, n, eof>>
     \/ /\ \/ i[p] >= n[p]
           \/ p \in Faults /\ readopen /\ ~killed[p] /\ ~Full   \* copyin() fails
        /\ Return(p, i[p], WakeReaders(pc))
        /\ UNCHANGED pipe
  /\ UNCHANGED <<open, killed>>

\* piperead(): the wait for data.
piperead_wait(p) ==
  /\ pc[p] = "r_wait"
  /\ \/ /\ ~MustWait
        /\ Goto(p, "r_copy")
        /\ UNCHANGED <<lock, i, n, eof>>
     \/ /\ MustWait /\ killed[p]
        /\ Return(p, -1, pc)
     \/ /\ MustWait /\ ~killed[p]
        /\ Goto(p, "r_asleep")
        /\ lock' = Nobody
        /\ UNCHANGED <<i, n, eof>>
  /\ UNCHANGED <<pipe, open, killed>>

\* One iteration of the copy loop, or its end.  The byte is taken out of the
\* pipe before copyout(), also when that fails.
piperead_copy(p) ==
  /\ pc[p] = "r_copy"
  /\ \/ /\ i[p] < n[p] /\ ~Empty
        /\ nread' = Advance(nread)
        /\ \/ i' = [i EXCEPT ![p] = @ + 1] /\ UNCHANGED <<lock, n, eof, pc>>
           \/ p \in Faults /\ Return(p, i[p], WakeWriters(pc))
     \/ /\ i[p] = n[p] \/ Empty
        /\ Return(p, i[p], WakeWriters(pc))
        /\ UNCHANGED nread
  /\ UNCHANGED <<data, nwrite, open, killed>>

\* close() or exit(): fileclose() drops one reference.
fileclose(p) ==
  /\ pc[p] = "idle"
  /\ Goto(p, IF LastHolder(p, IF p \in Writers THEN Writers ELSE Readers)
             THEN "close" ELSE "closed")
  /\ UNCHANGED <<pipe, open, lock, i, n, killed, eof>>

pipeclose(p) ==
  /\ pc[p] = "close"
  /\ lock = Nobody
  /\ IF p \in Writers
     THEN /\ writeopen' = FALSE /\ UNCHANGED readopen
          /\ pc' = [WakeReaders(pc) EXCEPT ![p] = "closed"]
     ELSE /\ readopen' = FALSE /\ UNCHANGED writeopen
          /\ pc' = [WakeWriters(pc) EXCEPT ![p] = "closed"]
  /\ freed' = (~readopen' /\ ~writeopen')
  /\ UNCHANGED <<pipe, lock, i, n, killed, eof>>

\* kill(): does not take pi->lock.
kill(p) ==
  /\ p \in Kills /\ ~killed[p]
  /\ killed' = [killed EXCEPT ![p] = TRUE]
  /\ pc' = [pc EXCEPT ![p] = CASE @ = "w_asleep" -> "w_lock"
                               [] @ = "r_asleep" -> "r_lock"
                               [] OTHER -> @]
  /\ UNCHANGED <<pipe, open, lock, i, n, eof>>

\* The page is allocated again for a new pipe, with new holders; data[] keeps
\* its old contents.
pipealloc ==
  /\ freed
  /\ nread' = 0 /\ nwrite' = 0
  /\ readopen' = TRUE /\ writeopen' = TRUE /\ freed' = FALSE
  /\ pc' = [p \in Procs |-> "idle"]
  /\ killed' = [p \in Procs |-> FALSE]
  /\ eof' = {}
  /\ UNCHANGED <<data, lock, i, n>>
-----------------------------------------------------------------------------
\* A first pipealloc() has succeeded.
Init ==
  /\ \E b \in Bytes : data = [k \in 0..(PIPESIZE - 1) |-> b]
  /\ nread = 0 /\ nwrite = 0
  /\ readopen = TRUE /\ writeopen = TRUE /\ freed = FALSE
  /\ lock = Nobody
  /\ pc = [p \in Procs |-> "idle"]
  /\ i = [p \in Procs |-> 0]
  /\ n = [p \in Procs |-> 0]
  /\ killed = [p \in Procs |-> FALSE]
  /\ eof = {}

Step(p) ==
  \/ Acquire(p) \/ pipewrite(p) \/ piperead_wait(p) \/ piperead_copy(p) \/ pipeclose(p)

Next == (\E p \in Procs : Step(p) \/ Call(p) \/ fileclose(p) \/ kill(p)) \/ pipealloc

Spec == Init /\ [][Next]_vars

-----------------------------------------------------------------------------
(* Properties.                                                             *)

\* The type of every variable.
TypeOK ==
  /\ data \in [0..(PIPESIZE - 1) -> Bytes]
  /\ nread \in 0..(WRAP - 1) /\ nwrite \in 0..(WRAP - 1)
  /\ readopen \in BOOLEAN /\ writeopen \in BOOLEAN /\ freed \in BOOLEAN
  /\ lock \in Procs \cup {Nobody}
  /\ pc \in [Procs -> {"idle", "closed"} \cup Inside]
  /\ i \in [Procs -> 0..MAXN] /\ n \in [Procs -> 0..MAXN]
  /\ killed \in [Procs -> BOOLEAN]
  /\ eof \subseteq Readers

Count == (nwrite - nread) % WRAP

\* The bytes in the ring, oldest first.
Contents == [k \in 1..Count |-> data[Index(nread + k - 1)]]

BQ == INSTANCE ByteQueue WITH Capacity <- PIPESIZE, q <- Contents,
                              wopen <- writeopen, ropen <- readopen

\* The ring implements the bounded queue: no byte is overwritten, reordered
\* or read twice, also when the counters wrap and writers interleave.
Fifo == BQ!QSpec

\* Nobody misses a wakeup.  When nobody is inside a pipe call, a reader sleeps
\* only on a pipe that somebody may still write, and beside data only if a
\* writer was killed, whose pipewrite() returns without a wakeup; a writer
\* sleeps only on a full pipe that somebody may still read.
SleepersHaveCause ==
  lock = Nobody =>
    /\ \A p \in Readers : pc[p] = "r_asleep" => writeopen /\ (Empty \/ \E w \in Writers : killed[w])
    /\ \A p \in Writers : pc[p] = "w_asleep" => Full /\ readopen

\* Closing is final.  pipeclose() frees the pipe only when no process is in a
\* pipe call or holds an end of it; and a read that found nothing is the end of
\* file for good: every write end is closed and the pipe stays empty.
CloseIsFinal ==
  /\ TypeOK
  /\ freed => \A p \in Procs : pc[p] = "closed"
  /\ eof \subseteq Faults \/ (Empty /\ ~writeopen)
=============================================================================
