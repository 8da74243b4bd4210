----------------------------- MODULE PipeProofs -----------------------------
(***************************************************************************)
(* Proofs about Pipe, for all sets of readers, writers and bytes, all sizes *)
(* of the ring and all widths of its counters: IInv is inductive, nobody   *)
(* misses a wakeup, closing is final, and the ring implements ByteQueue.   *)
(***************************************************************************)
EXTENDS Pipe, SequenceTheorems, TLAPS

Holding == {"w_loop", "r_wait", "r_copy"}
Writing == {"w_lock", "w_loop", "w_asleep"}
Reading == {"r_lock", "r_wait", "r_copy", "r_asleep"}

\* pi->lock is held by the process that is inside a loop; ends are not mixed.
LockInv == \A p \in Procs : /\ lock = p <=> pc[p] \in Holding
                            /\ pc[p] \in Writing => p \in Writers
                            /\ pc[p] \in Reading => p \in Readers

\* An end stays open while somebody holds it; one process closes it.
EndInv == /\ freed = (~readopen /\ ~writeopen)
          /\ \A p \in Readers : /\ pc[p] # "closed" => readopen
                                /\ pc[p] = "close" => \A r \in Readers \ {p} : pc[r] = "closed"
          /\ \A p \in Writers : /\ pc[p] # "closed" => writeopen
                                /\ pc[p] = "close" => \A w \in Writers \ {p} : pc[w] = "closed"

\* i and n of piperead(): nothing is read before the wait for data is over.
LocalInv == \A p \in Procs : /\ pc[p] \notin Holding \cup {"w_lock", "w_asleep"} => i[p] = 0
                             /\ pc[p] = "r_wait" => i[p] = 0
                             /\ pc[p] \in Reading => n[p] >= 1
                             /\ pc[p] = "r_copy" /\ i[p] = 0 => ~MustWait

\* Why each sleeper sleeps, also while somebody holds the lock and is about
\* to call wakeup().
SleepInv == /\ \A p \in Readers : pc[p] = "r_asleep" =>
                 /\ writeopen
                 /\ Empty \/ \E w \in Writers : killed[w] \/ pc[w] = "w_loop"
            /\ \A p \in Writers : pc[p] = "w_asleep" =>
                 /\ readopen
                 /\ Full \/ \E r \in Readers : pc[r] = "r_copy"

EofInv == eof \subseteq Faults \/ (Empty /\ ~writeopen)

IInv == TypeOK /\ LockInv /\ EndInv /\ LocalInv /\ SleepInv /\ EofInv /\ Count <= PIPESIZE
-----------------------------------------------------------------------------
(* Remainders.                                                             *)

\* A multiple of M other than 0 is at least M away from 0.
LEMMA MultipleIsFar ==
  ASSUME NEW M \in Nat \ {0}, NEW d \in Int, d # 0, NEW e \in Int, e = M * d
  PROVE  e >= M \/ e <= -M
  <1>1. CASE d >= 1
    <2>1. M * (d - 1) >= 0
      BY <1>1
    <2>2. M * d = M * (d - 1) + M
      OBVIOUS
    <2>3. QED
      BY <2>1, <2>2
  <1>2. CASE d <= -1
    <2>1. M * (-1 - d) >= 0
      BY <1>2
    <2>2. M * d = -(M * (-1 - d)) - M
      OBVIOUS
    <2>3. QED
      BY <2>1, <2>2
  <1>3. QED
    BY <1>1, <1>2

\* What % and \div are.
LEMMA Remainder ==
  ASSUME NEW M \in Nat \ {0}, NEW x \in Int
  PROVE  x % M \in 0..M - 1 /\ x = M * (x \div M) + (x % M) /\ x \div M \in Int
  OBVIOUS

\* The remainder is the only one.
LEMMA RemainderUnique ==
  ASSUME NEW M \in Nat \ {0}, NEW q \in Int, NEW s \in 0..M - 1
  PROVE  (M * q + s) % M = s
  <1> DEFINE x == M * q + s
  <1> DEFINE t == x \div M
  <1> DEFINE r == x % M
  <1>1. x \in Int /\ t \in Int /\ r \in 0..M - 1 /\ x = M * t + r
    BY Remainder
  <1> HIDE DEF t, r
  <1>2. M * q - M * t = M * (q - t)
    BY <1>1
  <1>3. r - s = M * (q - t)
    BY <1>1, <1>2
  <1>4. q - t = 0
    BY <1>1, <1>3, MultipleIsFar
  <1>5. QED
    BY <1>1, <1>3, <1>4 DEF r

\* Unsigned arithmetic on the counters, as additions and subtractions.
LEMMA Unsigned ==
  ASSUME NEW x \in -WRAP..2 * WRAP - 1
  PROVE  x % WRAP = IF x < 0 THEN x + WRAP ELSE IF x < WRAP THEN x ELSE x - WRAP
  <1>1. CASE x < 0
    <2>1. x = WRAP * (-1) + (x + WRAP) /\ x + WRAP \in 0..WRAP - 1
      BY <1>1, PipeAssumption
    <2>2. QED
      BY <1>1, <2>1, RemainderUnique, PipeAssumption
  <1>2. CASE x >= 0 /\ x < WRAP
    <2>1. x = WRAP * 0 + x /\ x \in 0..WRAP - 1
      BY <1>2, PipeAssumption
    <2>2. QED
      BY <1>2, <2>1, RemainderUnique, PipeAssumption
  <1>3. CASE x >= WRAP
    <2>1. x = WRAP * 1 + (x - WRAP) /\ x - WRAP \in 0..WRAP - 1
      BY <1>3, PipeAssumption
    <2>2. QED
      BY <1>3, <2>1, RemainderUnique, PipeAssumption
  <1>4. QED
    BY <1>1, <1>2, <1>3, PipeAssumption

\* PIPESIZE divides WRAP: the index survives the wrap of a counter.
LEMMA IndexWraps ==
  ASSUME NEW k \in Nat
  PROVE  Index(WRAP + k) = Index(k) /\ Index(k) \in 0..PIPESIZE - 1
  <1> DEFINE a == WRAP \div PIPESIZE
  <1> DEFINE c == k \div PIPESIZE
  <1> DEFINE s == k % PIPESIZE
  <1>1. a \in Int /\ WRAP = PIPESIZE * a
    BY Remainder, PipeAssumption
  <1>2. c \in Int /\ s \in 0..PIPESIZE - 1 /\ k = PIPESIZE * c + s
    BY Remainder, PipeAssumption
  <1>3. Index(k) = s
    BY Zenon DEF Index
  <1> HIDE DEF a, c, s
  <1>4. a + c \in Int /\ PIPESIZE * a + PIPESIZE * c = PIPESIZE * (a + c)
    BY <1>1, <1>2, PipeAssumption
  <1>5. WRAP + k = PIPESIZE * (a + c) + s
    BY <1>1, <1>2, <1>4, PipeAssumption
  <1>6. (PIPESIZE * (a + c) + s) % PIPESIZE = s
    BY <1>2, <1>4, RemainderUnique, PipeAssumption, Zenon
  <1>7. Index(WRAP + k) = s
    BY <1>5, <1>6, Zenon DEF Index
  <1>8. QED
    BY <1>2, <1>3, <1>7, Zenon

\* Fewer than PIPESIZE apart, two counts have different indices.
LEMMA IndexDiffers ==
  ASSUME NEW k \in Nat, NEW d \in 1..PIPESIZE - 1
  PROVE  Index(k) # Index(k + d)
  <1> DEFINE a == (k + d) \div PIPESIZE
  <1> DEFINE c == k \div PIPESIZE
  <1>1. a \in Int /\ k + d = PIPESIZE * a + Index(k + d) /\ Index(k + d) \in Int
    BY Remainder, PipeAssumption DEF Index
  <1>2. c \in Int /\ k = PIPESIZE * c + Index(k) /\ Index(k) \in Int
    BY Remainder, PipeAssumption DEF Index
  <1> HIDE DEF a, c
  <1>3. SUFFICES ASSUME Index(k) = Index(k + d) PROVE FALSE
    BY Zenon
  <1>4. d = PIPESIZE * a - PIPESIZE * c
    BY <1>1, <1>2, <1>3, PipeAssumption
  <1>5. PIPESIZE * a - PIPESIZE * c = PIPESIZE * (a - c)
    BY <1>1, <1>2, PipeAssumption
  <1>6. a - c # 0
    BY <1>1, <1>2, <1>4, <1>5, PipeAssumption
  <1>7. QED
    BY <1>1, <1>2, <1>4, <1>5, <1>6, MultipleIsFar, PipeAssumption
-----------------------------------------------------------------------------
(* The ring, in terms of additions.                                        *)

\* The unsigned difference of two counters.
LEMMA Distance ==
  ASSUME NEW a \in 0..WRAP - 1, NEW b \in 0..WRAP - 1
  PROVE  (a - b) % WRAP = IF a >= b THEN a - b ELSE a - b + WRAP
  <1>1. a - b \in -WRAP..2 * WRAP - 1
    BY PipeAssumption
  <1>2. QED
    BY <1>1, Unsigned, PipeAssumption

\* Advance(), Full and Count without remainders.
LEMMA Counters ==
  ASSUME TypeOK
  PROVE  /\ \A k \in 0..WRAP - 1 : Advance(k) = IF k = WRAP - 1 THEN 0 ELSE k + 1
         /\ Count = IF nwrite >= nread THEN nwrite - nread ELSE nwrite - nread + WRAP
         /\ Full <=> Count = PIPESIZE
         /\ Empty <=> Count = 0
  <1>1. nread \in 0..WRAP - 1 /\ nwrite \in 0..WRAP - 1
    BY Zenon DEF TypeOK
  <1>2. \A k \in 0..WRAP - 1 : Advance(k) = IF k = WRAP - 1 THEN 0 ELSE k + 1
    <2> TAKE k \in 0..WRAP - 1
    <2>1. k + 1 \in -WRAP..2 * WRAP - 1
      BY PipeAssumption
    <2>2. QED
      BY <2>1, Unsigned, PipeAssumption DEF Advance
  <1>3. Count = IF nwrite >= nread THEN nwrite - nread ELSE nwrite - nread + WRAP
    BY <1>1, Distance, Zenon DEF Count
  <1>4. Full <=> Count = PIPESIZE
    <2>1. nread + PIPESIZE \in -WRAP..2 * WRAP - 1
      BY <1>1, PipeAssumption
    <2>2. (nread + PIPESIZE) % WRAP =
             IF nread + PIPESIZE < WRAP THEN nread + PIPESIZE ELSE nread + PIPESIZE - WRAP
      BY <1>1, <2>1, Unsigned, PipeAssumption
    <2>3. QED
      BY <1>1, <1>3, <2>2, PipeAssumption DEF Full
  <1>5. QED
    BY <1>1, <1>2, <1>3, <1>4, PipeAssumption DEF Empty

\* The counters are natural numbers.
LEMMA CounterTypes ==
  ASSUME TypeOK
  PROVE  nread \in 0..WRAP - 1 /\ nwrite \in 0..WRAP - 1 /\ nread \in Nat /\ nwrite \in Nat
  BY PipeAssumption DEF TypeOK

\* The counters stay in range, and a put or a get changes their distance by 1.
LEMMA CountersMove ==
  ASSUME TypeOK, Count <= PIPESIZE
  PROVE  /\ Advance(nread) \in 0..WRAP - 1 /\ Advance(nwrite) \in 0..WRAP - 1
         /\ Count \in 0..PIPESIZE
         /\ ~Full => (Advance(nwrite) - nread) % WRAP = Count + 1
         /\ ~Empty => (nwrite - Advance(nread)) % WRAP = Count - 1
  <1>1. nread \in 0..WRAP - 1 /\ nwrite \in 0..WRAP - 1
    BY Zenon DEF TypeOK
  <1>2. Advance(nread) \in 0..WRAP - 1 /\ Advance(nwrite) \in 0..WRAP - 1
    BY <1>1, Counters, PipeAssumption
  <1>3. /\ (Advance(nwrite) - nread) % WRAP = IF Advance(nwrite) >= nread THEN Advance(nwrite) - nread
                                              ELSE Advance(nwrite) - nread + WRAP
        /\ (nwrite - Advance(nread)) % WRAP = IF nwrite >= Advance(nread) THEN nwrite - Advance(nread)
                                              ELSE nwrite - Advance(nread) + WRAP
    BY <1>1, <1>2, Distance, Zenon
  <1>4. Count \in 0..PIPESIZE
    BY <1>1, Counters, PipeAssumption
  <1>5. QED
    BY <1>1, <1>2, <1>3, <1>4, Counters, PipeAssumption
-----------------------------------------------------------------------------
(* IInv is inductive: one lemma per action.                                *)

\* A fresh pipe has no sleepers, no holders of the lock and no bytes.
LEMMA InitInv == Init => IInv
  <1> SUFFICES ASSUME Init PROVE IInv
    BY Zenon
  <1>1. TypeOK
    <2>1. data \in [0..(PIPESIZE - 1) -> Bytes]
      BY Zenon DEF Init
    <2>2. 0 \in 0..WRAP - 1 /\ 0 \in 0..MAXN
      BY PipeAssumption
    <2>3. QED
      BY <2>1, <2>2, Zenon DEF Init, TypeOK, Procs, Inside, Asleep
  <1>2. LockInv
    BY PipeAssumption, Zenon DEF Init, LockInv, Procs, Holding, Writing, Reading
  <1>3. Empty
    BY Zenon DEF Init, Empty
  <1>4. Count <= PIPESIZE
    BY <1>1, <1>3, Counters, PipeAssumption
  <1>5. EndInv /\ LocalInv /\ SleepInv /\ EofInv
    BY <1>3, Zenon DEF Init, EndInv, LocalInv, SleepInv, EofInv, Procs, Holding, Reading
  <1>6. QED
    BY <1>1, <1>2, <1>4, <1>5, Zenon DEF IInv

\* write() or read() begins.
LEMMA CallInv == ASSUME IInv, NEW p \in Procs, Call(p) PROVE IInv'
  <1> USE DEF IInv
  <1>1. TypeOK'
    BY DEF Call, Goto, TypeOK, Procs, Inside, Asleep, pipe, open
  <1>2. LockInv'
    BY PipeAssumption, Zenon DEF Call, Goto, TypeOK, LockInv, Procs, Holding, Writing, Reading
  <1>3. EndInv'
    BY PipeAssumption, Zenon DEF Call, Goto, TypeOK, EndInv, Procs, open
  <1>4. Full' = Full /\ Empty' = Empty /\ Count' = Count /\ MustWait' = MustWait
    BY Zenon DEF Call, pipe, open, Full, Empty, Count, MustWait
  <1>5. LocalInv'
    BY <1>4, PipeAssumption DEF Call, Goto, TypeOK, LocalInv, Procs, Holding, Reading
  <1>6. SleepInv'
    BY <1>4, PipeAssumption, Zenon DEF Call, Goto, TypeOK, SleepInv, Procs, open
  <1>7. EofInv'
    BY <1>4, Zenon DEF Call, EofInv, open
  <1>8. QED
    BY <1>1, <1>2, <1>3, <1>4, <1>5, <1>6, <1>7, Zenon

\* The lock is taken when nobody has it.
LEMMA AcquireInv == ASSUME IInv, NEW p \in Procs, Acquire(p) PROVE IInv'
  <1> USE DEF IInv
  <1>1. TypeOK'
    BY Zenon DEF Acquire, Goto, TypeOK, Procs, Inside, Asleep, pipe, open
  <1>2. LockInv'
    BY PipeAssumption, Zenon DEF Acquire, Goto, TypeOK, LockInv, Procs, Holding, Writing, Reading
  <1>3. EndInv'
    BY Zenon DEF Acquire, Goto, TypeOK, EndInv, Procs, open
  <1>4. Full' = Full /\ Empty' = Empty /\ Count' = Count /\ MustWait' = MustWait
    BY Zenon DEF Acquire, pipe, open, Full, Empty, Count, MustWait
  <1>5. LocalInv'
    BY <1>4, Zenon DEF Acquire, Goto, TypeOK, LocalInv, Procs, Holding, Reading
  <1>6. SleepInv'
    BY <1>4, Zenon DEF Acquire, Goto, TypeOK, SleepInv, Procs, open
  <1>7. EofInv'
    BY <1>4, Zenon DEF Acquire, EofInv, open
  <1>8. QED
    BY <1>1, <1>2, <1>3, <1>4, <1>5, <1>6, <1>7, Zenon

\* pipewrite() gives up: readers may sleep on, if the writer was killed.
LEMMA GiveUpInv ==
  ASSUME IInv, NEW p \in Procs, pc[p] = "w_loop", ~readopen \/ killed[p],
         Return(p, -1, pc), UNCHANGED <<pipe, open, killed>>
  PROVE  IInv'
  <1> USE DEF IInv
  <1>1. TypeOK'
    BY PipeAssumption DEF Return, TypeOK, Procs, Inside, Asleep, pipe, open
  <1>2. LockInv'
    BY PipeAssumption, Zenon DEF Return, TypeOK, LockInv, Procs, Holding, Writing, Reading
  <1>3. EndInv'
    BY PipeAssumption, Zenon DEF Return, TypeOK, LockInv, EndInv, Procs, Writing, open
  <1>4. Full' = Full /\ Empty' = Empty /\ Count' = Count /\ MustWait' = MustWait
    BY Zenon DEF pipe, open, Full, Empty, Count, MustWait
  <1>5. LocalInv'
    BY <1>4, Zenon DEF Return, TypeOK, LocalInv, Procs, Holding, Reading
  <1>6. SleepInv'
    <2>1. p \in Writers /\ (readopen => killed[p])
      BY Zenon DEF LockInv, Writing
    <2>2. ASSUME NEW r \in Readers, pc'[r] = "r_asleep"
          PROVE  writeopen' /\ (Empty' \/ \E w \in Writers : killed'[w] \/ pc'[w] = "w_loop")
      <3>1. pc[r] = "r_asleep"
        BY <2>2, Zenon DEF Return, TypeOK, Procs
      <3>2. writeopen /\ readopen
        BY <3>1, Zenon DEF SleepInv, EndInv
      <3>3. QED
        BY <2>1, <3>2, Zenon DEF open
    <2>3. ASSUME NEW w \in Writers, pc'[w] = "w_asleep"
          PROVE  readopen' /\ (Full' \/ \E r \in Readers : pc'[r] = "r_copy")
      <3>1. pc[w] = "w_asleep" /\ \A r \in Readers : pc'[r] = pc[r]
        BY <2>1, <2>3, PipeAssumption, Zenon DEF Return, TypeOK, Procs
      <3>2. QED
        BY <1>4, <3>1, Zenon DEF SleepInv, open
    <2>4. QED
      BY <2>2, <2>3, Zenon DEF SleepInv
  <1>7. EofInv'
    BY <1>4 DEF Return, EofInv, open
  <1>8. QED
    BY <1>1, <1>2, <1>3, <1>4, <1>5, <1>6, <1>7, Zenon

\* pipewrite() wakes the readers and sleeps on a full pipe.
LEMMA WriterSleepsInv ==
  ASSUME IInv, NEW p \in Procs, pc[p] = "w_loop", readopen, Full,
         pc' = [WakeReaders(pc) EXCEPT ![p] = "w_asleep"], lock' = Nobody,
         UNCHANGED <<pipe, open, killed, i, n, eof>>
  PROVE  IInv'
  <1> USE DEF IInv
  <1>0. /\ pc' \in [Procs -> {"idle", "closed"} \cup Inside]
        /\ pc'[p] = "w_asleep"
        /\ \A r \in Procs \ {p} : pc'[r] = IF pc[r] = "r_asleep" THEN "r_lock" ELSE pc[r]
    BY Zenon DEF TypeOK, WakeReaders, Inside, Asleep
  <1>1. TypeOK'
    BY <1>0, Zenon DEF TypeOK, pipe, open
  <1>2. LockInv'
    BY <1>0, PipeAssumption, Zenon DEF TypeOK, LockInv, Procs, Holding, Writing, Reading
  <1>3. EndInv'
    BY <1>0, PipeAssumption DEF LockInv, EndInv, Procs, Writing, open
  <1>4. Full' = Full /\ Empty' = Empty /\ Count' = Count /\ MustWait' = MustWait
    BY Zenon DEF pipe, open, Full, Empty, Count, MustWait
  <1>5. LocalInv'
    BY <1>0, <1>4, Zenon DEF LocalInv, Holding, Reading
  <1>6. SleepInv'
    BY <1>0, <1>4, PipeAssumption, Zenon DEF SleepInv, LockInv, EndInv, Procs, Writing, open
  <1>7. EofInv'
    BY <1>4, Zenon DEF EofInv, open
  <1>8. QED
    BY <1>1, <1>2, <1>3, <1>4, <1>5, <1>6, <1>7, Zenon

\* pipewrite() stores a byte: no writer sleeps, the pipe was not full.
LEMMA PutInv ==
  ASSUME IInv, NEW p \in Procs, pc[p] = "w_loop", i[p] < n[p], readopen, ~Full,
         NEW b \in Bytes, data' = [data EXCEPT ![Index(nwrite)] = b],
         nwrite' = Advance(nwrite), i' = [i EXCEPT ![p] = @ + 1],
         UNCHANGED <<nread, lock, pc, n, eof, open, killed>>
  PROVE  IInv'
  <1> USE DEF IInv
  <1>1. TypeOK'
    <2>1. nwrite' \in 0..WRAP - 1
      BY CountersMove, Zenon
    <2>2. i' \in [Procs -> 0..MAXN]
      BY PipeAssumption DEF TypeOK
    <2>3. QED
      BY <2>1, <2>2, Zenon DEF TypeOK, open
  <1>2. LockInv'
    BY Zenon DEF LockInv
  <1>3. EndInv'
    BY Zenon DEF EndInv, open
  <1>4. Count' = Count + 1 /\ Count \in 0..PIPESIZE /\ Count # PIPESIZE
    BY CountersMove, Counters, Zenon DEF Count
  <1>5. p \in Writers /\ p \notin Readers /\ lock = p /\ writeopen
    BY PipeAssumption, Zenon DEF LockInv, EndInv, Writing, Holding
  <1>6. \A r \in Procs : pc[r] # "r_copy" /\ pc[r] # "r_wait"
    BY <1>5, PipeAssumption, Zenon DEF LockInv, Procs, Holding, Reading
  <1>7. LocalInv'
    BY <1>5, <1>6, Zenon DEF LocalInv, TypeOK, Holding, Reading
  <1>8. SleepInv'
    BY <1>5, <1>6, Zenon DEF SleepInv, Procs, open
  <1>9. EofInv'
    BY <1>5, Zenon DEF EofInv, open
  <1>10. QED
    BY <1>1, <1>2, <1>3, <1>4, <1>7, <1>8, <1>9, PipeAssumption

\* pipewrite() ends: it wakes the readers.
LEMMA WriterReturnsInv ==
  ASSUME IInv, NEW p \in Procs, pc[p] = "w_loop", NEW r \in Int,
         Return(p, r, WakeReaders(pc)), UNCHANGED <<pipe, open, killed>>
  PROVE  IInv'
  <1> USE DEF IInv
  <1>0. /\ pc' \in [Procs -> {"idle", "closed"} \cup Inside]
        /\ pc'[p] = "idle"
        /\ \A u \in Procs \ {p} : pc'[u] = IF pc[u] = "r_asleep" THEN "r_lock" ELSE pc[u]
    BY Zenon DEF Return, TypeOK, WakeReaders, Inside, Asleep
  <1>1. p \in Writers /\ p \notin Readers /\ lock' = Nobody /\ eof' = eof
    BY PipeAssumption, Zenon DEF Return, LockInv, Writing
  <1>2. TypeOK'
    BY <1>0, <1>1, PipeAssumption DEF Return, TypeOK, pipe, open
  <1>3. LockInv'
    BY <1>0, <1>1, PipeAssumption, Zenon DEF TypeOK, LockInv, Procs, Holding, Writing, Reading
  <1>4. EndInv'
    BY <1>0, <1>1, PipeAssumption DEF LockInv, EndInv, Procs, open
  <1>5. Full' = Full /\ Empty' = Empty /\ Count' = Count /\ MustWait' = MustWait
    BY Zenon DEF pipe, open, Full, Empty, Count, MustWait
  <1>6. LocalInv'
    BY <1>0, <1>5, Zenon DEF Return, TypeOK, LocalInv, Holding, Reading
  <1>7. SleepInv'
    BY <1>0, <1>1, <1>5, Zenon DEF SleepInv, Procs, open
  <1>8. EofInv'
    BY <1>1, <1>5, Zenon DEF EofInv, open
  <1>9. QED
    BY <1>2, <1>3, <1>4, <1>5, <1>6, <1>7, <1>8, Zenon

\* One iteration of pipewrite()'s loop, whichever it is.
LEMMA WriteInv == ASSUME IInv, NEW p \in Procs, pipewrite(p) PROVE IInv'
  <1>1. i[p] \in Int /\ n[p] \in Int
    BY PipeAssumption DEF IInv, TypeOK
  <1>2. CASE i[p] < n[p] /\ (~readopen \/ killed[p]) /\ Return(p, -1, pc) /\ UNCHANGED pipe
    BY <1>2, GiveUpInv, Zenon DEF pipewrite
  <1>3. CASE /\ i[p] < n[p] /\ readopen /\ ~killed[p] /\ Full
             /\ pc' = [WakeReaders(pc) EXCEPT ![p] = "w_asleep"]
             /\ lock' = Nobody
             /\ UNCHANGED <<pipe, i, n, eof>>
    BY <1>3, WriterSleepsInv, Zenon DEF pipewrite
  <1>4. CASE /\ i[p] < n[p] /\ readopen /\ ~killed[p] /\ ~Full
             /\ \E b \in Bytes : data' = [data EXCEPT ![Index(nwrite)] = b]
             /\ nwrite' = Advance(nwrite)
             /\ i' = [i EXCEPT ![p] = @ + 1]
             /\ UNCHANGED <<nread, lock, pc, n, eof>>
    BY <1>4, PutInv, Zenon DEF pipewrite
  <1>5. CASE Return(p, i[p], WakeReaders(pc)) /\ UNCHANGED pipe
    BY <1>1, <1>5, WriterReturnsInv, Zenon DEF pipewrite
  <1>6. QED
    BY <1>2, <1>3, <1>4, <1>5, Zenon DEF pipewrite

\* piperead() waits: it goes on to copy, returns because killed, or sleeps.
LEMMA WaitInv == ASSUME IInv, NEW p \in Procs, piperead_wait(p) PROVE IInv'
  <1> USE DEF IInv
  <1>0. /\ pc[p] = "r_wait" /\ UNCHANGED <<pipe, open, killed>>
        /\ \A u \in Procs \ {p} : pc'[u] = pc[u] /\ i'[u] = i[u] /\ n'[u] = n[u]
        /\ \/ pc'[p] = "r_copy" /\ ~MustWait /\ lock' = lock
           \/ pc'[p] = "idle" /\ lock' = Nobody
           \/ pc'[p] = "r_asleep" /\ MustWait /\ lock' = Nobody
        /\ i'[p] = 0
        /\ pc'[p] # "idle" => n'[p] = n[p]
        /\ eof' = eof
    BY DEF piperead_wait, Goto, Return, TypeOK, LocalInv
  <1>1. p \in Readers /\ p \notin Writers
    BY <1>0, PipeAssumption, Zenon DEF LockInv, Reading
  <1>2. TypeOK'
    <2>1. pc' \in [Procs -> {"idle", "closed"} \cup Inside]
      BY Zenon DEF piperead_wait, Goto, Return, TypeOK, Inside, Asleep
    <2>2. i' \in [Procs -> 0..MAXN] /\ n' \in [Procs -> 0..MAXN]
      <3>1. 0 \in 0..MAXN /\ i \in [Procs -> 0..MAXN] /\ n \in [Procs -> 0..MAXN]
        BY PipeAssumption DEF TypeOK
      <3>2. \/ i' = i /\ n' = n
            \/ i' = [i EXCEPT ![p] = 0] /\ n' = [n EXCEPT ![p] = 0]
        BY Zenon DEF piperead_wait, Return
      <3>3. QED
        BY <3>1, <3>2, Zenon
    <2>3. lock' \in Procs \cup {Nobody}
      BY <1>0, Zenon DEF TypeOK
    <2>4. QED
      BY <1>0, <2>1, <2>2, <2>3, Zenon DEF TypeOK, pipe, open
  <1>3. LockInv'
    <2>1. lock = p /\ \A u \in Procs \ {p} : pc[u] \notin Holding
      BY <1>0, Zenon DEF LockInv, Holding
    <2>2. QED
      BY <1>0, <1>1, <2>1, PipeAssumption DEF LockInv, Procs, Holding, Writing, Reading
  <1>4. EndInv'
    BY <1>0, <1>1, Zenon DEF EndInv, Procs, open
  <1>5. Full' = Full /\ Empty' = Empty /\ Count' = Count /\ MustWait' = MustWait
    BY <1>0, Zenon DEF pipe, open, Full, Empty, Count, MustWait
  <1>6. LocalInv'
    BY <1>0, <1>5, Zenon DEF LocalInv, Holding, Reading
  <1>7. SleepInv'
    BY <1>0, <1>1, <1>5, Zenon DEF SleepInv, MustWait, Procs, open
  <1>8. EofInv'
    BY <1>0, <1>5, Zenon DEF EofInv, open
  <1>9. QED
    BY <1>2, <1>3, <1>4, <1>5, <1>6, <1>7, <1>8, Zenon

\* piperead() takes a byte and goes on: sleeping writers will be woken.
LEMMA GetInv ==
  ASSUME IInv, NEW p \in Procs, pc[p] = "r_copy", i[p] < n[p], ~Empty,
         nread' = Advance(nread), i' = [i EXCEPT ![p] = @ + 1],
         UNCHANGED <<data, nwrite, open, killed, lock, n, eof, pc>>
  PROVE  IInv'
  <1> USE DEF IInv
  <1>1. TypeOK'
    <2>1. nread' \in 0..WRAP - 1
      BY CountersMove, Zenon
    <2>2. i' \in [Procs -> 0..MAXN]
      BY PipeAssumption DEF TypeOK
    <2>3. QED
      BY <2>1, <2>2, Zenon DEF TypeOK, open
  <1>2. LockInv' /\ EndInv'
    BY Zenon DEF LockInv, EndInv, open
  <1>3. Count' = Count - 1 /\ Count \in 0..PIPESIZE
    BY CountersMove, Zenon DEF Count
  <1>4. p \in Readers /\ lock = p /\ i[p] \in Nat
    BY DEF LockInv, TypeOK, Reading, Holding
  <1>5. \A u \in Procs \ {p} : pc[u] \notin Holding
    BY <1>4, Zenon DEF LockInv
  <1>6. LocalInv'
    BY <1>4, <1>5 DEF LocalInv, TypeOK, Holding, Reading
  <1>7. SleepInv'
    BY <1>4, <1>5, Zenon DEF SleepInv, Procs, Holding, open
  <1>8. EofInv'
    BY Zenon DEF EofInv
  <1>9. QED
    BY <1>1, <1>2, <1>3, <1>6, <1>7, <1>8, PipeAssumption

\* piperead() ends: it wakes the writers.  If it returns 0 there is nothing to
\* read for good, or copyout() failed and the byte is lost.
LEMMA ReaderReturnsInv ==
  ASSUME IInv, NEW p \in Procs, pc[p] = "r_copy", Return(p, i[p], WakeWriters(pc)),
         UNCHANGED <<data, nwrite, open, killed>>,
         \/ nread' = Advance(nread) /\ ~Empty /\ p \in Faults
         \/ nread' = nread /\ (i[p] = n[p] \/ Empty)
  PROVE  IInv'
  <1> USE DEF IInv
  <1>0. /\ pc' \in [Procs -> {"idle", "closed"} \cup Inside]
        /\ pc'[p] = "idle"
        /\ \A u \in Procs \ {p} : pc'[u] = IF pc[u] = "w_asleep" THEN "w_lock" ELSE pc[u]
    BY Zenon DEF Return, TypeOK, WakeWriters, Inside, Asleep
  <1>1. p \in Readers /\ p \notin Writers /\ lock = p /\ lock' = Nobody /\ p # Nobody
    BY PipeAssumption, Zenon DEF Return, LockInv, Reading, Holding, Procs
  <1>2. \A u \in Procs \ {p} : pc[u] \notin Holding
    BY <1>1, Zenon DEF LockInv
  <1>3. nread' \in 0..WRAP - 1 /\ Count' <= PIPESIZE
    <2>1. CASE nread' = nread
      BY <2>1, Zenon DEF TypeOK, Count
    <2>2. CASE nread' = Advance(nread) /\ ~Empty
      BY <2>2, CountersMove, PipeAssumption DEF Count
    <2>3. QED
      BY <2>1, <2>2, Zenon
  <1>4. TypeOK'
    BY <1>0, <1>1, <1>3, PipeAssumption DEF Return, TypeOK, open
  <1>5. LockInv'
    BY <1>0, <1>1, <1>2, PipeAssumption, Zenon DEF LockInv, Procs, Holding, Writing, Reading
  <1>6. EndInv'
    BY SMTT(30), Z3T(30), <1>0, <1>1, PipeAssumption DEF EndInv, LockInv, Procs, Writing, open
  <1>7. LocalInv'
    BY <1>0, <1>2, Zenon DEF Return, TypeOK, LocalInv, Holding, Reading
  <1>8. SleepInv'
    <2>1. ASSUME NEW r \in Readers, pc'[r] = "r_asleep"
          PROVE  writeopen' /\ (Empty' \/ \E w \in Writers : killed'[w] \/ pc'[w] = "w_loop")
      <3>1. pc[r] = "r_asleep"
        BY <1>0, <2>1, Zenon DEF Procs
      <3>2. writeopen /\ (Empty \/ \E w \in Writers : killed[w])
        BY <1>1, <1>2, <3>1, Zenon DEF SleepInv, Procs, Holding
      <3>3. Empty => Empty'
        BY Zenon DEF Empty
      <3>4. QED
        BY <3>2, <3>3, Zenon DEF open
    <2>2. \A w \in Writers : pc'[w] # "w_asleep"
      BY <1>0, <1>1, Zenon DEF Procs
    <2>3. QED
      BY <2>1, <2>2, Zenon DEF SleepInv
  <1>9. EofInv'
    <2>1. CASE nread' = Advance(nread) /\ ~Empty /\ p \in Faults
      BY <2>1, Zenon DEF EofInv, Return
    <2>2. CASE nread' = nread /\ (i[p] = n[p] \/ Empty) /\ i[p] = 0
      <3>1. Empty /\ ~writeopen
        BY SMTT(30), Z3T(30), <2>2, PipeAssumption DEF LocalInv, MustWait, Reading
      <3>2. QED
        BY <2>2, <3>1, Zenon DEF EofInv, Empty, open
    <2>3. CASE nread' = nread /\ (i[p] = n[p] \/ Empty) /\ i[p] # 0
      BY <2>3, Zenon DEF EofInv, Return, Empty, open
    <2>4. QED
      BY <2>1, <2>2, <2>3, Zenon
  <1>10. QED
    BY <1>3, <1>4, <1>5, <1>6, <1>7, <1>8, <1>9, Zenon

\* One iteration of the copy loop of piperead(), whichever it is.
LEMMA CopyInv == ASSUME IInv, NEW p \in Procs, piperead_copy(p) PROVE IInv'
  <1>1. CASE /\ i[p] < n[p] /\ ~Empty /\ nread' = Advance(nread)
             /\ i' = [i EXCEPT ![p] = @ + 1] /\ UNCHANGED <<lock, n, eof, pc>>
    BY <1>1, GetInv, Zenon DEF piperead_copy
  <1>2. CASE /\ ~Empty /\ nread' = Advance(nread)
             /\ p \in Faults /\ Return(p, i[p], WakeWriters(pc))
    BY <1>2, ReaderReturnsInv, Zenon DEF piperead_copy
  <1>3. CASE (i[p] = n[p] \/ Empty) /\ Return(p, i[p], WakeWriters(pc)) /\ UNCHANGED nread
    BY <1>3, ReaderReturnsInv, Zenon DEF piperead_copy
  <1>4. QED
    BY <1>1, <1>2, <1>3, Zenon DEF piperead_copy

\* close(): the last holder of an end goes on to pipeclose().
LEMMA FilecloseInv == ASSUME IInv, NEW p \in Procs, fileclose(p) PROVE IInv'
  <1> USE DEF IInv
  <1>0. /\ pc[p] = "idle" /\ UNCHANGED <<pipe, open, lock, i, n, killed, eof>>
        /\ \A u \in Procs \ {p} : pc'[u] = pc[u]
        /\ \/ pc'[p] = "closed"
              /\ ~LastHolder(p, IF p \in Writers THEN Writers ELSE Readers)
           \/ pc'[p] = "close"
              /\ LastHolder(p, IF p \in Writers THEN Writers ELSE Readers)
    BY Zenon DEF fileclose, Goto, TypeOK
  <1>1. TypeOK'
    BY Zenon DEF fileclose, Goto, TypeOK, Inside, Asleep, pipe, open
  <1>2. LockInv'
    BY <1>0, Zenon DEF LockInv, Holding, Writing, Reading
  <1>3. EndInv'
    <2>1. CASE pc'[p] = "closed"
      BY <1>0, <2>1, Zenon DEF EndInv, Procs, open
    <2>2. CASE pc'[p] = "close" /\ p \in Writers
      <3>1. \A w \in Writers \ {p} : pc[w] = "closed"
        BY <1>0, <2>2, Zenon DEF EndInv, LastHolder, Procs
      <3>2. QED
        BY <1>0, <2>2, <3>1, PipeAssumption DEF EndInv, Procs, open
    <2>3. CASE pc'[p] = "close" /\ p \in Readers
      <3>1. p \notin Writers /\ \A r \in Readers \ {p} : pc[r] = "closed"
        BY <1>0, <2>3, PipeAssumption, Zenon DEF EndInv, LastHolder, Procs
      <3>2. QED
        BY <1>0, <2>3, <3>1, PipeAssumption, Zenon DEF EndInv, Procs, open
    <2>4. QED
      BY <1>0, <2>1, <2>2, <2>3, Zenon DEF Procs
  <1>4. Full' = Full /\ Empty' = Empty /\ Count' = Count /\ MustWait' = MustWait
    BY <1>0, Zenon DEF pipe, open, Full, Empty, Count, MustWait
  <1>5. LocalInv'
    BY <1>0, <1>4, Zenon DEF LocalInv, Holding, Reading
  <1>6. SleepInv'
    BY <1>0, <1>4, PipeAssumption, Zenon DEF SleepInv, Procs, open
  <1>7. EofInv'
    BY <1>0, <1>4, Zenon DEF EofInv, open
  <1>8. QED
    BY <1>1, <1>2, <1>3, <1>4, <1>5, <1>6, <1>7, Zenon

\* pipeclose(): whoever waits for the other end is woken.
LEMMA PipecloseInv == ASSUME IInv, NEW p \in Procs, pipeclose(p) PROVE IInv'
  <1> USE DEF IInv
  <1>0. /\ pc[p] = "close" /\ UNCHANGED <<pipe, lock, i, n, killed, eof>> /\ lock = Nobody
        /\ freed' = (~readopen' /\ ~writeopen')
        /\ pc' \in [Procs -> {"idle", "closed"} \cup Inside]
        /\ pc'[p] = "closed"
    BY Zenon DEF pipeclose, TypeOK, WakeReaders, WakeWriters, Inside, Asleep
  <1>1. p \in Writers =>
           /\ writeopen' = FALSE /\ readopen' = readopen
           /\ \A u \in Procs \ {p} : pc'[u] = IF pc[u] = "r_asleep" THEN "r_lock" ELSE pc[u]
    BY Zenon DEF pipeclose, TypeOK, WakeReaders
  <1>2. p \notin Writers =>
           /\ readopen' = FALSE /\ writeopen' = writeopen
           /\ \A u \in Procs \ {p} : pc'[u] = IF pc[u] = "w_asleep" THEN "w_lock" ELSE pc[u]
    BY Zenon DEF pipeclose, TypeOK, WakeWriters
  <1>3. TypeOK'
    BY <1>0, <1>1, <1>2, Zenon DEF TypeOK, pipe
  <1>4. \A u \in Procs : pc[u] \notin Holding
    BY <1>0, PipeAssumption, Zenon DEF LockInv, Procs
  <1>5. LockInv'
    BY <1>0, <1>1, <1>2, <1>4, PipeAssumption, Zenon DEF LockInv, Procs, Holding, Writing, Reading
  <1>6. EndInv'
    BY <1>0, <1>1, <1>2, PipeAssumption DEF EndInv, Procs
  <1>7. Full' = Full /\ Empty' = Empty /\ Count' = Count
    BY <1>0, Zenon DEF pipe, Full, Empty, Count
  <1>8. LocalInv'
    BY <1>0, <1>1, <1>2, <1>4, Zenon DEF LocalInv, Holding, Reading
  <1>9. SleepInv'
    BY SMTT(30), Z3T(30), <1>0, <1>1, <1>2, <1>4, <1>7, PipeAssumption DEF SleepInv, Procs, Holding
  <1>10. EofInv'
    BY <1>0, <1>1, <1>2, <1>7, Zenon DEF EofInv
  <1>11. QED
    BY <1>3, <1>5, <1>6, <1>7, <1>8, <1>9, <1>10, Zenon

\* kill(): a sleeper is woken, and everybody else stays where they are.
LEMMA KillInv == ASSUME IInv, NEW p \in Procs, kill(p) PROVE IInv'
  <1> USE DEF IInv
  <1>0. /\ UNCHANGED <<pipe, open, lock, i, n, eof>>
        /\ \A u \in Procs \ {p} : pc'[u] = pc[u]
        /\ pc'[p] = IF pc[p] = "w_asleep" THEN "w_lock"
                    ELSE IF pc[p] = "r_asleep" THEN "r_lock" ELSE pc[p]
        /\ killed' \in [Procs -> BOOLEAN]
        /\ \A u \in Procs : killed[u] => killed'[u]
    BY Zenon DEF kill, TypeOK
  <1>1. TypeOK'
    BY <1>0, Zenon DEF kill, TypeOK, Inside, Asleep, pipe, open
  <1>2. LockInv'
    BY <1>0, Zenon DEF LockInv, Holding, Writing, Reading
  <1>3. EndInv'
    BY <1>0, Zenon DEF EndInv, Procs, open
  <1>4. Full' = Full /\ Empty' = Empty /\ Count' = Count /\ MustWait' = MustWait
    BY <1>0, Zenon DEF pipe, open, Full, Empty, Count, MustWait
  <1>5. LocalInv'
    BY <1>0, <1>4, Zenon DEF LocalInv, Holding, Reading
  <1>6. SleepInv'
    BY <1>0, <1>4, Zenon DEF SleepInv, Procs, open
  <1>7. EofInv'
    BY <1>0, <1>4, Zenon DEF EofInv, open
  <1>8. QED
    BY <1>1, <1>2, <1>3, <1>4, <1>5, <1>6, <1>7, Zenon

\* A freed pipe has no holders: the next pipealloc() starts afresh.
LEMMA FreedIsClosed ==
  ASSUME IInv, freed
  PROVE  ~readopen /\ ~writeopen /\ lock = Nobody /\ \A p \in Procs : pc[p] = "closed" /\ i[p] = 0
  <1>1. ~readopen /\ ~writeopen /\ \A p \in Procs : pc[p] = "closed"
    BY Zenon DEF IInv, EndInv, Procs
  <1>2. QED
    BY <1>1, Zenon DEF IInv, TypeOK, LockInv, LocalInv, Holding

LEMMA PipeallocInv == ASSUME IInv, pipealloc PROVE IInv'
  <1> USE DEF IInv
  <1>1. TypeOK'
    <2>1. 0 \in 0..WRAP - 1
      BY PipeAssumption
    <2>2. QED
      BY <2>1, Zenon DEF pipealloc, TypeOK, Inside, Asleep
  <1>2. Empty' /\ Count' <= PIPESIZE
    <2>1. nread' = 0 /\ nwrite' = 0 /\ 0 \in 0..WRAP - 1
      BY PipeAssumption DEF pipealloc
    <2>2. (0 - 0) % WRAP = 0
      BY <2>1, Distance
    <2>3. QED
      BY <2>1, <2>2, PipeAssumption DEF Empty, Count
  <1>3. lock' = Nobody /\ \A p \in Procs : pc'[p] = "idle" /\ i'[p] = 0
    BY FreedIsClosed, Zenon DEF pipealloc
  <1>4. LockInv' /\ LocalInv'
    BY <1>3, PipeAssumption, Zenon DEF LockInv, LocalInv, Procs, Holding, Writing, Reading
  <1>5. EndInv' /\ SleepInv' /\ EofInv'
    BY <1>3, Zenon DEF pipealloc, EndInv, SleepInv, EofInv, Procs
  <1>6. QED
    BY <1>1, <1>2, <1>4, <1>5, Zenon
-----------------------------------------------------------------------------
(* The invariants.                                                         *)

\* Every step of every process, and the reuse of the page, keeps IInv.
LEMMA NextInv == IInv /\ [Next]_vars => IInv'
  <1> SUFFICES ASSUME IInv, [Next]_vars PROVE IInv'
    BY Zenon
  <1>1. CASE UNCHANGED vars
    BY <1>1, Zenon DEF IInv, TypeOK, LockInv, EndInv, LocalInv, SleepInv, EofInv, Count, Full, Empty, MustWait, vars
  <1>2. CASE \E p \in Procs : Step(p)
    BY <1>2, AcquireInv, WriteInv, WaitInv, CopyInv, PipecloseInv, Zenon DEF Step
  <1>3. CASE \E p \in Procs : Call(p) \/ fileclose(p) \/ kill(p)
    BY <1>3, CallInv, FilecloseInv, KillInv, Zenon
  <1>4. CASE pipealloc
    BY <1>4, PipeallocInv, Zenon
  <1>5. QED
    BY <1>1, <1>2, <1>3, <1>4, Zenon DEF Next

\* IInv is an invariant of pipe.c.
THEOREM Invariant == Spec => []IInv
  BY InitInv, NextInv, PTL DEF Spec

\* No wakeup of pipewrite(), piperead() or pipeclose() is missed, however many
\* readers and writers there are: whoever sleeps when nobody is inside has a
\* cause, and the only reader that sleeps beside data is one whose writer was
\* killed.
THEOREM NobodyMissesAWakeup == Spec => []SleepersHaveCause
  <1>1. IInv => SleepersHaveCause
    <2> SUFFICES ASSUME IInv, lock = Nobody PROVE SleepersHaveCause
      BY Zenon DEF SleepersHaveCause
    <2>1. \A p \in Procs : pc[p] \notin Holding
      BY PipeAssumption, Zenon DEF IInv, LockInv, Procs
    <2>2. QED
      BY <2>1, Zenon DEF IInv, SleepInv, SleepersHaveCause, Procs, Holding
  <1>2. QED
    BY <1>1, Invariant, PTL

\* pipeclose() frees the pipe only when nobody is left in it, and a read that
\* returned 0 has seen the end of the file.
THEOREM ClosingIsFinal == Spec => []CloseIsFinal
  <1>1. IInv => CloseIsFinal
    BY FreedIsClosed, Zenon DEF IInv, EofInv, CloseIsFinal
  <1>2. QED
    BY <1>1, Invariant, PTL
-----------------------------------------------------------------------------
(* Refinement: the ring is a queue.                                        *)

\* What a ring d holds, c bytes from count r on.
Window(d, r, c) == [k \in 1..c |-> d[Index(r + k - 1)]]

\* A function on 1..c is a sequence.
LEMMA FunctionIsSeq ==
  ASSUME NEW S, NEW c \in Nat, NEW f \in [1..c -> S]
  PROVE  f \in Seq(S) /\ Len(f) = c
  OBVIOUS

\* The bytes in the ring are a sequence.
LEMMA WindowIsSeq ==
  ASSUME NEW d \in [0..(PIPESIZE - 1) -> Bytes], NEW r \in Nat, NEW c \in Nat
  PROVE  /\ Window(d, r, c) \in Seq(Bytes) /\ Len(Window(d, r, c)) = c
         /\ \A k \in 1..c : Window(d, r, c)[k] = d[Index(r + k - 1)]
  <1>1. ASSUME NEW k \in 1..c PROVE d[Index(r + k - 1)] \in Bytes
    <2>1. r + k - 1 \in Nat
      OBVIOUS
    <2>2. QED
      BY <2>1, IndexWraps, Zenon
  <1>2. /\ Window(d, r, c) \in [1..c -> Bytes]
        /\ \A k \in 1..c : Window(d, r, c)[k] = d[Index(r + k - 1)]
    BY <1>1, Zenon DEF Window
  <1>3. QED
    BY <1>2, FunctionIsSeq, Zenon

\* The slot that pipewrite() fills is the one after the last byte.
LEMMA NextSlot ==
  ASSUME TypeOK, Count <= PIPESIZE
  PROVE  Index(nwrite) = Index(nread + Count) /\ Index(nwrite) \in 0..PIPESIZE - 1
  <1>1. nread \in 0..WRAP - 1 /\ nwrite \in 0..WRAP - 1 /\ nwrite \in Nat
    BY CounterTypes, Zenon
  <1>2. nread + Count = nwrite \/ nread + Count = WRAP + nwrite
    BY <1>1, Counters, PipeAssumption
  <1>3. QED
    BY <1>1, <1>2, IndexWraps, Zenon

\* pipewrite() appends its byte and overwrites none.
LEMMA PutAppends ==
  ASSUME IInv, ~Full, NEW b \in Bytes, data' = [data EXCEPT ![Index(nwrite)] = b],
         nwrite' = Advance(nwrite), nread' = nread, TypeOK', Count' <= PIPESIZE
  PROVE  Count < PIPESIZE /\ Contents' = Append(Contents, b)
  <1>0. TypeOK /\ Count <= PIPESIZE /\ nread \in Nat
    <2>1. TypeOK /\ Count <= PIPESIZE
      BY Zenon DEF IInv
    <2>2. QED
      BY <2>1, CounterTypes, Zenon
  <1>1. Count \in 0..PIPESIZE /\ Count # PIPESIZE /\ Count' = Count + 1 /\ Count \in Nat
    BY <1>0, CountersMove, Counters, PipeAssumption DEF Count
  <1>2. /\ Contents \in Seq(Bytes) /\ Len(Contents) = Count
        /\ \A k \in 1..Count : Contents[k] = data[Index(nread + k - 1)]
    <2>1. Contents = Window(data, nread, Count)
      BY Zenon DEF Contents, Window
    <2>2. data \in [0..(PIPESIZE - 1) -> Bytes]
      BY <1>0, Zenon DEF TypeOK
    <2>3. QED
      BY <1>0, <1>1, <2>1, <2>2, WindowIsSeq, Zenon
  <1>3. /\ Contents' \in Seq(Bytes) /\ Len(Contents') = Count + 1
        /\ \A k \in 1..Count + 1 : Contents'[k] = data'[Index(nread + k - 1)]
    <2>1. PICK d : d = data'
      BY Zenon
    <2>2. Contents' = Window(d, nread, Count + 1)
      BY <1>1, <2>1 DEF Contents, Index, Window
    <2>3. d \in [0..(PIPESIZE - 1) -> Bytes] /\ Count + 1 \in Nat
      BY <1>1, <2>1 DEF TypeOK
    <2>4. /\ Window(d, nread, Count + 1) \in Seq(Bytes)
          /\ Len(Window(d, nread, Count + 1)) = Count + 1
          /\ \A k \in 1..Count + 1 : Window(d, nread, Count + 1)[k] = d[Index(nread + k - 1)]
      BY <1>0, <2>3, WindowIsSeq, Zenon
    <2>5. QED
      BY <2>1, <2>2, <2>4, Zenon
  <1>4. Contents'[Count + 1] = b
    BY SMTT(30), Z3T(30), <1>0, <1>1, <1>3, NextSlot DEF TypeOK
  <1>5. ASSUME NEW k \in 1..Count PROVE Contents'[k] = Contents[k]
    <2>1. nread + k - 1 \in Nat /\ Count - k + 1 \in 1..PIPESIZE - 1
      BY <1>0, <1>1, <1>5, PipeAssumption
    <2>2. (nread + k - 1) + (Count - k + 1) = nread + Count
      BY <1>0, <1>1, <1>5
    <2>3. Index(nread + k - 1) # Index(nwrite)
      BY <1>0, <1>1, <2>1, <2>2, IndexDiffers, NextSlot, Zenon
    <2>4. Index(nread + k - 1) \in 0..PIPESIZE - 1
      BY <2>1, IndexWraps, Zenon
    <2>5. QED
      BY SMTT(30), Z3T(30), <1>0, <1>1, <1>2, <1>3, <1>5, <2>3, <2>4 DEF TypeOK
  <1>6. Append(Contents, b) \in Seq(Bytes) /\ Len(Append(Contents, b)) = Count + 1
    BY <1>1, <1>2
  <1>7. \A k \in 1..Count + 1 : Contents'[k] = Append(Contents, b)[k]
    BY <1>1, <1>2, <1>4, <1>5
  <1>8. Contents' = Append(Contents, b)
    BY <1>3, <1>6, <1>7, SeqEqual, Zenon
  <1>9. QED
    BY <1>1, <1>8, PipeAssumption

\* piperead() takes the oldest byte, and only that.
LEMMA GetRemoves ==
  ASSUME IInv, ~Empty, nread' = Advance(nread), UNCHANGED <<data, nwrite>>,
         TypeOK', Count' <= PIPESIZE
  PROVE  Contents # <<>> /\ Contents' = Tail(Contents)
  <1>0. TypeOK /\ Count <= PIPESIZE /\ nread \in 0..WRAP - 1 /\ nread \in Nat
    <2>1. TypeOK /\ Count <= PIPESIZE
      BY Zenon DEF IInv
    <2>2. QED
      BY <2>1, CounterTypes, Zenon
  <1>1. Count \in Nat /\ Count # 0 /\ Count' = Count - 1 /\ Count - 1 \in Nat
    BY <1>0, CountersMove, Counters, PipeAssumption DEF Count
  <1>2. /\ Contents \in Seq(Bytes) /\ Len(Contents) = Count
        /\ \A k \in 1..Count : Contents[k] = data[Index(nread + k - 1)]
    <2>1. Contents = Window(data, nread, Count)
      BY Zenon DEF Contents, Window
    <2>2. data \in [0..(PIPESIZE - 1) -> Bytes]
      BY <1>0, Zenon DEF TypeOK
    <2>3. QED
      BY <1>0, <1>1, <2>1, <2>2, WindowIsSeq, Zenon
  <1>3. /\ Contents' \in Seq(Bytes) /\ Len(Contents') = Count - 1
        /\ \A k \in 1..Count - 1 : Contents'[k] = data[Index(Advance(nread) + k - 1)]
    <2>1. Contents' = Window(data, Advance(nread), Count - 1)
      BY <1>1, Zenon DEF Contents, Index, Window
    <2>2. Advance(nread) \in Nat
      BY <1>0, CountersMove, PipeAssumption
    <2>3. data \in [0..(PIPESIZE - 1) -> Bytes]
      BY <1>0, Zenon DEF TypeOK
    <2>4. QED
      BY <1>1, <2>1, <2>2, <2>3, WindowIsSeq, Zenon
  <1>4. ASSUME NEW k \in 1..Count - 1 PROVE Index(Advance(nread) + k - 1) = Index(nread + k)
    <2>1. CASE nread = WRAP - 1
      <3>1. Advance(nread) = 0 /\ k - 1 \in Nat
        BY <1>0, <1>4, <2>1, Counters
      <3>2. Advance(nread) + k - 1 = k - 1 /\ nread + k = WRAP + (k - 1)
        BY <1>4, <2>1, <3>1, PipeAssumption
      <3>3. QED
        BY <3>1, <3>2, IndexWraps, Zenon
    <2>2. CASE nread # WRAP - 1
      <3>1. Advance(nread) = nread + 1
        BY <1>0, <2>2, Counters, Zenon
      <3>2. Advance(nread) + k - 1 = nread + k
        BY <1>0, <1>4, <3>1, PipeAssumption
      <3>3. QED
        BY <3>2, Zenon
    <2>3. QED
      BY <2>1, <2>2, Zenon
  <1>5. Contents # <<>>
    BY <1>1, <1>2
  <1>6. ASSUME NEW k \in 1..Count - 1 PROVE Contents'[k] = Tail(Contents)[k]
    <2>1. k + 1 \in 1..Count /\ nread + (k + 1) - 1 = nread + k
      BY <1>0, <1>1, <1>6, PipeAssumption
    <2>2. Contents[k + 1] = data[Index(nread + k)]
      BY <1>2, <2>1, Zenon
    <2>3. Contents'[k] = Contents[k + 1]
      BY <1>3, <1>4, <1>6, <2>2, Zenon
    <2>4. QED
      BY <1>1, <1>2, <1>5, <1>6, <2>3, HeadTailProperties, Zenon
  <1>7. Tail(Contents) \in Seq(Bytes) /\ Len(Tail(Contents)) = Count - 1
    BY <1>2, <1>5, HeadTailProperties, Zenon
  <1>8. QED
    BY <1>3, <1>5, <1>6, <1>7, SeqEqual, Zenon

\* The ring implements the queue: a step of pipe.c is a step of ByteQueue or
\* leaves the queue alone, also when the unsigned counters wrap.
LEMMA NextRefines ==
  ASSUME IInv, IInv', [Next]_vars
  PROVE  [BQ!QNext]_BQ!qvars
  <1>1. TypeOK /\ TypeOK' /\ Count' <= PIPESIZE
    BY Zenon DEF IInv
  <1>2. Len(Contents) = Count
    <2>1. Contents = Window(data, nread, Count) /\ data \in [0..(PIPESIZE - 1) -> Bytes]
      BY <1>1, Zenon DEF Contents, Window, TypeOK
    <2>2. Count \in Nat /\ nread \in Nat
      BY <1>1, CountersMove, CounterTypes DEF IInv
    <2>3. QED
      BY <2>1, <2>2, WindowIsSeq, Zenon
  <1>3. CASE UNCHANGED <<pipe, readopen, writeopen>>
    BY <1>3, Zenon DEF BQ!qvars, Contents, Count, Index, pipe
  <1>4. ASSUME NEW p \in Procs, pipewrite(p), ~UNCHANGED pipe PROVE BQ!QNext
    <2>1. PICK b \in Bytes : data' = [data EXCEPT ![Index(nwrite)] = b]
      BY <1>4, Zenon DEF pipewrite
    <2>2. readopen /\ ~Full /\ nwrite' = Advance(nwrite) /\ nread' = nread /\ UNCHANGED open
      BY <1>4, Zenon DEF pipewrite
    <2>3. writeopen
      BY <1>4, Zenon DEF IInv, LockInv, EndInv, pipewrite, Writing
    <2>4. Count < PIPESIZE /\ Contents' = Append(Contents, b)
      BY <1>1, <2>1, <2>2, PutAppends, Zenon
    <2>5. BQ!Put(b)
      BY <1>2, <2>2, <2>3, <2>4, Zenon DEF BQ!Put, open
    <2>6. QED
      BY <2>5, Zenon DEF BQ!QNext
  <1>5. ASSUME NEW p \in Procs, piperead_copy(p), nread' # nread PROVE BQ!QNext
    <2>1. nread' = Advance(nread) /\ ~Empty /\ UNCHANGED <<data, nwrite>> /\ UNCHANGED open
      BY <1>5, Zenon DEF piperead_copy
    <2>2. readopen
      BY <1>5, Zenon DEF IInv, LockInv, EndInv, piperead_copy, Reading
    <2>3. Contents # <<>> /\ Contents' = Tail(Contents)
      BY <1>1, <2>1, GetRemoves, Zenon
    <2>4. BQ!Get
      BY <2>1, <2>2, <2>3, Zenon DEF BQ!Get, open
    <2>5. QED
      BY <2>4, Zenon DEF BQ!QNext
  <1>6. ASSUME NEW p \in Procs, pipeclose(p) PROVE BQ!QNext
    <2>1. Contents' = Contents
      BY <1>6, Zenon DEF pipeclose, Contents, Count, Index, pipe
    <2>2. CASE p \in Writers
      <3>1. writeopen /\ writeopen' = FALSE /\ readopen' = readopen
        BY <1>6, <2>2, Zenon DEF pipeclose, IInv, EndInv
      <3>2. QED
        BY <2>1, <3>1, Zenon DEF BQ!QNext, BQ!CloseWrite
    <2>3. CASE p \notin Writers
      <3>1. readopen /\ readopen' = FALSE /\ writeopen' = writeopen
        BY <1>6, <2>3, Zenon DEF pipeclose, IInv, EndInv, Procs
      <3>2. QED
        BY <2>1, <3>1, Zenon DEF BQ!QNext, BQ!CloseRead
    <2>4. QED
      BY <2>2, <2>3, Zenon
  <1>7. CASE pipealloc
    <2>1. ~readopen /\ ~writeopen /\ readopen' = TRUE /\ writeopen' = TRUE
      BY <1>7, FreedIsClosed, Zenon DEF pipealloc
    <2>2. Contents' = <<>>
      <3>1. nread' = 0 /\ nwrite' = 0 /\ 0 \in 0..WRAP - 1
        BY <1>7, PipeAssumption DEF pipealloc
      <3>2. Count' = 0
        BY <3>1, Distance DEF Count
      <3>3. QED
        BY <3>2 DEF Contents
    <2>3. QED
      BY <2>1, <2>2, Zenon DEF BQ!QNext, BQ!Renew
  <1>8. ASSUME NEW p \in Procs, Step(p) \/ Call(p) \/ fileclose(p) \/ kill(p)
        PROVE  \/ UNCHANGED <<pipe, readopen, writeopen>>
               \/ pipewrite(p) /\ ~UNCHANGED pipe
               \/ piperead_copy(p) /\ nread' # nread
               \/ pipeclose(p)
    BY <1>8, Zenon DEF Step, Call, Acquire, pipewrite, piperead_wait, piperead_copy, fileclose, kill, pipe, open
  <1>9. CASE UNCHANGED vars
    BY <1>3, <1>9, Zenon DEF vars, pipe
  <1>10. QED
    BY <1>3, <1>4, <1>5, <1>6, <1>7, <1>8, <1>9, Zenon DEF Next

\* A pipe is a bounded first-in first-out queue for every number of processes,
\* every PIPESIZE and every width of the counters that PIPESIZE divides.
THEOREM PipeIsAQueue == Spec => Fifo
  <1>1. Init => BQ!QInit
    <2> SUFFICES ASSUME Init PROVE BQ!QInit
      BY Zenon
    <2>1. Count = 0
      BY InitInv, Counters, Zenon DEF Init, IInv, Empty
    <2>2. QED
      BY <2>1 DEF Init, BQ!QInit, Contents
  <1>2. QED
    BY <1>1, NextRefines, Invariant, PTL DEF Spec, Fifo, BQ!QSpec
=============================================================================
