----------------------------- MODULE LogProofs -----------------------------
(***************************************************************************)
(* Proofs about Log, for every set of processes, blocks and contents and   *)
(* all sizes that satisfy ReservationAssumption: IInv is inductive, and    *)
(* the log implements AtomicDisk.                                          *)
(***************************************************************************)
EXTENDS LogSizing, FiniteSetTheorems, TLAPS

-----------------------------------------------------------------------------
(* Counting.                                                               *)

\* A set A of running operations is finite, and so is a set C of credits of
\* theirs, at most OPBLOCKS for each.
LEMMA CreditsBound ==
  ASSUME NEW A \in SUBSET Procs, NEW C \in SUBSET (A \X (1..OPBLOCKS))
  PROVE  /\ IsFiniteSet(A) /\ Cardinality(A) \in Nat
         /\ IsFiniteSet(C) /\ Cardinality(C) \in Nat
         /\ Cardinality(C) <= Cardinality(A) * OPBLOCKS
  <1>1. IsFiniteSet(A) /\ Cardinality(A) \in Nat
    BY FiniteAssumption, FS_Subset, FS_CardinalityType, Zenon
  <1>2. IsFiniteSet(1..OPBLOCKS) /\ Cardinality(1..OPBLOCKS) = OPBLOCKS
    BY FS_Interval, SizeAssumption
  <1>3. /\ IsFiniteSet(A \X (1..OPBLOCKS))
        /\ Cardinality(A \X (1..OPBLOCKS)) = Cardinality(A) * OPBLOCKS
    BY <1>1, <1>2, FS_Product, Zenon
  <1>4. QED
    BY <1>1, <1>3, FS_Subset, FS_CardinalityType, Zenon

\* The credits form a finite set: their number is a natural.
LEMMA CreditsType ==
  Active \in SUBSET Procs /\ Credits \in SUBSET (Active \X (1..OPBLOCKS))
  BY Zenon DEF Credits, Active

\* The admission test of begin_op() leaves room for one more operation.
LEMMA AdmissionArith ==
  ASSUME NEW n \in Nat, NEW o \in Nat, NEW k \in Nat, NEW m \in Nat, NEW L \in Int,
         k < m, n + (o + 1) * m <= L
  PROVE  n + (o + 1) * k <= L - (m - k)
  <1>1. PICK d \in Nat : d >= 1 /\ m = k + d
    <2>1. m - k \in Nat /\ m - k >= 1 /\ m = k + (m - k)
      OBVIOUS
    <2>2. QED
      BY <2>1, Zenon
  <1>2. (o + 1) * m = (o + 1) * k + (o + 1) * d
    BY <1>1
  <1>3. o * d \in Nat /\ (o + 1) * d = o * d + d
    BY <1>1
  <1>4. (o + 1) * k \in Nat
    OBVIOUS
  <1>5. QED
    BY <1>1, <1>2, <1>3, <1>4
\* The loops over the log blocks advance by one up to lh.n.
LEMMA NextIndex ==
  ASSUME NEW n \in Nat, NEW t \in 1..n, t # n
  PROVE  /\ t + 1 \in 1..n
         /\ \A i \in 1..n : (i >= t + 1 <=> i > t) /\ (i < t + 1 <=> i <= t)
         /\ \A i \in 1..n : i > t <=> (i >= t /\ i # t)
  OBVIOUS
-----------------------------------------------------------------------------
(* IInv is inductive: one lemma per action.                                *)

\* The state mkfs and the power-on leave satisfies the invariant.
LEMMA InitInv == Init => IInv
  <1> SUFFICES ASSUME Init PROVE IInv
    BY Zenon
  <1> USE ValueAssumption, SizeAssumption
  <1>1. TypeOK
    <2>1. <<>> \in Seq(Blocks) /\ Len(<<>>) = 0
      OBVIOUS
    <2>2. /\ dhead \in Seq(Blocks) /\ Len(dhead) \in 0..(NLOG - 1)
          /\ lh \in Seq(Blocks) /\ Len(lh) \in 0..(NLOG - 1)
      BY <2>1 DEF Init
    <2>3. /\ pc \in [Procs -> {"idle", "begin", "asleep", "op", "commit"}]
          /\ held \in [Procs -> Blocks \cup {NoBlock}]
          /\ wrote \in [Procs -> SUBSET Blocks]
      BY Zenon DEF Init
    <2>4. /\ disk \in [Blocks -> Vals] /\ dlog \in [LogSlots -> Vals]
          /\ buf \in [Blocks -> Vals \cup {NoBuf}] /\ pin \in [Blocks -> Nat]
      BY Zenon DEF Init
    <2>5. outstanding \in Nat /\ committing \in BOOLEAN
      BY Zenon DEF Init
    <2>6. /\ phase \in {"up"} \cup CommitPhases \cup BootPhases
          /\ tail \in Nat \ {0} /\ panicked \in {"no"} \cup Panics
      BY DEF Init, BootPhases
    <2>7. QED
      BY <2>2, <2>3, <2>4, <2>5, <2>6, Zenon DEF TypeOK
  <1>2. Active = {}
    BY Zenon DEF Active, Init
  <1>3. OpInv /\ RoomInv /\ NoPanic
    BY <1>2, FS_EmptySet, Zenon DEF OpInv, RoomInv, NoPanic, Init
  <1>4. PhaseInv
    BY <1>2, Zenon DEF PhaseInv, CommitPhases, Init
  <1>5. CacheInv /\ HeadInv /\ CopyInv
    BY DEF CacheInv, HeadInv, CopyInv, Injective, Uninstalled, Init
  <1>6. QED
    BY <1>1, <1>3, <1>4, <1>5, Zenon DEF IInv

\* begin_op() either sleeps or takes a reservation that fits the log.
LEMMA BeginInv ==
  ASSUME IInv, NEW p \in Procs, begin_op(p)
  PROVE  IInv'
  <1> USE ValueAssumption, SizeAssumption, FiniteAssumption, ReservationAssumption
  <1>0. /\ pc[p] # "op" /\ phase \notin BootPhases
        /\ UNCHANGED <<disk, dlog, dhead, buf, pin, lh, committing, held, phase,
                       tail, panicked>>
    BY Zenon DEF begin_op, Up, diskVars
  <1>1. TypeOK'
    <2>1. /\ pc' \in [Procs -> {"idle", "begin", "asleep", "op", "commit"}]
          /\ wrote' \in [Procs -> SUBSET Blocks]
      BY Zenon DEF IInv, TypeOK, begin_op
    <2>2. outstanding' \in Nat
      BY DEF IInv, TypeOK, begin_op
    <2>3. QED
      BY <1>0, <2>1, <2>2, Zenon DEF IInv, TypeOK
  <1>2. CacheInv' /\ HeadInv' /\ CopyInv' /\ NoPanic'
    BY <1>0 DEF IInv, CacheInv, HeadInv, CopyInv, Injective, Uninstalled, NoPanic
  <1>3. CASE MustWait(Len(lh), outstanding)
    <2>1. /\ pc' = [pc EXCEPT ![p] = "asleep"]
          /\ UNCHANGED <<outstanding, wrote>>
      BY <1>3, Zenon DEF begin_op
    <2>2. Active' = Active /\ Credits' = Credits
      BY <1>0, <2>1, Zenon DEF Active, Credits, IInv, TypeOK
    <2>3. OpInv' /\ RoomInv' /\ PhaseInv'
      BY <1>0, <2>1, <2>2, Zenon DEF IInv, OpInv, RoomInv, PhaseInv, TypeOK, Logged
    <2>4. QED
      BY <1>1, <1>2, <2>3, Zenon DEF IInv
  <1>4. CASE ~MustWait(Len(lh), outstanding)
    <2>1. /\ pc' = [pc EXCEPT ![p] = "op"]
          /\ outstanding' = outstanding + 1
          /\ wrote' = [wrote EXCEPT ![p] = {}]
          /\ committing = FALSE
          /\ ~LogFull(Len(lh), outstanding)
      BY <1>4, Zenon DEF begin_op, MustWait, IInv, TypeOK
    <2>2. phase = "up"
      BY <1>0, <2>1, Zenon DEF IInv, PhaseInv, TypeOK
    <2>3. Active' = Active \cup {p} /\ p \notin Active
      BY <1>0, <2>1 DEF Active, IInv, TypeOK
    <2>4. Cardinality(Active') = outstanding + 1
      BY <2>3, CreditsType, CreditsBound, FS_AddElement, Zenon DEF IInv, OpInv
    <2>5. OpInv'
      BY <1>0, <2>1, <2>3, <2>4, FS_EmptySet DEF IInv, OpInv, TypeOK, Logged
    <2>6. RoomInv'
      <3>1. /\ Cardinality(Credits') \in Nat
            /\ Cardinality(Credits') <= (outstanding + 1) * OPBLOCKS
        <4>1. Active' \in SUBSET Procs /\ Credits' \in SUBSET (Active' \X (1..OPBLOCKS))
          BY Zenon DEF Credits, Active
        <4>2. QED
          BY <2>4, <4>1, CreditsBound, Zenon
      <3>2. /\ outstanding \in Nat /\ Len(lh) \in Nat
            /\ Len(lh) + (outstanding + 1) * MAXOPBLOCKS <= LOGSIZE
        BY <2>1 DEF LogFull, IInv, TypeOK
      <3>3. Len(lh) + (outstanding + 1) * OPBLOCKS <= Limit
        BY <3>2, AdmissionArith DEF Limit
      <3>4. QED
        BY <1>0, <3>1, <3>2, <3>3 DEF RoomInv, Limit
    <2>7. PhaseInv'
      BY <1>0, <2>1, <2>2, <2>3, Zenon DEF IInv, PhaseInv, TypeOK
    <2>8. QED
      BY <1>1, <1>2, <2>5, <2>6, <2>7, Zenon DEF IInv
  <1>5. QED
    BY <1>3, <1>4, Zenon

\* While an operation runs no commit and no recovery does, and the log has
\* room for one more log_write().
LEMMA RunningOp ==
  ASSUME IInv, NEW p \in Procs, pc[p] = "op"
  PROVE  /\ p \in Active /\ phase = "up" /\ committing = FALSE
         /\ outstanding \in Nat \ {0} /\ ~TooBig(Len(lh))
  <1>1. p \in Active
    BY Zenon DEF Active
  <1>2. phase = "up"
    BY <1>1, Zenon DEF IInv, PhaseInv
  <1>3. committing = FALSE
    BY <1>2, Zenon DEF IInv, PhaseInv, CommitPhases, TypeOK
  <1>4. outstanding \in Nat \ {0}
    BY <1>1, CreditsType, CreditsBound, FS_EmptySet, Zenon DEF IInv, OpInv
  <1>5. ~TooBig(Len(lh))
    <2>1. Cardinality(Credits) \in Nat
      BY CreditsType, CreditsBound, Zenon
    <2>2. Len(lh) + Cardinality(Credits) <= Limit /\ Len(lh) \in Nat
      BY <1>1 DEF IInv, RoomInv, TypeOK
    <2>3. Limit < LOGSIZE /\ Limit < NLOG - 1 /\ Limit \in Int
      BY SizeAssumption, ReservationAssumption DEF Limit
    <2>4. QED
      BY <2>1, <2>2, <2>3, SizeAssumption DEF TooBig
  <1>6. QED
    BY <1>1, <1>2, <1>3, <1>4, <1>5, Zenon

\* bread() inside an operation only fills the cache.
LEMMA BreadInv ==
  ASSUME IInv, NEW p \in Procs, NEW b \in Blocks, bread(p, b)
  PROVE  IInv'
  <1> USE ValueAssumption
  <1>0. /\ pc[p] = "op"
        /\ held' = [held EXCEPT ![p] = b]
        /\ buf' = [buf EXCEPT ![b] = Bread(b)]
        /\ UNCHANGED <<disk, dlog, dhead, pin, lh, outstanding, committing, pc,
                       wrote, phase, tail, panicked>>
    BY Zenon DEF bread, diskVars
  <1>1. phase = "up"
    BY <1>0, RunningOp, Zenon
  <1>2. TypeOK'
    <2>1. buf' \in [Blocks -> Vals \cup {NoBuf}] /\ held' \in [Procs -> Blocks \cup {NoBlock}]
      BY <1>0, Zenon DEF IInv, TypeOK, Bread
    <2>2. QED
      BY <1>0, <2>1, Zenon DEF IInv, TypeOK
  <1>3. Active' = Active /\ Credits' = Credits
    BY <1>0, Zenon DEF Active, Credits
  <1>4. OpInv' /\ RoomInv' /\ PhaseInv' /\ NoPanic'
    BY <1>0, <1>3, Zenon DEF IInv, OpInv, RoomInv, PhaseInv, NoPanic, TypeOK, Logged
  <1>5. CacheInv'
    BY <1>0, <1>1, Zenon DEF IInv, CacheInv, Uninstalled, Bread, TypeOK
  <1>6. HeadInv' /\ CopyInv'
    BY <1>0, <1>1, Zenon DEF IInv, HeadInv, CopyInv, Injective
  <1>7. QED
    BY <1>2, <1>4, <1>5, <1>6, Zenon DEF IInv

\* brelse() only gives the buffer lock back.
LEMMA BrelseInv ==
  ASSUME IInv, NEW p \in Procs, brelse(p)
  PROVE  IInv'
  <1>0. /\ held' = [held EXCEPT ![p] = NoBlock]
        /\ UNCHANGED <<disk, dlog, dhead, buf, pin, lh, outstanding, committing,
                       pc, wrote, phase, tail, panicked>>
    BY Zenon DEF brelse, diskVars
  <1>1. TypeOK'
    <2>1. held' \in [Procs -> Blocks \cup {NoBlock}]
      BY <1>0, Zenon DEF IInv, TypeOK
    <2>2. QED
      BY <1>0, <2>1, Zenon DEF IInv, TypeOK
  <1>2. Active' = Active /\ Credits' = Credits
    BY <1>0, Zenon DEF Active, Credits
  <1>3. OpInv' /\ RoomInv' /\ PhaseInv' /\ NoPanic'
    BY <1>0, <1>2, Zenon DEF IInv, OpInv, RoomInv, PhaseInv, NoPanic, TypeOK, Logged
  <1>4. CacheInv' /\ HeadInv' /\ CopyInv'
    BY <1>0, Zenon DEF IInv, CacheInv, HeadInv, CopyInv, Injective, Uninstalled
  <1>5. QED
    BY <1>1, <1>3, <1>4, Zenon DEF IInv

\* end_op() leaves, or starts a commit when no operation is left.
LEMMA EndInv ==
  ASSUME IInv, NEW p \in Procs, end_op(p)
  PROVE  IInv'
  <1> USE SizeAssumption
  <1>0. /\ pc[p] = "op" /\ held[p] = NoBlock
        /\ outstanding' = outstanding - 1
        /\ UNCHANGED <<disk, dlog, dhead, buf, pin, lh, held, wrote, panicked>>
    BY RunningOp, Zenon DEF end_op, diskVars
  <1>1. /\ p \in Active /\ phase = "up" /\ committing = FALSE
        /\ outstanding \in Nat \ {0}
    BY <1>0, RunningOp, Zenon
  <1>2. \/ /\ outstanding' = 0 /\ committing' = TRUE
           /\ pc' = [pc EXCEPT ![p] = "commit"]
           /\ phase' = IF Len(lh) > 0 THEN "write_log" ELSE "finish"
           /\ tail' = 1
        \/ /\ outstanding' # 0
           /\ pc' = [Wakeup EXCEPT ![p] = "idle"]
           /\ UNCHANGED <<committing, phase, tail>>
    BY <1>0, <1>1, Zenon DEF end_op, LastOut, GoTo
  <1>3. pc' \in [Procs -> {"idle", "begin", "asleep", "op", "commit"}]
    BY <1>2, Zenon DEF IInv, TypeOK, Wakeup
  <1>4. \A q \in Procs : pc'[q] = "op" <=> q # p /\ pc[q] = "op"
    BY <1>0, <1>2, Zenon DEF IInv, TypeOK, Wakeup
  <1>5. Active' = Active \ {p} /\ Credits' \in SUBSET Credits
    BY <1>0, <1>4, Zenon DEF Active, Credits
  <1>6. Cardinality(Active') = outstanding'
    BY <1>0, <1>1, <1>5, CreditsType, CreditsBound, FS_RemoveElement, Zenon DEF IInv, OpInv
  <1>7. IsFiniteSet(Active')
    BY <1>5, CreditsType, CreditsBound, Zenon
  <1>8. (outstanding' = 0) <=> (Active' = {})
    BY <1>6, <1>7, FS_EmptySet, Zenon
  <1>9. TypeOK'
    <2>1. outstanding' \in Nat
      BY <1>0, <1>1
    <2>2. committing' \in BOOLEAN /\ phase' \in {"up"} \cup CommitPhases \cup BootPhases
      BY <1>1, <1>2, Zenon DEF CommitPhases
    <2>3. tail' \in Nat \ {0}
      BY <1>2 DEF IInv, TypeOK
    <2>4. QED
      BY <1>0, <1>3, <2>1, <2>2, <2>3, Zenon DEF IInv, TypeOK
  <1>10. OpInv'
    BY <1>0, <1>4, <1>5, <1>6, Zenon DEF IInv, OpInv, Logged, Active
  <1>11. RoomInv'
    <2>1. /\ Cardinality(Credits') \in Nat /\ Cardinality(Credits) \in Nat
          /\ Cardinality(Credits') <= Cardinality(Credits)
      BY <1>5, CreditsType, CreditsBound, FS_Subset, FS_CardinalityType, Zenon
    <2>2. QED
      BY <1>0, <1>1, <2>1, ReservationAssumption DEF IInv, RoomInv, TypeOK, Limit
  <1>12. PhaseInv'
    <2>1. Len(lh) \in Nat /\ DOMAIN lh = 1..Len(lh) /\ (Len(lh) = 0 => lh = <<>>)
      BY DEF IInv, TypeOK
    <2>2. QED
      BY <1>0, <1>1, <1>2, <1>8, <2>1 DEF PhaseInv, CommitPhases
  <1>13. CacheInv'
    BY <1>0, <1>1, <1>2 DEF IInv, CacheInv, Uninstalled, TypeOK
  <1>14. HeadInv' /\ CopyInv' /\ NoPanic'
    BY <1>0, <1>1, <1>2 DEF IInv, HeadInv, CopyInv, NoPanic, Injective, TypeOK
  <1>15. QED
    BY <1>9, <1>10, <1>11, <1>12, <1>13, <1>14, Zenon DEF IInv

\* log_write() absorbs the block or appends it and pins its buffer.
LEMMA LogWriteInv ==
  ASSUME IInv, NEW p \in Procs, NEW v \in Vals, log_write(p, v)
  PROVE  IInv'
  <1> USE ValueAssumption, SizeAssumption
  <1>a. PICK b \in Blocks : b = held[p]
    BY Zenon DEF log_write, IInv, TypeOK
  <1>0. /\ pc[p] = "op" /\ b = held[p] /\ b # NoBlock
        /\ b \in wrote[p] \/ Cardinality(wrote[p]) < OPBLOCKS
        /\ buf' = [buf EXCEPT ![b] = v]
        /\ wrote' = [wrote EXCEPT ![p] = @ \cup {b}]
        /\ UNCHANGED <<disk, dlog, dhead, outstanding, committing, pc, held,
                       phase, tail>>
    BY <1>a, Zenon DEF log_write, diskVars
  <1>1. /\ p \in Active /\ phase = "up" /\ outstanding \in Nat \ {0}
        /\ ~TooBig(Len(lh))
    BY <1>0, RunningOp, Zenon
  <1>2. /\ UNCHANGED panicked
        /\ \/ Logged(b) /\ UNCHANGED <<lh, pin>>
           \/ ~Logged(b) /\ lh' = Append(lh, b) /\ pin' = [pin EXCEPT ![b] = @ + 1]
    <2>1. ~(outstanding < 1)
      BY <1>1
    <2>2. /\ UNCHANGED panicked
          /\ IF Logged(held[p]) THEN UNCHANGED <<lh, pin>>
             ELSE lh' = Append(lh, held[p]) /\ pin' = Pin(held[p])
      BY <1>1, <2>1, Zenon DEF log_write
    <2>3. QED
      BY <1>0, <2>2, Zenon DEF Pin
  <1>3. b \in Blocks
    BY Zenon
  <1>4. /\ lh \in Seq(Blocks) /\ Len(lh) \in Nat /\ DOMAIN lh = 1..Len(lh)
        /\ Len(lh) + 1 <= NLOG - 1
    BY <1>1 DEF TooBig, IInv, TypeOK
  <1>5. ASSUME ~Logged(b), lh' = Append(lh, b)
        PROVE  /\ lh' \in Seq(Blocks) /\ Len(lh') = Len(lh) + 1
               /\ DOMAIN lh' = 1..(Len(lh) + 1)
               /\ lh'[Len(lh) + 1] = b
               /\ \A i \in 1..Len(lh) : lh'[i] = lh[i]
    BY <1>3, <1>4, <1>5
  <1>6. TypeOK'
    <2>1. /\ buf' \in [Blocks -> Vals \cup {NoBuf}] /\ wrote' \in [Procs -> SUBSET Blocks]
      BY <1>0, <1>3, Zenon DEF IInv, TypeOK
    <2>2. pin' \in [Blocks -> Nat]
      BY <1>2, <1>3 DEF IInv, TypeOK
    <2>3. lh' \in Seq(Blocks) /\ Len(lh') \in 0..(NLOG - 1)
      BY <1>2, <1>4, <1>5 DEF IInv, TypeOK
    <2>4. QED
      BY <1>0, <1>2, <2>1, <2>2, <2>3, Zenon DEF IInv, TypeOK
  <1>7. Active' = Active
    BY <1>0, Zenon DEF Active
  <1>8. /\ \A c \in Blocks : Logged(c) => Logged(c)'
        /\ Logged(b)'
    <2>1. CASE Logged(b)
      BY <1>2, <2>1, Zenon DEF Logged
    <2>2. CASE ~Logged(b)
      BY <1>2, <1>4, <1>5, <2>2 DEF Logged
    <2>3. QED
      BY <2>1, <2>2, Zenon
  <1>9. /\ IsFiniteSet(wrote[p]) /\ Cardinality(wrote[p]) \in Nat
        /\ Cardinality(wrote[p]) <= OPBLOCKS
        /\ \A c \in wrote[p] : Logged(c)
    BY <1>1, FS_CardinalityType, Zenon DEF IInv, OpInv
  <1>10. /\ IsFiniteSet(wrote'[p])
         /\ Cardinality(wrote'[p]) = IF b \in wrote[p] THEN Cardinality(wrote[p])
                                     ELSE Cardinality(wrote[p]) + 1
    <2>1. wrote'[p] = wrote[p] \cup {b}
      BY <1>0, Zenon DEF IInv, TypeOK
    <2>2. /\ IsFiniteSet(wrote[p] \cup {b})
          /\ Cardinality(wrote[p] \cup {b}) = IF b \in wrote[p] THEN Cardinality(wrote[p])
                                              ELSE Cardinality(wrote[p]) + 1
      BY <1>9, FS_AddElement, Zenon
    <2>3. QED
      BY <2>1, <2>2, Zenon
  <1>11. OpInv'
    <2>1. ASSUME NEW q \in Active
          PROVE  /\ IsFiniteSet(wrote'[q]) /\ Cardinality(wrote'[q]) <= OPBLOCKS
                 /\ \A c \in wrote'[q] : Logged(c)'
      <3>1. CASE q = p
        <4>1. wrote'[p] = wrote[p] \cup {b} /\ wrote[p] \in SUBSET Blocks
          BY <1>0, Zenon DEF IInv, TypeOK
        <4>2. Cardinality(wrote'[p]) <= OPBLOCKS
          BY SMTT(40), Z3T(40), <1>0, <1>9, <1>10
        <4>3. QED
          BY <1>8, <1>9, <1>10, <3>1, <4>1, <4>2, Zenon
      <3>2. CASE q # p
        <4>1. wrote'[q] = wrote[q] /\ wrote[q] \in SUBSET Blocks /\ q \in Procs
          BY <1>0, <3>2, Zenon DEF IInv, TypeOK, Active
        <4>2. QED
          BY <1>8, <4>1, Zenon DEF IInv, OpInv
      <3>3. QED
        BY <3>1, <3>2, Zenon
    <2>2. QED
      BY <1>0, <1>7, <2>1, Zenon DEF IInv, OpInv
  <1>12. RoomInv'
    <2>0. PICK c \in Nat : c = Cardinality(wrote[p])
      BY <1>9, Zenon
    <2>1. /\ IsFiniteSet(Credits) /\ Cardinality(Credits) \in Nat
          /\ Len(lh) + Cardinality(Credits) <= Limit /\ Limit \in Int
      <3>1. IsFiniteSet(Credits) /\ Cardinality(Credits) \in Nat
        BY CreditsType, CreditsBound, Zenon
      <3>2. Len(lh) + Cardinality(Credits) <= Limit
        BY <1>1, Zenon DEF IInv, RoomInv
      <3>3. QED
        BY <3>1, <3>2 DEF Limit
    <2>2. CASE b \in wrote[p]
      <3>1. wrote' = wrote
        BY <1>0, <2>2 DEF IInv, TypeOK
      <3>2. Credits' = Credits
        BY <1>0, <3>1, Zenon DEF Credits
      <3>3. lh' = lh
        BY <1>2, <1>9, <2>2, Zenon
      <3>4. QED
        BY <2>1, <3>2, <3>3, Zenon DEF RoomInv, Limit
    <2>3. CASE b \notin wrote[p]
      <3>1. \A q \in Procs : q # p => wrote'[q] = wrote[q]
        BY <1>0, Zenon DEF IInv, TypeOK
      <3>2. Cardinality(wrote'[p]) = c + 1 /\ c \in Nat /\ c + 1 \in 1..OPBLOCKS
        BY SMTT(30), Z3T(30), <1>0, <1>9, <1>10, <2>0, <2>3
      <3>3. Credits' = Credits \ {<<p, c + 1>>}
        BY <1>0, <2>0, <3>1, <3>2 DEF Credits
      <3>4. <<p, c + 1>> \in Credits
        BY <1>0, <2>0, <3>2 DEF Credits
      <3>5. Cardinality(Credits') = Cardinality(Credits) - 1
        <4>1. \A t \in Credits : Cardinality(Credits \ {t}) = Cardinality(Credits) - 1
          BY <2>1, FS_RemoveElement, Zenon
        <4>2. QED
          BY <3>3, <3>4, <4>1, Zenon
      <3>6. Len(lh') <= Len(lh) + 1 /\ Len(lh') \in Nat
        BY <1>2, <1>4, <1>5
      <3>7. QED
        BY <1>4, <2>1, <3>5, <3>6 DEF RoomInv, Limit
    <2>4. QED
      BY <2>2, <2>3, Zenon
  <1>13. PhaseInv'
    BY <1>0, <1>1, <1>7, Zenon DEF IInv, PhaseInv
  <1>14. CacheInv'
    <2>1. \A x \in Blocks : Uninstalled(x) <=> Logged(x)
      BY <1>1, Zenon DEF Uninstalled, Logged
    <2>2. \A x \in Blocks : Uninstalled(x)' <=> Logged(x)'
      BY <1>0, <1>1, Zenon DEF Uninstalled, Logged
    <2>3. \A x \in Blocks : x # b => (Logged(x)' <=> Logged(x))
      <3>1. CASE Logged(b)
        BY <1>2, <3>1, Zenon DEF Logged
      <3>2. CASE ~Logged(b)
        BY SMTT(30), Z3T(30), <1>2, <1>4, <1>5, <3>2 DEF Logged
      <3>3. QED
        BY <3>1, <3>2, Zenon
    <2>4. pin'[b] = 1 /\ buf'[b] # NoBuf
      <3>1. buf'[b] = v
        BY <1>0, <1>3, Zenon DEF IInv, TypeOK
      <3>2. CASE Logged(b)
        BY <1>2, <1>3, <2>1, <3>1, <3>2, Zenon DEF IInv, CacheInv
      <3>3. CASE ~Logged(b)
        <4>1. pin[b] = 0
          BY <1>3, <2>1, <3>3, Zenon DEF IInv, CacheInv
        <4>2. QED
          BY <1>2, <1>3, <3>1, <3>3, <4>1 DEF IInv, TypeOK
      <3>4. QED
        BY <3>2, <3>3, Zenon
    <2>5. \A x \in Blocks : x # b => pin'[x] = pin[x] /\ buf'[x] = buf[x]
      BY <1>0, <1>2, <1>3, Zenon DEF IInv, TypeOK
    <2>6. disk' = disk
      BY <1>0, Zenon
    <2>7. ASSUME NEW x \in Blocks
          PROVE  IF Uninstalled(x)' THEN pin'[x] = 1 /\ buf'[x] # NoBuf
                 ELSE pin'[x] = 0 /\ buf'[x] \in {NoBuf, disk'[x]}
      <3>1. CASE x = b
        BY <1>8, <2>2, <2>4, <3>1, Zenon
      <3>2. CASE x # b
        BY <2>1, <2>2, <2>3, <2>5, <2>6, <3>2, Zenon DEF IInv, CacheInv
      <3>3. QED
        BY <3>1, <3>2, Zenon
    <2>8. QED
      BY <2>7, Zenon DEF CacheInv
  <1>15. HeadInv'
    <2>1. Injective(lh')
      <3>1. CASE Logged(b)
        BY <1>2, <3>1, Zenon DEF IInv, HeadInv
      <3>2. CASE ~Logged(b)
        BY <1>2, <1>4, <1>5, <3>2 DEF IInv, HeadInv, Injective, Logged
      <3>3. QED
        BY <3>1, <3>2, Zenon
    <2>2. QED
      BY <1>0, <1>1, <2>1, Zenon DEF IInv, HeadInv
  <1>16. CopyInv' /\ NoPanic'
    BY <1>0, <1>1, <1>2, Zenon DEF IInv, CopyInv, NoPanic
  <1>17. QED
    BY <1>6, <1>11, <1>12, <1>13, <1>14, <1>15, <1>16, Zenon DEF IInv

\* One step of write_log() copies one pinned buffer to its log block.
LEMMA WriteLogInv ==
  ASSUME IInv, write_log
  PROVE  IInv'
  <1> USE ValueAssumption, SizeAssumption
  <1>0. /\ phase = "write_log" /\ panicked = "no"
        /\ UNCHANGED <<disk, dhead, pin, lh, outstanding, committing, pc, held,
                       wrote, panicked>>
    BY Zenon DEF write_log, opVars
  <1>1. /\ Active = {} /\ tail \in 1..Len(lh) /\ lh \in Seq(Blocks)
        /\ DOMAIN lh = 1..Len(lh) /\ Len(lh) \in Nat /\ Len(lh) <= NLOG - 1
    BY <1>0 DEF IInv, PhaseInv, TypeOK
  <1>2. PICK b \in Blocks : b = lh[tail]
    BY <1>1
  <1>3. Uninstalled(b) /\ buf[b] # NoBuf
    BY <1>0, <1>1, <1>2, Zenon DEF IInv, CacheInv, Uninstalled
  <1>4. /\ Bread(b) = buf[b]
        /\ buf' = [buf EXCEPT ![b] = buf[b]]
        /\ dlog' = [dlog EXCEPT ![tail] = buf[b]]
    BY <1>2, <1>3, Zenon DEF write_log, Bread
  <1>5. buf' = buf
    BY <1>4, Zenon DEF IInv, TypeOK
  <1>6. \/ tail = Len(lh) /\ phase' = "write_head" /\ tail' = 1
        \/ tail # Len(lh) /\ phase' = "write_log" /\ tail' = tail + 1
    BY Zenon DEF write_log, LastTail, AfterLog, GoTo
  <1>7. dlog' \in [LogSlots -> Vals] /\ dlog'[tail] = buf[b]
        /\ \A i \in LogSlots : i # tail => dlog'[i] = dlog[i]
    <2>1. tail \in LogSlots /\ buf[b] \in Vals
      BY <1>1, <1>3 DEF LogSlots, IInv, TypeOK
    <2>2. QED
      BY <1>4, <2>1, Zenon DEF IInv, TypeOK
  <1>8. TypeOK'
    <2>1. tail' \in Nat \ {0}
      BY <1>6 DEF IInv, TypeOK
    <2>2. phase' \in {"up"} \cup CommitPhases \cup BootPhases
      BY <1>6, Zenon DEF CommitPhases
    <2>3. QED
      BY <1>0, <1>5, <1>7, <2>1, <2>2, Zenon DEF IInv, TypeOK
  <1>9. Active' = Active
    BY <1>0, Zenon DEF Active
  <1>10. OpInv' /\ RoomInv' /\ NoPanic'
    BY <1>0, <1>1, <1>9, Zenon DEF IInv, OpInv, RoomInv, NoPanic
  <1>11. PhaseInv'
    <2>1. lh # <<>>
      BY <1>1
    <2>2. phase' = "write_log" => tail' \in DOMAIN lh'
      <3>1. tail # Len(lh) => tail + 1 \in 1..Len(lh)
        BY <1>1, NextIndex, Zenon
      <3>2. lh' = lh /\ DOMAIN lh = 1..Len(lh)
        BY <1>0, <1>1, Zenon
      <3>3. QED
        BY <1>6, <3>1, <3>2, Zenon
    <2>3. QED
      BY <1>0, <1>1, <1>6, <1>9, <2>1, <2>2, Zenon DEF IInv, PhaseInv, CommitPhases
  <1>12. CacheInv' /\ HeadInv'
    BY <1>0, <1>5, <1>6, Zenon DEF IInv, CacheInv, HeadInv, Uninstalled, Injective
  <1>13. CopyInv'
    <2>1. \A i \in DOMAIN lh : i <= tail => dlog'[i] = buf[lh[i]]
      BY <1>0, <1>1, <1>2, <1>7 DEF IInv, CopyInv, LogSlots
    <2>2. lh' = lh /\ buf' = buf
      BY <1>0, <1>5, Zenon
    <2>3. CASE tail = Len(lh) /\ phase' = "write_head"
      <3>1. \A i \in DOMAIN lh : i <= tail
        BY <1>1, <2>3
      <3>2. \A i \in DOMAIN lh' : dlog'[i] = buf'[lh'[i]]
        BY <2>1, <2>2, <3>1, Zenon
      <3>3. QED
        BY <2>3, <3>2, Zenon DEF CopyInv
    <2>4. CASE phase' = "write_log" /\ tail' = tail + 1
      <3>1. \A i \in DOMAIN lh : i < tail + 1 => i <= tail
        BY <1>1
      <3>2. \A i \in DOMAIN lh' : i < tail' => dlog'[i] = buf'[lh'[i]]
        BY <2>1, <2>2, <2>4, <3>1, Zenon
      <3>3. QED
        BY <2>4, <3>2, Zenon DEF CopyInv
    <2>5. QED
      BY <1>6, <2>3, <2>4, Zenon
  <1>14. QED
    BY <1>8, <1>10, <1>11, <1>12, <1>13, Zenon DEF IInv

\* write_head() commits what write_log() copied, or erases it once installed.
LEMMA WriteHeadInv ==
  ASSUME IInv, write_head
  PROVE  IInv'
  <1> USE SizeAssumption
  <1>0. UNCHANGED <<disk, dlog, buf, pin, outstanding, committing, pc, held,
                    wrote, panicked>>
    BY Zenon DEF write_head, opVars
  <1>1. Active' = Active /\ Active = {}
    BY <1>0, Zenon DEF Active, write_head, IInv, PhaseInv
  <1>2. OpInv' /\ RoomInv' /\ NoPanic'
    BY <1>0, <1>1, Zenon DEF IInv, OpInv, RoomInv, NoPanic
  <1>3. CASE phase = "write_head"
    <2>1. dhead' = lh /\ lh' = lh /\ phase' = "install" /\ tail' = 1
      BY <1>3, Zenon DEF write_head, GoTo
    <2>2. TypeOK'
      BY <1>0, <2>1 DEF IInv, TypeOK, CommitPhases
    <2>3. lh # <<>> /\ Len(lh) \in Nat /\ DOMAIN lh = 1..Len(lh)
      BY <1>3 DEF IInv, PhaseInv, TypeOK
    <2>4. PhaseInv'
      BY <1>0, <1>1, <1>3, <2>1, <2>3 DEF IInv, PhaseInv, CommitPhases, TypeOK
    <2>5. CacheInv'
      BY SMTT(30), Z3T(30), <1>0, <1>3, <2>1, <2>3 DEF IInv, CacheInv, Uninstalled
    <2>6. HeadInv' /\ CopyInv'
      BY SMTT(40), Z3T(40), <1>0, <1>3, <2>1, <2>3 DEF IInv, HeadInv, CopyInv, Injective
    <2>7. QED
      BY <1>2, <2>2, <2>4, <2>5, <2>6, Zenon DEF IInv
  <1>4. CASE phase \in {"clear", "r_clear"}
    <2>1. /\ dhead' = <<>> /\ lh' = <<>> /\ tail' = 1
          /\ phase' = IF phase = "clear" THEN "finish" ELSE "up"
      BY <1>4, Zenon DEF write_head, GoTo
    <2>2. TypeOK'
      <3>1. <<>> \in Seq(Blocks) /\ Len(<<>>) \in 0..(NLOG - 1)
        OBVIOUS
      <3>2. phase' \in {"up"} \cup CommitPhases \cup BootPhases
        BY <2>1, Zenon DEF CommitPhases
      <3>3. dhead' \in Seq(Blocks) /\ Len(dhead') \in 0..(NLOG - 1)
            /\ lh' \in Seq(Blocks) /\ Len(lh') \in 0..(NLOG - 1)
        BY <2>1, <3>1, Zenon
      <3>4. QED
        BY <1>0, <2>1, <3>2, <3>3 DEF IInv, TypeOK
    <2>3. PhaseInv'
      BY <1>0, <1>1, <1>4, <2>1, Zenon DEF IInv, PhaseInv, CommitPhases
    <2>4. CacheInv'
      <3>1. \A b \in Blocks : ~Uninstalled(b)
        BY <1>4, Zenon DEF Uninstalled
      <3>2. \A b \in Blocks : ~Uninstalled(b)'
        BY <2>1 DEF Uninstalled
      <3>3. QED
        BY <1>0, <3>1, <3>2, Zenon DEF IInv, CacheInv
    <2>5. HeadInv' /\ CopyInv'
      BY <2>1 DEF HeadInv, CopyInv, Injective
    <2>6. QED
      BY <1>2, <2>2, <2>3, <2>4, <2>5, Zenon DEF IInv
  <1>5. QED
    BY <1>3, <1>4, Zenon DEF write_head

\* One step of install_trans() makes one home block equal its log block.
LEMMA InstallInv ==
  ASSUME IInv, install_trans
  PROVE  IInv'
  <1> USE ValueAssumption, SizeAssumption
  <1>0. /\ phase \in {"install", "r_install"}
        /\ UNCHANGED <<dlog, dhead, lh, outstanding, committing, pc, held, wrote,
                       panicked>>
    BY Zenon DEF install_trans, opVars
  <1>1. /\ Active = {} /\ tail \in 1..Len(lh) /\ lh \in Seq(Blocks)
        /\ DOMAIN lh = 1..Len(lh) /\ Len(lh) \in Nat /\ Len(lh) <= NLOG - 1
    BY <1>0 DEF IInv, PhaseInv, TypeOK
  <1>2. PICK b \in Blocks : b = lh[tail]
    BY <1>1
  <1>3. dlog[tail] \in Vals
    BY <1>1 DEF IInv, TypeOK, LogSlots
  <1>4. /\ disk' = [disk EXCEPT ![b] = dlog[tail]]
        /\ buf' = [buf EXCEPT ![b] = dlog[tail]]
        /\ pin' = IF phase = "install" THEN [pin EXCEPT ![b] = @ - 1] ELSE pin
    BY <1>2, Zenon DEF install_trans, Unpin
  <1>5. \/ tail = Len(lh) /\ tail' = 1
           /\ phase' = IF phase = "install" THEN "clear" ELSE "r_clear"
        \/ tail # Len(lh) /\ phase' = phase /\ tail' = tail + 1
    BY Zenon DEF install_trans, LastTail, GoTo
  <1>6. phase = "install" => Uninstalled(b)
    BY <1>1, <1>2 DEF Uninstalled
  <1>7. pin' \in [Blocks -> Nat] /\ pin'[b] = 0 /\ \A x \in Blocks : x # b => pin'[x] = pin[x]
    <2>1. CASE phase = "install"
      <3>1. pin[b] = 1
        BY <1>6, <2>1, Zenon DEF IInv, CacheInv
      <3>2. QED
        BY <1>4, <2>1, <3>1 DEF IInv, TypeOK
    <2>2. CASE phase # "install"
      <3>1. ~Uninstalled(b)
        BY <1>0, <2>2, Zenon DEF Uninstalled
      <3>2. QED
        BY <1>4, <2>2, <3>1, Zenon DEF IInv, CacheInv, TypeOK
    <2>3. QED
      BY <2>1, <2>2, Zenon
  <1>8. /\ disk' \in [Blocks -> Vals] /\ buf' \in [Blocks -> Vals \cup {NoBuf}]
        /\ disk'[b] = dlog[tail] /\ buf'[b] = dlog[tail]
        /\ \A x \in Blocks : x # b => disk'[x] = disk[x] /\ buf'[x] = buf[x]
    BY <1>3, <1>4, Zenon DEF IInv, TypeOK
  <1>9. TypeOK'
    <2>1. tail' \in Nat \ {0}
      BY <1>5 DEF IInv, TypeOK
    <2>2. phase' \in {"up"} \cup CommitPhases \cup BootPhases
      BY <1>0, <1>5, Zenon DEF CommitPhases, BootPhases
    <2>3. QED
      BY <1>0, <1>7, <1>8, <2>1, <2>2, Zenon DEF IInv, TypeOK
  <1>10. Active' = Active
    BY <1>0, Zenon DEF Active
  <1>11. OpInv' /\ RoomInv' /\ NoPanic'
    BY <1>0, <1>1, <1>10, Zenon DEF IInv, OpInv, RoomInv, NoPanic
  <1>12. tail # Len(lh) =>
           /\ tail + 1 \in 1..Len(lh)
           /\ \A i \in DOMAIN lh : (i >= tail + 1 <=> i > tail) /\ (i < tail + 1 <=> i <= tail)
           /\ \A i \in DOMAIN lh : i > tail <=> (i >= tail /\ i # tail)
    BY <1>1, NextIndex, Zenon
  <1>13. PhaseInv'
    <2>1. phase' \in {"install", "r_install"} => tail' \in DOMAIN lh'
      BY <1>0, <1>1, <1>5, <1>12, Zenon
    <2>2. QED
      BY <1>0, <1>1, <1>5, <1>10, <2>1, Zenon DEF IInv, PhaseInv, CommitPhases
  <1>14. \A i \in DOMAIN lh : lh[i] = b <=> i = tail
    BY <1>1, <1>2, Zenon DEF IInv, HeadInv, Injective
  <1>15. \A x \in Blocks : Uninstalled(x)' <=> Uninstalled(x) /\ x # b
    <2>1. CASE phase = "r_install"
      BY <1>5, <2>1, Zenon DEF Uninstalled
    <2>2. CASE phase = "install" /\ tail = Len(lh)
      BY <1>0, <1>1, <1>2, <1>5, <1>14, <2>2 DEF Uninstalled
    <2>3. CASE phase = "install" /\ tail # Len(lh)
      <3>1. \A i \in DOMAIN lh : i >= tail' <=> i >= tail /\ lh[i] # b
        BY <1>5, <1>12, <1>14, <2>3, Zenon
      <3>2. QED
        BY <1>0, <1>5, <2>3, <3>1, Zenon DEF Uninstalled
    <2>4. QED
      BY <1>0, <2>1, <2>2, <2>3, Zenon
  <1>16. CacheInv'
    BY <1>7, <1>8, <1>15, Zenon DEF IInv, CacheInv
  <1>17. HeadInv'
    BY <1>0, <1>5, Zenon DEF IInv, HeadInv, Injective
  <1>18. CopyInv'
    <2>1. \A i \in DOMAIN lh : i <= tail => disk'[lh[i]] = dlog'[i]
      <3>1. \A i \in DOMAIN lh : i < tail => disk[lh[i]] = dlog[i]
        BY <1>0, Zenon DEF IInv, CopyInv
      <3>2. QED
        BY <1>0, <1>1, <1>8, <1>14, <3>1
    <2>2. phase = "install" => \A i \in DOMAIN lh : i > tail => dlog'[i] = buf'[lh[i]]
      <3>1. phase = "install" => \A i \in DOMAIN lh : i >= tail => dlog[i] = buf[lh[i]]
        BY Zenon DEF IInv, CopyInv
      <3>2. QED
        BY <1>0, <1>1, <1>8, <1>14, <3>1
    <2>3. CASE tail = Len(lh)
      BY <1>0, <1>1, <1>5, <2>1, <2>3 DEF CopyInv
    <2>4. CASE tail # Len(lh)
      BY SMTT(30), Z3T(30), <1>0, <1>5, <1>12, <2>1, <2>2, <2>4 DEF CopyInv
    <2>5. QED
      BY <2>3, <2>4, Zenon
  <1>19. QED
    BY <1>9, <1>11, <1>13, <1>16, <1>17, <1>18, Zenon DEF IInv

\* The end of end_op() finds an empty log and no operation.
LEMMA CommitDoneInv ==
  ASSUME IInv, commit_done
  PROVE  IInv'
  <1>0. /\ phase = "finish" /\ committing' = FALSE /\ phase' = "up" /\ tail' = 1
        /\ pc' = [p \in Procs |-> IF pc[p] = "commit" THEN "idle" ELSE Wakeup[p]]
        /\ UNCHANGED <<disk, dlog, dhead, buf, pin, lh, outstanding, held, wrote,
                       panicked>>
    BY Zenon DEF commit_done, StillCommitting, diskVars, GoTo
  <1>1. pc' \in [Procs -> {"idle", "begin", "asleep", "op", "commit"}]
    BY <1>0, Zenon DEF IInv, TypeOK, Wakeup
  <1>2. \A p \in Procs : pc'[p] = "op" <=> pc[p] = "op"
    BY <1>0, Zenon DEF Wakeup
  <1>3. Active' = Active /\ Active = {} /\ lh = <<>>
    BY <1>0, <1>2, Zenon DEF Active, IInv, PhaseInv
  <1>4. TypeOK'
    <2>1. committing' \in BOOLEAN /\ phase' \in {"up"} \cup CommitPhases \cup BootPhases
      BY <1>0, Zenon
    <2>2. tail' \in Nat \ {0}
      BY SMTT(40), Z3T(40), <1>0
    <2>3. QED
      BY <1>0, <1>1, <2>1, <2>2, Zenon DEF IInv, TypeOK
  <1>5. OpInv' /\ RoomInv' /\ NoPanic' /\ PhaseInv'
    BY <1>0, <1>2, <1>3, Zenon DEF IInv, OpInv, RoomInv, NoPanic, PhaseInv, CommitPhases
  <1>6. CacheInv' /\ HeadInv' /\ CopyInv'
    BY SMTT(40), Z3T(40), <1>0, <1>3 DEF IInv, CacheInv, Uninstalled, HeadInv, CopyInv, Injective
  <1>7. QED
    BY <1>4, <1>5, <1>6, Zenon DEF IInv

\* bget() recycles only buffers that carry no uninstalled block.
LEMMA EvictInv ==
  ASSUME IInv, NEW b \in Blocks, Evict(b)
  PROVE  IInv'
  <1>0. /\ pin[b] = 0 /\ buf' = [buf EXCEPT ![b] = NoBuf]
        /\ UNCHANGED <<disk, dlog, dhead, pin, lh, outstanding, committing, pc,
                       held, wrote, phase, tail, panicked>>
    BY Zenon DEF Evict, diskVars, opVars
  <1>1. ~Uninstalled(b)
    BY <1>0 DEF IInv, CacheInv
  <1>2. TypeOK'
    <2>1. buf' \in [Blocks -> Vals \cup {NoBuf}]
      BY <1>0, Zenon DEF IInv, TypeOK
    <2>2. QED
      BY <1>0, <2>1, Zenon DEF IInv, TypeOK
  <1>3. Active' = Active /\ Credits' = Credits
    BY <1>0, Zenon DEF Active, Credits
  <1>4. OpInv' /\ RoomInv' /\ NoPanic' /\ PhaseInv' /\ HeadInv'
    BY <1>0, <1>3, Zenon DEF IInv, OpInv, RoomInv, NoPanic, PhaseInv, HeadInv, Logged,
                      Injective, TypeOK
  <1>5. \A x \in Blocks : Uninstalled(x)' <=> Uninstalled(x)
    BY <1>0, Zenon DEF Uninstalled
  <1>6. buf'[b] = NoBuf /\ \A x \in Blocks : x # b => buf'[x] = buf[x]
    BY <1>0, Zenon DEF IInv, TypeOK
  <1>7. CacheInv'
    BY <1>0, <1>1, <1>5, <1>6, Zenon DEF IInv, CacheInv
  <1>8. CopyInv'
    <2>1. \A i \in DOMAIN lh : lh[i] \in Blocks
      BY DEF IInv, TypeOK
    <2>2. phase \in {"write_log", "write_head"} => \A i \in DOMAIN lh : lh[i] # b
      BY <1>1, Zenon DEF Uninstalled
    <2>3. phase = "install" => \A i \in DOMAIN lh : i >= tail => lh[i] # b
      BY <1>1, Zenon DEF Uninstalled
    <2>4. QED
      BY SMTT(40), Z3T(40), <1>0, <1>6, <2>1, <2>2, <2>3 DEF IInv, CopyInv
  <1>9. QED
    BY <1>2, <1>4, <1>7, <1>8, Zenon DEF IInv

\* A read outside a transaction loads a clean block.
LEMMA ReadInv ==
  ASSUME IInv, NEW b \in Blocks, readi(b)
  PROVE  IInv'
  <1> USE ValueAssumption
  <1>0. /\ buf' = [buf EXCEPT ![b] = Bread(b)]
        /\ UNCHANGED <<disk, dlog, dhead, pin, lh, outstanding, committing, pc,
                       held, wrote, phase, tail, panicked>>
    BY Zenon DEF readi, diskVars, opVars
  <1>1. Uninstalled(b) => buf' = buf
    BY <1>0, Zenon DEF IInv, CacheInv, Bread, TypeOK
  <1>2. TypeOK'
    <2>1. buf' \in [Blocks -> Vals \cup {NoBuf}]
      BY <1>0, Zenon DEF IInv, TypeOK, Bread
    <2>2. QED
      BY <1>0, <2>1, Zenon DEF IInv, TypeOK
  <1>3. Active' = Active /\ Credits' = Credits
    BY <1>0, Zenon DEF Active, Credits
  <1>4. OpInv' /\ RoomInv' /\ NoPanic' /\ PhaseInv' /\ HeadInv'
    BY <1>0, <1>3, Zenon DEF IInv, OpInv, RoomInv, NoPanic, PhaseInv, HeadInv, Logged,
                      Injective, TypeOK
  <1>5. \A x \in Blocks : Uninstalled(x)' <=> Uninstalled(x)
    BY <1>0, Zenon DEF Uninstalled
  <1>6. \A x \in Blocks : x # b => buf'[x] = buf[x]
    BY <1>0, Zenon DEF IInv, TypeOK
  <1>7. ~Uninstalled(b) => buf'[b] \in {NoBuf, disk[b]}
    BY <1>0, Zenon DEF IInv, CacheInv, Bread, TypeOK
  <1>8. CacheInv'
    BY <1>0, <1>1, <1>5, <1>6, <1>7, Zenon DEF IInv, CacheInv
  <1>9. CopyInv'
    <2>1. CASE Uninstalled(b)
      BY <1>0, <1>1, <2>1 DEF IInv, CopyInv
    <2>2. CASE ~Uninstalled(b)
      <3>1. \A i \in DOMAIN lh : lh[i] \in Blocks
        BY SMTT(40), Z3T(40) DEF IInv, TypeOK
      <3>2. phase \in {"write_log", "write_head"} => \A i \in DOMAIN lh : lh[i] # b
        BY <2>2, Zenon DEF Uninstalled
      <3>3. phase = "install" => \A i \in DOMAIN lh : i >= tail => lh[i] # b
        BY <2>2, Zenon DEF Uninstalled
      <3>4. QED
        BY SMTT(40), Z3T(40), <1>0, <1>6, <3>1, <3>2, <3>3 DEF IInv, CopyInv
    <2>3. QED
      BY <2>1, <2>2, Zenon
  <1>10. QED
    BY <1>2, <1>4, <1>8, <1>9, Zenon DEF IInv

\* A crash keeps what the header and the log blocks on the disk say.
LEMMA CrashInv ==
  ASSUME IInv, Crash
  PROVE  IInv'
  <1> USE ValueAssumption, SizeAssumption
  <1>0. /\ buf' = [b \in Blocks |-> NoBuf] /\ pin' = [b \in Blocks |-> 0]
        /\ lh' = <<>> /\ outstanding' = 0 /\ committing' = FALSE
        /\ pc' = [p \in Procs |-> "idle"] /\ held' = [p \in Procs |-> NoBlock]
        /\ wrote' = [p \in Procs |-> {}] /\ panicked' = "no"
        /\ phase' = "r_read" /\ tail' = 1
        /\ UNCHANGED <<disk, dlog, dhead>>
    BY Zenon DEF Crash, GoTo, diskVars
  <1>1. TypeOK'
    <2>1. <<>> \in Seq(Blocks) /\ Len(<<>>) \in 0..(NLOG - 1)
      OBVIOUS
    <2>2. lh' \in Seq(Blocks) /\ Len(lh') \in 0..(NLOG - 1)
      BY <1>0, <2>1, Zenon
    <2>3. /\ pc' \in [Procs -> {"idle", "begin", "asleep", "op", "commit"}]
          /\ held' \in [Procs -> Blocks \cup {NoBlock}]
          /\ wrote' \in [Procs -> SUBSET Blocks]
      BY <1>0, Zenon
    <2>4. buf' \in [Blocks -> Vals \cup {NoBuf}] /\ pin' \in [Blocks -> Nat]
      BY <1>0, Zenon
    <2>5. outstanding' \in Nat /\ tail' \in Nat \ {0}
      BY <1>0
    <2>6. committing' \in BOOLEAN
      BY <1>0, Zenon
    <2>7. /\ phase' \in {"up"} \cup CommitPhases \cup BootPhases
          /\ panicked' \in {"no"} \cup Panics
      BY <1>0, Zenon DEF BootPhases
    <2>8. QED
      BY <1>0, <2>2, <2>3, <2>4, <2>5, <2>6, <2>7 DEF IInv, TypeOK
  <1>2. Active' = {}
    BY <1>0, Zenon DEF Active
  <1>3. OpInv' /\ RoomInv' /\ NoPanic'
    BY <1>0, <1>2, FS_EmptySet, Zenon DEF OpInv, RoomInv, NoPanic
  <1>4. PhaseInv' /\ HeadInv'
    BY SMTT(40), Z3T(40), <1>0, <1>2 DEF PhaseInv, CommitPhases, IInv, HeadInv, Injective
  <1>5. CacheInv' /\ CopyInv'
    BY <1>0, Zenon DEF CacheInv, CopyInv, Uninstalled
  <1>6. QED
    BY <1>1, <1>3, <1>4, <1>5, Zenon DEF IInv

\* read_head() at boot reads back the header the last commit left.
LEMMA ReadHeadInv ==
  ASSUME IInv, read_head
  PROVE  IInv'
  <1> USE SizeAssumption
  <1>0. /\ phase = "r_read" /\ lh' = dhead /\ tail' = 1
        /\ phase' = IF Len(dhead) > 0 THEN "r_install" ELSE "r_clear"
        /\ UNCHANGED <<disk, dlog, dhead, buf, pin, outstanding, committing, pc,
                       held, wrote, panicked>>
    BY Zenon DEF read_head, GoTo, diskVars, opVars
  <1>1. TypeOK'
    <2>1. phase' \in {"up"} \cup CommitPhases \cup BootPhases
      BY <1>0, Zenon DEF BootPhases
    <2>2. QED
      BY SMTT(40), Z3T(40), <1>0, <2>1 DEF IInv, TypeOK
  <1>2. Active' = Active /\ Active = {}
    BY <1>0, Zenon DEF Active, IInv, PhaseInv
  <1>3. OpInv' /\ RoomInv' /\ NoPanic'
    BY <1>0, <1>2, Zenon DEF IInv, OpInv, RoomInv, NoPanic
  <1>4. Len(dhead) \in Nat /\ DOMAIN dhead = 1..Len(dhead)
    BY DEF IInv, TypeOK
  <1>5. PhaseInv'
    BY <1>0, <1>2, <1>4 DEF IInv, PhaseInv, CommitPhases
  <1>6. CacheInv' /\ HeadInv'
    BY <1>0, Zenon DEF IInv, CacheInv, HeadInv, Uninstalled, Injective
  <1>7. CopyInv'
    <2>1. phase' = "r_install" \/ (phase' = "r_clear" /\ DOMAIN lh' = {})
      BY <1>0, <1>4
    <2>2. \A i \in DOMAIN lh' : ~(i < tail')
      BY <1>0, <1>4
    <2>3. QED
      BY <2>1, <2>2, Zenon DEF CopyInv
  <1>8. QED
    BY <1>1, <1>3, <1>5, <1>6, <1>7, Zenon DEF IInv

\* Every step preserves the invariant.
LEMMA NextInv == IInv /\ [Next]_vars => IInv'
  <1> SUFFICES ASSUME IInv, [Next]_vars PROVE IInv'
    BY Zenon
  <1>1. ASSUME NEW p \in Procs, Op(p) PROVE IInv'
    BY <1>1, BeginInv, BreadInv, LogWriteInv, BrelseInv, EndInv, Zenon DEF Op
  <1>2. CASE CommitStep
    BY <1>2, WriteLogInv, WriteHeadInv, InstallInv, CommitDoneInv, Zenon DEF CommitStep
  <1>3. CASE read_head
    BY <1>3, ReadHeadInv, Zenon
  <1>4. ASSUME NEW b \in Blocks, Evict(b) PROVE IInv'
    BY <1>4, EvictInv, Zenon
  <1>5. CASE Crash
    BY <1>5, CrashInv, Zenon
  <1>6. CASE UNCHANGED vars
    <2>1. TypeOK' /\ NoPanic'
      BY <1>6, Zenon DEF vars, IInv, TypeOK, NoPanic
    <2>2. OpInv' /\ RoomInv'
      BY <1>6, Zenon DEF vars, IInv, OpInv, RoomInv, Active, Credits, Logged
    <2>3. PhaseInv' /\ CacheInv'
      BY <1>6, Zenon DEF vars, IInv, PhaseInv, CacheInv, Active, Uninstalled
    <2>4. HeadInv' /\ CopyInv'
      BY <1>6, Zenon DEF vars, IInv, HeadInv, CopyInv, Uninstalled, Injective
    <2>5. QED
      BY <2>1, <2>2, <2>3, <2>4, Zenon DEF IInv
  <1>7. ASSUME NEW b \in Blocks, readi(b) PROVE IInv'
    BY <1>7, ReadInv, Zenon
  <1>8. QED
    BY <1>1, <1>2, <1>3, <1>4, <1>5, <1>6, <1>7, Zenon DEF Next, Running

\* IInv holds in every reachable state: the log, the pins, the buffer cache and
\* the disk agree in every phase of commit() and recovery.
THEOREM Inductive == Spec => []IInv
  BY InitInv, NextInv, PTL DEF Spec

\* Type correctness of the model of log.c.
THEOREM TypeCorrect == Spec => []TypeOK
  <1>1. IInv => TypeOK
    BY Zenon DEF IInv
  <1>2. QED
    BY <1>1, Inductive, PTL

\* log_write() never panics with "too big a transaction" and end_op() never
\* with "log.committing", whatever the number of processes, if operations keep
\* to OPBLOCKS blocks.
THEOREM ReservationSuffices == Spec => []NoPanic
  <1>1. IInv => NoPanic
    BY Zenon DEF IInv
  <1>2. QED
    BY <1>1, Inductive, PTL

\* Every cached block that differs from its home block is pinned.
THEOREM DirtyIsPinned == Spec => []DirtyPinned
  <1>1. IInv => DirtyPinned
    BY DEF IInv, CacheInv, DirtyPinned, TypeOK
  <1>2. QED
    BY <1>1, Inductive, PTL
=============================================================================
