--------------------------- MODULE VirtioRequests ---------------------------
(***************************************************************************)
(* The inductive invariant of VirtioDisk, and the steps of a request up to *)
(* the device: allocating and formatting descriptors, the available ring.  *)
(* VirtioProofs has the way back, and the theorems.                        *)
(***************************************************************************)
EXTENDS VirtioDisk, FiniteSetTheorems, TLAPS

-----------------------------------------------------------------------------
(* The inductive invariant.                                                *)

\* The number of entries from ring index a up to b, and from place d up to e.
Dist(a, b) == IF a <= b THEN b - a ELSE b + WRAP - a
Gap(d, e) == IF d <= e THEN e - d ELSE e + NUM - d

\* The places of a ring with the entries from index a up to b.
Window(a, b) == {d \in Descs : Gap(a % NUM, d) < Dist(a, b)}

\* The requests that the handler has yet to report.
Out == {p \in Procs : pc[p] \in {"asleep", "wait"} /\ bdisk[p]}

Second(p) == desc[head[p]].next
Third(p) == desc[Second(p)].next
Chain3(p) == {head[p], Second(p), Third(p)}

Shapes ==
  /\ desc \in [Descs -> [addr : {"none", "op", "status"} \cup Procs, more : BOOLEAN, next : Descs]]
  /\ info \in [Descs -> [b : Procs \cup {Nobody}, ok : BOOLEAN]]
  /\ ops \in [Descs -> [write : BOOLEAN, blk : Blocks] \cup {NoReq}]

\* Each request under way has a chain of three descriptors, that no other has.
ChainInv ==
  /\ \A p \in Active :
       /\ desc[head[p]].more /\ desc[Second(p)].more /\ ~desc[Third(p)].more
       /\ head[p] # Second(p) /\ Second(p) # Third(p) /\ Third(p) # head[p]
       /\ Chain3(p) \cap free = {}
       /\ desc[Second(p)].addr = p /\ info[head[p]].b = p
       /\ ops[head[p]] = [write |-> write[p], blk |-> blk[p]]
  /\ \A p, q \in Active : p # q => Chain3(p) \cap Chain3(q) = {}

\* Where a process is, and what its buffer and its request are then.
ProcInv ==
  \A p \in Procs :
    /\ pc[p] = "publish" <=> lock = p
    /\ pc[p] = "publish" => avail[avail_idx % NUM] = head[p] /\ bdisk[p] /\ ~info[head[p]].ok
    /\ pc[p] = "asleep" => bdisk[p]
    /\ pc[p] = "wait" /\ ~bdisk[p] => info[head[p]].ok
    /\ pc[p] \in {"idle", "alloc", "nodesc"} => ~bdisk[p]
    /\ pc[p] # "idle" => blk[p] \in Blocks /\ (write[p] => data[p] \in Vals)

\* Descriptors and ring entries are counted.
CountInv ==
  /\ IsFiniteSet(Active) /\ Cardinality(free) + 3 * Cardinality(Active) = NUM
  /\ Dist(seen, avail_idx) + Cardinality(inflight) + Dist(used_idx, uidx) = Cardinality(Out)
  /\ Gap(seen % NUM, avail_idx % NUM) = Dist(seen, avail_idx)
  /\ Gap(used_idx % NUM, uidx % NUM) = Dist(used_idx, uidx)

\* A request that the handler has yet to report is once in the avail ring, or
\* once with the device, or finished and once in the used ring.
RingInv ==
  /\ \A d \in Window(seen, avail_idx) :
       avail[d] \notin inflight /\ \E p \in Out : avail[d] = head[p] /\ ~info[head[p]].ok
  /\ \A h \in inflight : \E p \in Out : h = head[p] /\ ~info[head[p]].ok
  /\ \A d \in Window(used_idx, uidx) : \E p \in Out : used[d] = head[p] /\ info[head[p]].ok
  /\ \A d, e \in Window(seen, avail_idx) : avail[d] = avail[e] => d = e
  /\ \A d, e \in Window(used_idx, uidx) : used[d] = used[e] => d = e
  /\ \A p \in Out : info[head[p]].ok => \E d \in Window(used_idx, uidx) : used[d] = head[p]

WakeInv ==
  /\ used_idx # uidx => raised \/ lock = Intr
  /\ \A p \in Procs : pc[p] = "nodesc" => Cardinality(free) < 3

IInv == TypeOK /\ ~panicked /\ Shapes /\ ChainInv /\ ProcInv /\ CountInv /\ RingInv /\ WakeInv
-----------------------------------------------------------------------------
(* Rings.                                                                  *)

\* What % and \div are.
LEMMA Remainder ==
  ASSUME NEW M \in Nat \ {0}, NEW x \in Nat
  PROVE  x % M \in 0..M - 1 /\ x = M * (x \div M) + (x % M) /\ x \div M \in Nat
  OBVIOUS

\* Counting up by one.
LEMMA RemainderNext ==
  ASSUME NEW M \in Nat \ {0}, NEW x \in Nat
  PROVE  (x + 1) % M = IF x % M = M - 1 THEN 0 ELSE (x % M) + 1
  <1> DEFINE q == x \div M  r == x % M  t == (x + 1) \div M  u == (x + 1) % M
  <1>1. /\ r \in 0..M - 1 /\ x = M * q + r /\ q \in Nat
        /\ u \in 0..M - 1 /\ x + 1 = M * t + u /\ t \in Nat
    <2>1. x + 1 \in Nat
      OBVIOUS
    <2>2. r \in 0..M - 1 /\ x = M * q + r /\ q \in Nat
      BY Remainder, Zenon
    <2>3. u \in 0..M - 1 /\ x + 1 = M * t + u /\ t \in Nat
      BY <2>1, Remainder, Zenon
    <2>4. QED
      BY <2>2, <2>3, Zenon
  <1> HIDE DEF q, r, t, u
  <1>2. M * (t - q) = M * t - M * q /\ t - q \in Int
    BY <1>1
  <1>3. M * (t - q) = r + 1 - u
    BY <1>1, <1>2
  <1>4. CASE t - q >= 2
    <2>1. M * (t - q) >= M * 2
      BY <1>2, <1>4
    <2>2. QED
      BY <1>1, <1>3, <2>1
  <1>5. CASE t - q <= -1
    <2>1. M * (t - q) <= M * (-1)
      BY <1>2, <1>5
    <2>2. QED
      BY <1>1, <1>3, <2>1
  <1>6. CASE t - q = 0
    <2>1. u = r + 1
      BY <1>1, <1>3, <1>6
    <2>2. QED
      BY <1>1, <2>1 DEF u, r
  <1>7. CASE t - q = 1
    <2>1. u = r + 1 - M
      BY <1>1, <1>3, <1>7
    <2>2. u = 0 /\ r = M - 1
      BY <1>1, <2>1
    <2>3. QED
      BY <2>2, Zenon DEF u, r
  <1>8. QED
    BY <1>2, <1>4, <1>5, <1>6, <1>7

\* A ring index and its place in the ring move on together, also where the
\* index overflows.
LEMMA Bumped ==
  ASSUME NEW i \in Indices
  PROVE  /\ Bump(i) \in Indices /\ Bump(i) = IF i + 1 = WRAP THEN 0 ELSE i + 1
         /\ i % NUM \in Descs
         /\ Bump(i) % NUM = IF i % NUM = NUM - 1 THEN 0 ELSE (i % NUM) + 1
  <1>1. i \in Nat /\ i < WRAP /\ NUM \in Nat \ {0} /\ WRAP \in Nat \ {0}
    BY VirtioAssumption DEF Indices
  <1>2. Bump(i) = IF i + 1 = WRAP THEN 0 ELSE i + 1
    BY <1>1 DEF Bump
  <1>3. i % NUM \in Descs /\ (i + 1) % NUM = IF i % NUM = NUM - 1 THEN 0 ELSE (i % NUM) + 1
    BY <1>1, Remainder, RemainderNext, Zenon DEF Descs
  <1>4. Bump(i) % NUM = (i + 1) % NUM
    <2>1. 0 % NUM = 0 /\ WRAP % NUM = 0
      BY VirtioAssumption
    <2>2. QED
      BY <1>2, <2>1, Zenon
  <1>5. QED
    BY <1>1, <1>2, <1>3, <1>4 DEF Indices

\* Gaps and distances are natural numbers.
LEMMA Distances ==
  /\ \A a, b \in Indices : Dist(a, b) \in Nat /\ (Dist(a, b) = 0 <=> a = b)
  /\ \A d, e \in Descs : Gap(d, e) \in 0..NUM - 1 /\ (Gap(d, e) = 0 <=> d = e)
  /\ \A d, e, f \in Descs : Gap(d, e) = Gap(d, f) => e = f
  /\ NUM <= WRAP
  BY VirtioAssumption DEF Dist, Gap, Indices, Descs

\* The window when an entry is added, and when one is taken out.
LEMMA WindowPush ==
  ASSUME NEW a \in Indices, NEW b \in Indices, Gap(a % NUM, b % NUM) = Dist(a, b), Dist(a, b) + 1 < NUM
  PROVE  /\ Dist(a, Bump(b)) = Dist(a, b) + 1 /\ Gap(a % NUM, Bump(b) % NUM) = Dist(a, Bump(b))
         /\ Window(a, Bump(b)) = Window(a, b) \cup {b % NUM}
  <1>1. /\ Bump(b) = IF b + 1 = WRAP THEN 0 ELSE b + 1
        /\ a % NUM \in Descs /\ b % NUM \in Descs /\ Bump(b) % NUM \in Descs
        /\ Bump(b) % NUM = IF b % NUM = NUM - 1 THEN 0 ELSE (b % NUM) + 1
    BY Bumped, Zenon
  <1>2. Dist(a, Bump(b)) = Dist(a, b) + 1
    BY <1>1, Distances, VirtioAssumption DEF Dist, Indices
  <1>3. Gap(a % NUM, Bump(b) % NUM) = Gap(a % NUM, b % NUM) + 1
    BY <1>1, Distances, VirtioAssumption DEF Gap, Descs
  <1>4. \A d \in Descs : Gap(a % NUM, d) < Dist(a, b) + 1 <=> Gap(a % NUM, d) < Dist(a, b) \/ d = b % NUM
    BY <1>1, Distances
  <1>5. QED
    BY <1>1, <1>2, <1>3, <1>4, Zenon DEF Window

\* An entry less, read at the start of the window.
LEMMA WindowPop ==
  ASSUME NEW a \in Indices, NEW b \in Indices, Gap(a % NUM, b % NUM) = Dist(a, b), a # b
  PROVE  /\ Dist(Bump(a), b) = Dist(a, b) - 1 /\ Gap(Bump(a) % NUM, b % NUM) = Dist(Bump(a), b)
         /\ a % NUM \in Window(a, b) /\ Window(Bump(a), b) = Window(a, b) \ {a % NUM}
  <1>1. /\ Bump(a) = IF a + 1 = WRAP THEN 0 ELSE a + 1
        /\ a % NUM \in Descs /\ b % NUM \in Descs /\ Bump(a) % NUM \in Descs
        /\ Bump(a) % NUM = IF a % NUM = NUM - 1 THEN 0 ELSE (a % NUM) + 1
    BY Bumped, Zenon
  <1>2. Dist(Bump(a), b) = Dist(a, b) - 1
    BY <1>1, Distances, VirtioAssumption DEF Dist, Indices
  <1>3. \A d \in Descs : d # a % NUM => Gap(Bump(a) % NUM, d) = Gap(a % NUM, d) - 1
    BY <1>1, VirtioAssumption DEF Gap, Descs
  <1>4. Dist(a, b) \in Nat \ {0} /\ Dist(a, b) < NUM /\ Gap(a % NUM, a % NUM) = 0
    <2>1. Dist(a, b) \in Nat /\ Dist(a, b) # 0
      BY Distances, Zenon
    <2>2. Gap(a % NUM, b % NUM) \in 0..NUM - 1 /\ Gap(a % NUM, a % NUM) = 0
      BY <1>1, Distances, Zenon
    <2>3. QED
      BY <2>1, <2>2, VirtioAssumption
  <1>5. a % NUM # b % NUM /\ Gap(Bump(a) % NUM, b % NUM) = Dist(Bump(a), b)
    BY <1>1, <1>2, <1>3, <1>4, Zenon
  <1>6. Gap(Bump(a) % NUM, a % NUM) = NUM - 1
    BY <1>1, VirtioAssumption DEF Gap, Descs
  <1>7. \A d \in Descs : Gap(Bump(a) % NUM, d) < Dist(a, b) - 1 <=> Gap(a % NUM, d) < Dist(a, b) /\ d # a % NUM
    <2> TAKE d \in Descs
    <2>1. CASE d = a % NUM
      BY <1>4, <1>6, <2>1, VirtioAssumption
    <2>2. CASE d # a % NUM
      <3>1. Gap(a % NUM, d) \in Nat /\ Gap(Bump(a) % NUM, d) = Gap(a % NUM, d) - 1
        BY <1>1, <1>3, <2>2, Distances
      <3>2. QED
        BY <1>4, <2>2, <3>1
    <2>3. QED
      BY <2>1, <2>2, Zenon
  <1>8. QED
    BY <1>1, <1>2, <1>4, <1>5, <1>7 DEF Window

\* The place after a window is outside of it, and an empty window has no place.
LEMMA WindowEnd ==
  ASSUME NEW a \in Indices, NEW b \in Indices, Gap(a % NUM, b % NUM) = Dist(a, b)
  PROVE  b % NUM \notin Window(a, b) /\ (Window(a, b) # {} => a # b) /\ Window(a, b) \subseteq Descs
  <1>1. Dist(a, b) \in Nat /\ (a = b => Dist(a, b) = 0) /\ a % NUM \in Descs
    BY Distances, Bumped, Zenon
  <1>2. \A d \in Descs : Gap(a % NUM, d) \in Nat
    BY <1>1, Distances
  <1>3. QED
    BY <1>1, <1>2 DEF Window
-----------------------------------------------------------------------------
(* IInv is inductive: one lemma per action.                                *)

\* The constants.
LEMMA Constants ==
  /\ NUM \in Nat /\ NUM >= 3 /\ 0 \in Descs /\ 0 \in Indices
  /\ IsFiniteSet(Descs) /\ Cardinality(Descs) = NUM
  /\ Intr \notin Procs /\ Leaving \notin Procs /\ Nobody \notin Procs
  /\ Intr # Leaving /\ Leaving # Nobody /\ Nobody # Intr
  <1>1. NUM \in Nat /\ NUM >= 3 /\ 0 \in Descs /\ 0 \in Indices
    BY VirtioAssumption DEF Descs, Indices
  <1>2. IsFiniteSet(Descs) /\ Cardinality(Descs) = NUM
    <2>1. IsFiniteSet(0..NUM - 1) /\ Cardinality(0..NUM - 1) = IF 0 > NUM - 1 THEN 0 ELSE NUM - 1 - 0 + 1
      BY <1>1, FS_Interval
    <2>2. QED
      BY <1>1, <2>1 DEF Descs
  <1>3. Intr \notin Procs /\ Leaving \notin Procs /\ Nobody \notin Procs
    BY VirtioAssumption, Zenon
  <1>4. Intr # Leaving /\ Leaving # Nobody /\ Nobody # Intr
    <2>1. \A x, y : Cardinality({x, y}) <= 2
      <3> TAKE x, y
      <3>1. IsFiniteSet({x}) /\ Cardinality({x}) = 1
        BY FS_Singleton, Zenon
      <3>2. Cardinality({x} \cup {y}) = IF y \in {x} THEN Cardinality({x}) ELSE Cardinality({x}) + 1
        BY <3>1, FS_AddElement, Zenon
      <3>3. {x} \cup {y} = {x, y}
        BY Zenon
      <3>4. QED
        BY <3>1, <3>2, <3>3
    <2>2. Cardinality({Intr, Leaving, Nobody}) = 3
      BY VirtioAssumption, Zenon
    <2>3. /\ Intr = Leaving => {Intr, Leaving, Nobody} = {Intr, Nobody}
          /\ Leaving = Nobody => {Intr, Leaving, Nobody} = {Intr, Nobody}
          /\ Nobody = Intr => {Intr, Leaving, Nobody} = {Intr, Leaving}
      BY Zenon
    <2>4. Cardinality({Intr, Nobody}) <= 2 /\ Cardinality({Intr, Leaving}) <= 2
      BY <2>1, Zenon
    <2>5. QED
      BY <2>2, <2>3, <2>4
  <1>5. QED
    BY <1>1, <1>2, <1>3, <1>4, Zenon

\* virtio_disk_init() establishes the invariant.
LEMMA InitInv == Init => IInv
  <1> SUFFICES ASSUME Init PROVE IInv
    BY Zenon
  <1>1. TypeOK /\ ~panicked
    BY Constants, Zenon DEF Init, TypeOK, ZeroDesc
  <1>2. Shapes
    BY Constants, Zenon DEF Init, Shapes, ZeroDesc
  <1>3. Active = {} /\ Out = {} /\ inflight = {}
    BY Zenon DEF Init, Active, Out
  <1>4. ChainInv
    BY <1>3, Zenon DEF ChainInv
  <1>5. ProcInv
    BY Constants, Zenon DEF Init, ProcInv
  <1>6. Dist(0, 0) = 0 /\ Gap(0 % NUM, 0 % NUM) = 0
    BY Constants, Distances, Bumped, Zenon
  <1>7. CountInv
    <2>1. IsFiniteSet({}) /\ Cardinality({}) = 0
      BY FS_EmptySet, Zenon
    <2>2. QED
      BY <1>3, <1>6, <2>1, Constants DEF Init, CountInv
  <1>8. Window(0, 0) = {}
    BY <1>6, Constants, WindowEnd, Zenon
  <1>9. RingInv
    BY <1>3, <1>8, Zenon DEF RingInv, Init
  <1>10. WakeInv
    BY Zenon DEF Init, WakeInv
  <1>11. QED
    BY <1>1, <1>2, <1>4, <1>5, <1>7, <1>9, <1>10, Zenon DEF IInv

\* What TypeOK says, as far as the proofs below use it.
LEMMA Types ==
  ASSUME IInv
  PROVE  /\ \A p \in Procs : head[p] \in Descs
         /\ \A d \in Descs : desc[d].next \in Descs
         /\ \A p \in Procs : head[p] \in Descs /\ Second(p) \in Descs /\ Third(p) \in Descs
         /\ avail_idx \in Indices /\ uidx \in Indices /\ used_idx \in Indices /\ seen \in Indices
         /\ Active \subseteq Procs /\ Out \subseteq Active
  <1>1. /\ \A p \in Procs : head[p] \in Descs
        /\ \A d \in Descs : desc[d].next \in Descs
    BY Zenon DEF IInv, TypeOK
  <1>2. avail_idx \in Indices /\ uidx \in Indices /\ used_idx \in Indices /\ seen \in Indices
    BY Zenon DEF IInv, TypeOK
  <1>3. Active \subseteq Procs /\ Out \subseteq Active
    BY Zenon DEF Active, Out
  <1>4. QED
    BY <1>1, <1>2, <1>3, Zenon DEF Second, Third

\* There are far fewer requests than descriptors, so no ring runs over.
LEMMA Room ==
  ASSUME IInv
  PROVE  /\ IsFiniteSet(free) /\ IsFiniteSet(inflight) /\ IsFiniteSet(Active) /\ IsFiniteSet(Out)
         /\ Cardinality(free) \in Nat /\ Cardinality(inflight) \in Nat
         /\ Cardinality(Active) \in Nat /\ Cardinality(Out) \in Nat
         /\ Dist(seen, avail_idx) \in Nat /\ Dist(used_idx, uidx) \in Nat
         /\ 3 * Cardinality(Active) <= NUM /\ Cardinality(Out) <= Cardinality(Active)
         /\ \A p \in Active \ Out : Cardinality(Out) + 1 <= Cardinality(Active)
  <1>1. IsFiniteSet(free) /\ IsFiniteSet(inflight)
    BY Constants, FS_Subset, Zenon DEF IInv, TypeOK
  <1>2. IsFiniteSet(Active) /\ IsFiniteSet(Out) /\ Cardinality(Out) <= Cardinality(Active)
    BY Types, FS_Subset, Zenon DEF IInv, CountInv
  <1>3. /\ Cardinality(free) \in Nat /\ Cardinality(inflight) \in Nat
        /\ Cardinality(Active) \in Nat /\ Cardinality(Out) \in Nat
    BY <1>1, <1>2, FS_CardinalityType, Zenon
  <1>4. Dist(seen, avail_idx) \in Nat /\ Dist(used_idx, uidx) \in Nat
    BY Types, Distances, Zenon
  <1>5. 3 * Cardinality(Active) <= NUM
    BY <1>3, Constants DEF IInv, CountInv
  <1>6. ASSUME NEW p \in Active \ Out PROVE Cardinality(Out) + 1 <= Cardinality(Active)
    <2>1. Out \subseteq Active /\ Out # Active
      BY <1>6, Types, Zenon
    <2>2. Cardinality(Out) # Cardinality(Active)
      BY <1>2, <2>1, FS_Subset, Zenon
    <2>3. QED
      BY <1>2, <1>3, <2>2
  <1>7. QED
    BY <1>1, <1>2, <1>3, <1>4, <1>5, <1>6, Zenon

\* What the counts become when a request moves on.
LEMMA Sums ==
  ASSUME IInv
  PROVE  /\ (Dist(seen, avail_idx) + 1) + Cardinality(inflight) + Dist(used_idx, uidx) = Cardinality(Out) + 1
         /\ (Dist(seen, avail_idx) - 1) + (Cardinality(inflight) + 1) + Dist(used_idx, uidx) = Cardinality(Out)
         /\ Dist(seen, avail_idx) + (Cardinality(inflight) - 1) + (Dist(used_idx, uidx) + 1) = Cardinality(Out)
         /\ Dist(seen, avail_idx) + Cardinality(inflight) + (Dist(used_idx, uidx) - 1) = Cardinality(Out) - 1
         /\ (Cardinality(free) - 3) + 3 * (Cardinality(Active) + 1) = NUM
         /\ (Cardinality(free) + 3) + 3 * (Cardinality(Active) - 1) = NUM
         /\ Cardinality(Out) + 1 <= Cardinality(Active) => Dist(seen, avail_idx) + 1 < NUM
         /\ Cardinality(inflight) > 0 => Dist(used_idx, uidx) + 1 < NUM
  <1>1. PICK s \in Nat, i \in Nat, u \in Nat, o \in Nat, f \in Nat, a \in Nat :
             /\ s = Dist(seen, avail_idx) /\ i = Cardinality(inflight) /\ u = Dist(used_idx, uidx)
             /\ o = Cardinality(Out) /\ f = Cardinality(free) /\ a = Cardinality(Active)
    BY Room, Zenon
  <1>2. s + i + u = o /\ f + 3 * a = NUM
    BY <1>1, Zenon DEF IInv, CountInv
  <1>3. o <= a
    BY <1>1, Room, Zenon
  <1>4. NUM \in Nat /\ NUM >= 3
    BY Constants, Zenon
  <1>5. /\ (s + 1) + i + u = o + 1 /\ (s - 1) + (i + 1) + u = o
        /\ s + (i - 1) + (u + 1) = o /\ s + i + (u - 1) = o - 1
        /\ (f - 3) + 3 * (a + 1) = NUM /\ (f + 3) + 3 * (a - 1) = NUM
    BY <1>2, <1>4
  <1>6. (o + 1 <= a => s + 1 < NUM) /\ (i > 0 => u + 1 < NUM)
    BY <1>2, <1>3, <1>4
  <1>7. QED
    BY <1>1, <1>5, <1>6, Zenon

\* Steps that change nothing of the requests change nothing of their chains.
LEMMA ChainsSame ==
  ASSUME IInv, Active' = Active, UNCHANGED <<free, desc, ops, head>>,
         \A p \in Active : info'[head[p]].b = info[head[p]].b /\ blk'[p] = blk[p] /\ write'[p] = write[p]
  PROVE  ChainInv'
  <1>1. \A p \in Active : Second(p)' = Second(p) /\ Third(p)' = Third(p) /\ Chain3(p)' = Chain3(p) /\ head'[p] = head[p]
    BY Zenon DEF Chain3, Third, Second
  <1>2. ChainInv
    BY Zenon DEF IInv
  <1>3. desc' = desc /\ free' = free /\ ops' = ops
    BY Zenon
  <1>4. QED
    BY <1>1, <1>2, <1>3 DEF ChainInv

\* A step that leaves descriptors, rings and requests alone.
LEMMA KeepInv ==
  ASSUME IInv, TypeOK', ProcInv', WakeInv', Active' = Active, Out' = Out,
         \A p \in Active : blk'[p] = blk[p] /\ write'[p] = write[p],
         UNCHANGED <<free, desc, ops, info, avail, avail_idx, used, uidx, used_idx, seen, inflight, head, panicked>>
  PROVE  IInv'
  <1>1. Shapes' /\ ~panicked'
    BY Zenon DEF IInv, Shapes
  <1>2. ChainInv'
    BY ChainsSame, Zenon
  <1>3. CountInv'
    BY ZenonT(60) DEF IInv, CountInv, Dist, Gap
  <1>4. RingInv'
    BY DEF IInv, RingInv, Window, Dist, Gap
  <1>5. QED
    BY <1>1, <1>2, <1>3, <1>4, Zenon DEF IInv

\* A call, of a process that is in none.
LEMMA CallInv ==
  ASSUME IInv, NEW p \in Procs, NEW k \in Blocks, NEW w \in BOOLEAN, NEW v \in Vals, call(p, k, w, v)
  PROVE  IInv'
  <1>0. /\ pc[p] = "idle"
        /\ UNCHANGED <<free, desc, ops, info, avail, avail_idx, used, uidx, used_idx, seen, inflight, head, panicked>>
        /\ UNCHANGED <<disk, lock, raised, bdisk>>
    BY Zenon DEF call, driver, device
  <1>1. /\ pc' \in [Procs -> {"idle", "alloc", "nodesc", "publish", "asleep", "wait"}] /\ pc'[p] = "alloc"
        /\ blk' \in [Procs -> Blocks \cup {NoBlock}] /\ blk'[p] = k
        /\ write' \in [Procs -> BOOLEAN] /\ write'[p] = w
        /\ data' \in [Procs -> Vals \cup {NoData}] /\ data'[p] = IF w THEN v ELSE NoData
    BY Zenon DEF call, Goto, IInv, TypeOK
  <1>2. \A q \in Procs : q # p => pc'[q] = pc[q] /\ blk'[q] = blk[q] /\ write'[q] = write[q] /\ data'[q] = data[q]
    BY Zenon DEF call, Goto, IInv, TypeOK
  <1>3. Active' = Active /\ Out' = Out
    BY <1>0, <1>1, <1>2, Zenon DEF Active, Out
  <1>4. \A q \in Active : q # p
    BY <1>0, Zenon DEF Active
  <1>5. TypeOK'
    BY <1>0, <1>1, ZenonT(60) DEF IInv, TypeOK
  <1>6. ProcInv'
    BY <1>0, <1>1, <1>2 DEF IInv, ProcInv
  <1>7. WakeInv'
    BY <1>0, <1>1, <1>2, Zenon DEF IInv, WakeInv
  <1>8. QED
    BY <1>0, <1>2, <1>3, <1>4, <1>5, <1>6, <1>7, Types, KeepInv, ZenonT(60)

\* Only where the processes are changes, and every one stays where it was or
\* moves within its part of the driver.
LEMMA MoveInv ==
  ASSUME IInv, WakeInv',
         pc' \in [Procs -> {"idle", "alloc", "nodesc", "publish", "asleep", "wait"}],
         \A q \in Procs : \/ pc'[q] = pc[q]
                          \/ {pc[q], pc'[q]} = {"alloc", "nodesc"}
                          \/ pc[q] = "asleep" /\ pc'[q] = "wait"
                          \/ pc[q] = "wait" /\ bdisk[q] /\ pc'[q] = "asleep",
         UNCHANGED <<driver, device, request, data, used_idx, lock, head, bdisk, panicked>>, raised' \in BOOLEAN
  PROVE  IInv'
  <1>0. /\ UNCHANGED <<free, desc, ops, info, avail, avail_idx, used, uidx, used_idx, seen, inflight, head, panicked>>
        /\ UNCHANGED <<disk, lock, bdisk, blk, write, data>>
    BY Zenon DEF driver, device, request
  <1>1. \A q \in Procs : \/ pc'[q] = pc[q]
                         \/ pc[q] \in {"alloc", "nodesc"} /\ pc'[q] \in {"alloc", "nodesc"}
                         \/ pc[q] = "asleep" /\ pc'[q] = "wait"
                         \/ pc[q] = "wait" /\ bdisk[q] /\ pc'[q] = "asleep"
    BY Zenon
  <1>2. Active' = Active /\ Out' = Out
    BY <1>0, <1>1, Zenon DEF Active, Out
  <1>3. TypeOK'
    BY <1>0, Zenon DEF IInv, TypeOK
  <1>4. ProcInv'
    BY <1>0, <1>1, ZenonT(60) DEF IInv, ProcInv
  <1>5. QED
    BY <1>0, <1>2, <1>3, <1>4, KeepInv, ZenonT(60)

\* alloc3_desc() gives up.
LEMMA Alloc3DescInv ==
  ASSUME IInv, NEW p \in Procs, alloc3_desc(p)
  PROVE  IInv'
  <1>0. /\ pc[p] = "alloc" /\ Cardinality(free) < 3 /\ raised \in BOOLEAN
        /\ UNCHANGED <<driver, device, request, data, used_idx, lock, raised, head, bdisk, panicked>>
    BY Zenon DEF alloc3_desc, IInv, TypeOK
  <1>1. /\ pc' \in [Procs -> {"idle", "alloc", "nodesc", "publish", "asleep", "wait"}]
        /\ \A q \in Procs : \/ pc'[q] = pc[q]
                            \/ pc[q] = "nodesc" /\ pc'[q] = "alloc"
                            \/ pc[q] = "alloc" /\ pc'[q] = "nodesc"
    <2>1. pc \in [Procs -> {"idle", "alloc", "nodesc", "publish", "asleep", "wait"}]
      BY Zenon DEF IInv, TypeOK
    <2>2. /\ WakeFree(pc) \in [Procs -> {"idle", "alloc", "nodesc", "publish", "asleep", "wait"}]
          /\ \A q \in Procs : WakeFree(pc)[q] = pc[q] \/ (pc[q] = "nodesc" /\ WakeFree(pc)[q] = "alloc")
          /\ WakeFree(pc)[p] = "alloc"
      BY <1>0, <2>1, Zenon DEF WakeFree
    <2>3. pc' = [pc EXCEPT ![p] = "nodesc"] \/ pc' = [WakeFree(pc) EXCEPT ![p] = "nodesc"]
      BY Zenon DEF alloc3_desc
    <2>4. QED
      BY <1>0, <2>1, <2>2, <2>3, ZenonT(60)
  <1>2. WakeInv'
    BY <1>0, Zenon DEF IInv, WakeInv, driver, device
  <1>3. \A q \in Procs : \/ pc'[q] = pc[q]
                         \/ {pc[q], pc'[q]} = {"alloc", "nodesc"}
                         \/ pc[q] = "asleep" /\ pc'[q] = "wait"
    BY <1>1, Zenon
  <1>4. QED
    BY <1>0, <1>1, <1>2, <1>3, MoveInv, Zenon

\* kill() wakes a process.
LEMMA KillInv ==
  ASSUME IInv, NEW p \in Procs, kill(p)
  PROVE  IInv'
  <1>0. /\ pc[p] \in {"nodesc", "asleep"} /\ raised \in BOOLEAN
        /\ UNCHANGED <<driver, device, request, data, used_idx, lock, raised, head, bdisk, panicked>>
    BY Zenon DEF kill, IInv, TypeOK
  <1>1. /\ pc' \in [Procs -> {"idle", "alloc", "nodesc", "publish", "asleep", "wait"}]
        /\ pc'[p] = IF pc[p] = "asleep" THEN "wait" ELSE "alloc"
        /\ \A q \in Procs : q # p => pc'[q] = pc[q]
    BY <1>0, Zenon DEF kill, Goto, IInv, TypeOK
  <1>2. WakeInv'
    BY <1>0, <1>1, Zenon DEF IInv, WakeInv, driver, device
  <1>3. \A q \in Procs : \/ pc'[q] = pc[q]
                         \/ {pc[q], pc'[q]} = {"alloc", "nodesc"}
                         \/ pc[q] = "asleep" /\ pc'[q] = "wait"
    BY <1>0, <1>1, Zenon
  <1>4. QED
    BY <1>0, <1>1, <1>2, <1>3, MoveInv, Zenon

\* The handler enters, sees an empty ring, or leaves.
LEMMA HandlerInv ==
  ASSUME IInv, intr_enter \/ intr_done \/ intr_leave
  PROVE  IInv'
  <1>0. /\ UNCHANGED <<free, desc, ops, info, avail, avail_idx, used, uidx, used_idx, seen, inflight, head, panicked>>
        /\ UNCHANGED <<disk, blk, write, data, pc, bdisk>>
    BY Zenon DEF intr_enter, intr_done, intr_leave, driver, device, request
  <1>1. /\ lock \in {Nobody, Intr, Leaving} /\ lock' \in {Nobody, Intr, Leaving}
        /\ raised' \in BOOLEAN
        /\ \/ lock' = Intr
           \/ used_idx = uidx
           \/ lock = Leaving /\ raised' = raised
    BY Zenon DEF intr_enter, intr_done, intr_leave, IInv, TypeOK
  <1>2. Active' = Active /\ Out' = Out
    BY <1>0, Zenon DEF Active, Out
  <1>3. TypeOK'
    BY <1>0, <1>1, Zenon DEF IInv, TypeOK
  <1>4. ProcInv'
    BY <1>0, <1>1, Constants, ZenonT(60) DEF IInv, ProcInv
  <1>5. WakeInv'
    BY <1>0, <1>1, Constants DEF IInv, WakeInv
  <1>6. QED
    BY <1>0, <1>2, <1>3, <1>4, <1>5, KeepInv, Zenon

\* Three descriptors fewer are free.
LEMMA ThreeFewer ==
  ASSUME NEW S, IsFiniteSet(S), NEW x \in S, NEW y \in S, NEW z \in S, x # y, y # z, z # x
  PROVE  Cardinality(S \ {x, y, z}) = Cardinality(S) - 3
  <1>0. Cardinality(S) \in Nat
    BY FS_CardinalityType, Zenon
  <1>1. IsFiniteSet(S \ {x}) /\ Cardinality(S \ {x}) = Cardinality(S) - 1
    BY FS_RemoveElement, Zenon
  <1>2. y \in S \ {x} /\ z \in (S \ {x}) \ {y} /\ S \ {x, y, z} = ((S \ {x}) \ {y}) \ {z}
    BY Zenon
  <1>3. IsFiniteSet((S \ {x}) \ {y}) /\ Cardinality((S \ {x}) \ {y}) = Cardinality(S) - 1 - 1
    BY <1>1, <1>2, FS_RemoveElement, Zenon
  <1>4. Cardinality(((S \ {x}) \ {y}) \ {z}) = Cardinality(S) - 1 - 1 - 1
    BY <1>2, <1>3, FS_RemoveElement
  <1>5. QED
    BY <1>0, <1>2, <1>4

\* Three descriptors more are free.
LEMMA ThreeMore ==
  ASSUME NEW S, IsFiniteSet(S), NEW x, NEW y, NEW z, x # y, y # z, z # x, x \notin S, y \notin S, z \notin S
  PROVE  Cardinality(S \cup {x, y, z}) = Cardinality(S) + 3
  <1>0. Cardinality(S) \in Nat
    BY FS_CardinalityType, Zenon
  <1>1. IsFiniteSet(S \cup {x}) /\ Cardinality(S \cup {x}) = Cardinality(S) + 1
    BY FS_AddElement, Zenon
  <1>2. y \notin S \cup {x} /\ z \notin (S \cup {x}) \cup {y} /\ S \cup {x, y, z} = ((S \cup {x}) \cup {y}) \cup {z}
    BY Zenon
  <1>3. IsFiniteSet((S \cup {x}) \cup {y}) /\ Cardinality((S \cup {x}) \cup {y}) = Cardinality(S) + 1 + 1
    BY <1>1, <1>2, FS_AddElement, Zenon
  <1>4. Cardinality(((S \cup {x}) \cup {y}) \cup {z}) = Cardinality(S) + 1 + 1 + 1
    BY <1>2, <1>3, FS_AddElement, Zenon
  <1>5. QED
    BY <1>0, <1>2, <1>4

\* Heads of different requests differ, and none is free.
LEMMA Heads ==
  ASSUME IInv
  PROVE  /\ \A p, q \in Active : head[p] = head[q] => p = q
         /\ \A p \in Active : head[p] \in Descs \ free /\ Second(p) \in Descs \ free /\ Third(p) \in Descs \ free
  <1>1. \A p \in Active : head[p] \in Chain3(p) /\ Second(p) \in Chain3(p) /\ Third(p) \in Chain3(p)
    BY Zenon DEF Chain3
  <1>2. /\ \A p, q \in Active : p # q => Chain3(p) \cap Chain3(q) = {}
        /\ \A p \in Active : Chain3(p) \cap free = {}
    BY Zenon DEF IInv, ChainInv
  <1>3. \A p \in Active : head[p] \in Descs /\ Second(p) \in Descs /\ Third(p) \in Descs
    BY Types, Zenon
  <1>4. \A p, q \in Active : head[p] = head[q] => p = q
    BY <1>1, <1>2, Zenon
  <1>5. \A p \in Active : head[p] \in Descs \ free /\ Second(p) \in Descs \ free /\ Third(p) \in Descs \ free
    BY <1>1, <1>2, <1>3, Zenon
  <1>6. QED
    BY <1>4, <1>5, Zenon

\* virtio_disk_rw() of p formats the chain h, m, t.
Formats(p, h, m, t) ==
  /\ {h, m, t} \subseteq free /\ h # m /\ m # t /\ t # h /\ free' = free \ {h, m, t} /\ Shapes'
  /\ desc'[h] = [addr |-> "op", more |-> TRUE, next |-> m]
  /\ desc'[m] = [addr |-> p, more |-> TRUE, next |-> t]
  /\ desc'[t] = [addr |-> "status", more |-> FALSE, next |-> 0]
  /\ \A d \in Descs : d \notin {h, m, t} => desc'[d] = desc[d]
  /\ ops'[h] = [write |-> write[p], blk |-> blk[p]] /\ info'[h] = [b |-> p, ok |-> FALSE]
  /\ \A d \in Descs : d # h => ops'[d] = ops[d] /\ info'[d] = info[d]
  /\ head' \in [Procs -> Descs] /\ head'[p] = h /\ \A q \in Procs : q # p => head'[q] = head[q]
  /\ avail' \in [Descs -> Descs] /\ avail'[avail_idx % NUM] = h
  /\ \A d \in Descs : d # avail_idx % NUM => avail'[d] = avail[d]
  /\ bdisk' \in [Procs -> BOOLEAN] /\ bdisk'[p] /\ \A q \in Procs : q # p => bdisk'[q] = bdisk[q]
  /\ pc' \in [Procs -> {"idle", "alloc", "nodesc", "publish", "asleep", "wait"}]
  /\ pc'[p] = "publish" /\ \A q \in Procs : q # p => pc'[q] = pc[q]
  /\ UNCHANGED <<avail_idx, disk, used, uidx, seen, inflight, blk, write, data, used_idx, raised, panicked>>

\* That preserves the invariant.
LEMMA FormatInv ==
  ASSUME IInv, NEW p \in Procs, pc[p] = "alloc", lock = Nobody, lock' = p,
         NEW h, NEW m, NEW t, Formats(p, h, m, t)
  PROVE  IInv'
  <1>0. h \in Descs /\ m \in Descs /\ t \in Descs /\ p # Nobody
    BY Constants, ZenonT(60) DEF IInv, TypeOK, Formats
  <1>1. Active' = Active \cup {p} /\ Out' = Out /\ p \notin Active
    BY DEF Active, Out, Formats
  <1>2. \A q \in Active : /\ q # p /\ head'[q] = head[q] /\ Second(q)' = Second(q) /\ Third(q)' = Third(q)
                          /\ Chain3(q)' = Chain3(q) /\ Chain3(q) \subseteq Descs \ free
    <2> TAKE q \in Active
    <2>1. /\ q # p /\ head'[q] = head[q] /\ head[q] \in Descs \ free
          /\ Second(q) \in Descs \ free /\ Third(q) \in Descs \ free
      BY <1>1, Types, Heads, ZenonT(60) DEF Formats
    <2>2. Second(q)' = Second(q)
      BY <2>1 DEF Second, Formats
    <2>3. Third(q)' = Third(q)
      BY <2>1, <2>2, SMT DEF Third, Formats
    <2>4. QED
      BY <2>1, <2>2, <2>3, Zenon DEF Chain3
  <1>3. \A q \in Active : /\ info'[head[q]] = info[head[q]] /\ ops'[head[q]] = ops[head[q]]
                          /\ desc'[head[q]] = desc[head[q]] /\ desc'[Second(q)] = desc[Second(q)]
                          /\ desc'[Third(q)] = desc[Third(q)]
    BY Heads DEF Formats
  <1>4. TypeOK' /\ ~panicked'
    <2>1. \A d \in Descs : desc'[d].next \in Descs /\ desc'[d].more \in BOOLEAN
      BY Zenon DEF Shapes, Formats
    <2>2. \A d \in Descs : info'[d].b \in Procs \cup {Nobody} /\ info'[d].ok \in BOOLEAN
      BY Zenon DEF Shapes, Formats
    <2>3. QED
      BY <2>1, <2>2, Zenon DEF IInv, TypeOK, Formats
  <1>5. ChainInv'
    <2>1. /\ Second(p)' = m /\ Third(p)' = t /\ Chain3(p)' = {h, m, t}
          /\ desc'[h].more /\ desc'[m].more /\ ~desc'[t].more /\ desc'[m].addr = p /\ info'[h].b = p
      BY DEF Second, Third, Chain3, Formats
    <2>2. \A q \in Active' : /\ desc'[head'[q]].more /\ desc'[Second(q)'].more /\ ~desc'[Third(q)'].more
                             /\ head'[q] # Second(q)' /\ Second(q)' # Third(q)' /\ Third(q)' # head'[q]
                             /\ Chain3(q)' \cap free' = {}
                             /\ desc'[Second(q)'].addr = q /\ info'[head'[q]].b = q
                             /\ ops'[head'[q]] = [write |-> write[q], blk |-> blk[q]]
      <3> TAKE q \in Active'
      <3>1. CASE q = p
        BY <2>1, <3>1, ZenonT(60) DEF Formats
      <3>2. CASE q # p
        <4>1. q \in Active
          BY <1>1, <3>2, Zenon
        <4>2. /\ desc[head[q]].more /\ desc[Second(q)].more /\ ~desc[Third(q)].more
              /\ head[q] # Second(q) /\ Second(q) # Third(q) /\ Third(q) # head[q]
              /\ Chain3(q) \cap free = {} /\ desc[Second(q)].addr = q /\ info[head[q]].b = q
              /\ ops[head[q]] = [write |-> write[q], blk |-> blk[q]]
          BY <4>1, Zenon DEF IInv, ChainInv
        <4>3. free' \subseteq free
          BY Zenon DEF Formats
        <4>4. QED
          BY <1>2, <1>3, <4>1, <4>2, <4>3
      <3>3. QED
        BY <3>1, <3>2, ZenonT(60)
    <2>3. \A q, r \in Active' : q # r => Chain3(q)' \cap Chain3(r)' = {}
      <3>1. \A q, r \in Active : q # r => Chain3(q) \cap Chain3(r) = {}
        BY Zenon DEF IInv, ChainInv
      <3>2. \A q \in Active : Chain3(q)' = Chain3(q) /\ Chain3(q) \cap {h, m, t} = {}
        BY <1>2, ZenonT(60) DEF Formats
      <3>3. QED
        BY <1>1, <2>1, <3>1, <3>2
    <2>4. QED
      BY <2>2, <2>3, ZenonT(60) DEF ChainInv, Formats
  <1>6. ProcInv'
    <2>1. \A q \in Procs \ {p} : pc[q] \in {"publish", "wait"} => q \in Active
      BY Zenon DEF Active
    <2>2. \A q \in Procs : pc[q] # "publish" /\ q # Nobody
      BY Constants, Zenon DEF IInv, ProcInv
    <2>3. \A q \in Procs : pc'[q] = "publish" <=> lock' = q
      BY <2>2 DEF Formats
    <2>4. \A q \in Procs : pc'[q] = "publish" => avail'[avail_idx % NUM] = head'[q] /\ bdisk'[q] /\ ~info'[head'[q]].ok
      <3>1. head'[p] = h /\ avail'[avail_idx % NUM] = h /\ bdisk'[p] /\ info'[h] = [b |-> p, ok |-> FALSE]
        BY Zenon DEF Formats
      <3>2. ~info'[h].ok
        BY <3>1
      <3>3. \A q \in Procs : q # p => pc'[q] = pc[q]
        BY Zenon DEF Formats
      <3>4. QED
        BY <2>2, <3>1, <3>2, <3>3, Zenon
    <2>5. \A q \in Procs : /\ pc'[q] = "asleep" => bdisk'[q]
                           /\ pc'[q] \in {"idle", "alloc", "nodesc"} => ~bdisk'[q]
                           /\ pc'[q] # "idle" => blk[q] \in Blocks /\ (write[q] => data[q] \in Vals)
      <3>1. \A q \in Procs : /\ pc[q] = "asleep" => bdisk[q]
                             /\ pc[q] \in {"idle", "alloc", "nodesc"} => ~bdisk[q]
                             /\ pc[q] # "idle" => blk[q] \in Blocks /\ (write[q] => data[q] \in Vals)
        BY Zenon DEF IInv, ProcInv
      <3>2. pc'[p] = "publish" /\ \A q \in Procs : q # p => pc'[q] = pc[q] /\ bdisk'[q] = bdisk[q]
        BY Zenon DEF Formats
      <3>3. QED
        BY <3>1, <3>2, Zenon
    <2>6. \A q \in Procs : pc'[q] = "wait" /\ ~bdisk'[q] => info'[head'[q]].ok
      <3>1. \A q \in Procs : pc[q] = "wait" /\ ~bdisk[q] => info[head[q]].ok
        BY Zenon DEF IInv, ProcInv
      <3>2. pc'[p] = "publish" /\ \A q \in Procs : q # p => pc'[q] = pc[q] /\ bdisk'[q] = bdisk[q]
        BY Zenon DEF Formats
      <3>3. \A q \in Active : head'[q] = head[q] /\ info'[head[q]] = info[head[q]]
        BY <1>2, <1>3, Zenon
      <3>4. QED
        BY <2>1, <3>1, <3>2, <3>3, ZenonT(60)
    <2>7. QED
      BY <2>3, <2>4, <2>5, <2>6, Zenon DEF ProcInv, Formats
  <1>7. Cardinality(free') = Cardinality(free) - 3
    <2>1. {h, m, t} \subseteq free /\ IsFiniteSet(free)
      BY Room, Zenon DEF Formats
    <2>2. Cardinality(free \ {h, m, t}) = Cardinality(free) - 3
      BY <2>1, ThreeFewer, ZenonT(60) DEF Formats
    <2>3. QED
      BY <2>2, Zenon DEF Formats
  <1>8. CountInv'
    <2>1. IsFiniteSet(Active') /\ Cardinality(Active') = Cardinality(Active) + 1
      BY <1>1, Room, FS_AddElement, Zenon
    <2>2. Cardinality(free') + 3 * Cardinality(Active') = NUM
      BY <1>7, <2>1, Sums, ZenonT(60)
    <2>3. QED
      BY <1>1, <2>1, <2>2, Zenon DEF IInv, CountInv, Dist, Gap, Formats
  <1>9. RingInv'
    <2>1. Window(seen, avail_idx)' = Window(seen, avail_idx) /\ Window(used_idx, uidx)' = Window(used_idx, uidx)
      BY Zenon DEF Window, Dist, Gap, Formats
    <2>2. \A d \in Window(seen, avail_idx) : avail'[d] = avail[d]
      <3>1. avail_idx % NUM \notin Window(seen, avail_idx) /\ Window(seen, avail_idx) \subseteq Descs
        BY Types, WindowEnd, ZenonT(60) DEF IInv, CountInv
      <3>2. QED
        BY <3>1, Zenon DEF Formats
    <2>3. \A q \in Out : head'[q] = head[q] /\ info'[head'[q]] = info[head[q]]
      <3>1. Out \subseteq Active /\ \A q \in Active : head'[q] = head[q]
        BY <1>2, Types, Zenon
      <3>2. \A q \in Active : info'[head[q]] = info[head[q]]
        BY <1>3, ZenonT(60)
      <3>3. QED
        BY <3>1, <3>2, Zenon
    <2>4. QED
      <3>1. RingInv /\ used' = used /\ inflight' = inflight
        BY Zenon DEF IInv, Formats
      <3>2. Out' = Out
        BY <1>1, Zenon
      <3>3. QED
        BY <2>1, <2>2, <2>3, <3>1, <3>2 DEF RingInv
  <1>10. WakeInv'
    <2>1. Cardinality(free) < 3 => Cardinality(free') < 3
      BY <1>7, Room
    <2>2. QED
      BY <2>1, Constants DEF IInv, WakeInv, Formats
  <1>11. QED
    BY <1>4, <1>5, <1>6, <1>8, <1>9, <1>10, ZenonT(60) DEF IInv, Formats

\* virtio_disk_rw() gets its three descriptors.
LEMMA RwInv ==
  ASSUME IInv, NEW p \in Procs, virtio_disk_rw(p)
  PROVE  IInv'
  <1>0. /\ pc[p] = "alloc" /\ lock = Nobody /\ lock' = p
        /\ UNCHANGED <<avail_idx, disk, used, uidx, seen, inflight, blk, write, data, used_idx, raised, panicked>>
    BY Zenon DEF virtio_disk_rw, device, request
  <1>1. PICK i \in [0..2 -> Descs] :
             /\ Lowest3(i)
             /\ free' = Take({i[0], i[1], i[2]})
             /\ desc' = [desc EXCEPT
                           ![i[0]] = [addr |-> "op", more |-> TRUE, next |-> i[1]],
                           ![i[1]] = [addr |-> p, more |-> TRUE, next |-> i[2]],
                           ![i[2]] = [addr |-> "status", more |-> FALSE, next |-> 0]]
             /\ ops' = [ops EXCEPT ![i[0]] = [write |-> write[p], blk |-> blk[p]]]
             /\ info' = [info EXCEPT ![i[0]] = [b |-> p, ok |-> FALSE]]
             /\ head' = [head EXCEPT ![p] = i[0]]
             /\ avail' = [avail EXCEPT ![avail_idx % NUM] = i[0]]
    BY ZenonT(60) DEF virtio_disk_rw
  <1> DEFINE h == i[0]  m == i[1]  t == i[2]
  <1>2. /\ h \in free /\ m \in free /\ t \in free /\ h \in Descs /\ m \in Descs /\ t \in Descs
        /\ h # m /\ m # t /\ t # h /\ free' = free \ {h, m, t}
    BY <1>1 DEF Lowest3, Take, Descs
  <1>3. /\ desc' = [desc EXCEPT ![h] = [addr |-> "op", more |-> TRUE, next |-> m],
                                ![m] = [addr |-> p, more |-> TRUE, next |-> t],
                                ![t] = [addr |-> "status", more |-> FALSE, next |-> 0]]
        /\ ops' = [ops EXCEPT ![h] = [write |-> write[p], blk |-> blk[p]]]
        /\ info' = [info EXCEPT ![h] = [b |-> p, ok |-> FALSE]]
        /\ head' = [head EXCEPT ![p] = h] /\ avail' = [avail EXCEPT ![avail_idx % NUM] = h]
    BY <1>1, Zenon
  <1> HIDE DEF h, m, t
  <1>4. /\ desc \in [Descs -> [addr : {"none", "op", "status"} \cup Procs, more : BOOLEAN, next : Descs]]
        /\ info \in [Descs -> [b : Procs \cup {Nobody}, ok : BOOLEAN]]
        /\ ops \in [Descs -> [write : BOOLEAN, blk : Blocks] \cup {NoReq}]
        /\ write[p] \in BOOLEAN /\ blk[p] \in Blocks
    BY <1>0, Zenon DEF IInv, TypeOK, Shapes, ProcInv
  <1>5. /\ desc' \in [Descs -> [addr : {"none", "op", "status"} \cup Procs, more : BOOLEAN, next : Descs]]
        /\ desc'[h] = [addr |-> "op", more |-> TRUE, next |-> m]
        /\ desc'[m] = [addr |-> p, more |-> TRUE, next |-> t]
        /\ desc'[t] = [addr |-> "status", more |-> FALSE, next |-> 0]
        /\ \A d \in Descs : d \notin {h, m, t} => desc'[d] = desc[d]
    BY <1>2, <1>3, <1>4, Constants, Zenon
  <1>6. /\ info' \in [Descs -> [b : Procs \cup {Nobody}, ok : BOOLEAN]] /\ info'[h] = [b |-> p, ok |-> FALSE]
        /\ ops'[h] = [write |-> write[p], blk |-> blk[p]]
        /\ \A d \in Descs : d # h => ops'[d] = ops[d] /\ info'[d] = info[d]
        /\ ops' \in [Descs -> [write : BOOLEAN, blk : Blocks] \cup {NoReq}]
    BY <1>2, <1>3, <1>4, Zenon
  <1>7. Shapes'
    BY <1>5, <1>6, Zenon DEF Shapes
  <1>8. /\ head' \in [Procs -> Descs] /\ head'[p] = h /\ \A q \in Procs : q # p => head'[q] = head[q]
        /\ avail' \in [Descs -> Descs] /\ avail'[avail_idx % NUM] = h
        /\ \A d \in Descs : d # avail_idx % NUM => avail'[d] = avail[d]
    BY <1>2, <1>3, Types, Bumped, ZenonT(60) DEF IInv, TypeOK
  <1>9. /\ bdisk' \in [Procs -> BOOLEAN] /\ bdisk'[p] /\ \A q \in Procs : q # p => bdisk'[q] = bdisk[q]
        /\ pc' \in [Procs -> {"idle", "alloc", "nodesc", "publish", "asleep", "wait"}]
        /\ pc'[p] = "publish" /\ \A q \in Procs : q # p => pc'[q] = pc[q]
    BY DEF virtio_disk_rw, Goto, IInv, TypeOK
  <1>10. Formats(p, h, m, t)
    <2>1. {h, m, t} \subseteq free
      BY <1>2, Zenon
    <2>2. QED
      BY <1>0, <1>2, <1>5, <1>6, <1>7, <1>8, <1>9, <2>1, ZenonT(60) DEF Formats
  <1>11. QED
    BY <1>0, <1>10, FormatInv, Zenon

\* The request is published.
LEMMA NotifyInv ==
  ASSUME IInv, NEW p \in Procs, notify(p)
  PROVE  IInv'
  <1>0. /\ pc[p] = "publish" /\ avail_idx' = Bump(avail_idx) /\ lock' = Nobody
        /\ UNCHANGED <<free, desc, ops, info, avail, disk, used, uidx, seen, inflight>>
        /\ UNCHANGED <<blk, write, data, used_idx, raised, head, bdisk, panicked>>
    BY Zenon DEF notify, device, request
  <1>1. /\ pc' \in [Procs -> {"idle", "alloc", "nodesc", "publish", "asleep", "wait"}]
        /\ pc'[p] = "asleep" /\ \A q \in Procs \ {p} : pc'[q] = pc[q]
    BY Zenon DEF notify, Goto, IInv, TypeOK
  <1>2. /\ lock = p /\ bdisk[p] /\ avail[avail_idx % NUM] = head[p] /\ ~info[head[p]].ok
        /\ \A q \in Procs \ {p} : pc[q] # "publish"
    BY <1>0, Zenon DEF IInv, ProcInv
  <1>3. Active' = Active /\ p \in Active
    BY <1>0, <1>1, Zenon DEF Active
  <1>4. Out' = Out \cup {p} /\ p \notin Out
    BY <1>0, <1>1, <1>2, Zenon DEF Out
  <1>5. TypeOK' /\ ~panicked' /\ Shapes'
    BY <1>0, <1>1, Types, Bumped, ZenonT(60) DEF IInv, TypeOK, Shapes
  <1>6. ChainInv'
    BY <1>0, <1>3, ChainsSame, Zenon
  <1>7. ProcInv'
    BY <1>0, <1>1, <1>2, Constants, ZenonT(60) DEF IInv, ProcInv
  <1>8. /\ Dist(seen, avail_idx') = Dist(seen, avail_idx) + 1
        /\ Gap(seen % NUM, avail_idx' % NUM) = Dist(seen, avail_idx')
        /\ Window(seen, avail_idx') = Window(seen, avail_idx) \cup {avail_idx % NUM}
    <2>1. Cardinality(Out) + 1 <= Cardinality(Active)
      BY <1>3, <1>4, Room, Zenon
    <2>2. Dist(seen, avail_idx) + 1 < NUM
      BY <2>1, Sums, Zenon
    <2>3. QED
      BY <1>0, <2>2, Types, WindowPush, Zenon DEF IInv, CountInv
  <1>9. CountInv'
    <2>1. Cardinality(Out') = Cardinality(Out) + 1
      BY <1>4, Room, FS_AddElement, Zenon
    <2>2. /\ Dist(seen, avail_idx)' = Dist(seen, avail_idx) + 1 /\ Dist(used_idx, uidx)' = Dist(used_idx, uidx)
          /\ Gap(seen % NUM, avail_idx % NUM)' = Dist(seen, avail_idx)'
          /\ Gap(used_idx % NUM, uidx % NUM)' = Gap(used_idx % NUM, uidx % NUM)
      BY <1>0, <1>8, ZenonT(60) DEF Dist, Gap
    <2>3. Dist(seen, avail_idx)' + Cardinality(inflight') + Dist(used_idx, uidx)' = Cardinality(Out')
      <3>1. inflight' = inflight
        BY <1>0, ZenonT(60)
      <3>2. QED
        BY <2>1, <2>2, <3>1, Sums
    <2>4. QED
      BY <1>0, <1>3, <2>2, <2>3, Zenon DEF IInv, CountInv
  <1>10. RingInv'
    <2>1. /\ Window(seen, avail_idx)' = Window(seen, avail_idx) \cup {avail_idx % NUM}
          /\ Window(used_idx, uidx)' = Window(used_idx, uidx)
      BY <1>0, <1>8, Zenon DEF Window, Dist, Gap
    <2>2. \A q \in Out : q # p /\ head[q] # head[p]
      BY <1>3, <1>4, Types, Heads, ZenonT(60)
    <2>3. \A h \in inflight : h # head[p]
      <3>1. \A h \in inflight : \E q \in Out : h = head[q]
        BY ZenonT(60) DEF IInv, RingInv
      <3>2. QED
        BY <2>2, <3>1, Zenon
    <2>4. \A d \in Window(seen, avail_idx) : avail[d] # head[p]
      <3>1. \A d \in Window(seen, avail_idx) :
              avail[d] \notin inflight /\ \E q \in Out : avail[d] = head[q] /\ ~info[head[q]].ok
        BY Zenon DEF IInv, RingInv
      <3>2. QED
        BY <2>2, <3>1, Zenon
    <2>5. \A d \in Window(seen, avail_idx)' :
            avail[d] \notin inflight /\ \E q \in Out' : avail[d] = head[q] /\ ~info[head[q]].ok
      BY <1>2, <1>4, <2>1, <2>3, ZenonT(60) DEF IInv, RingInv
    <2>6. \A d, e \in Window(seen, avail_idx)' : avail[d] = avail[e] => d = e
      BY <1>2, <2>1, <2>4 DEF IInv, RingInv
    <2>7. QED
      BY <1>0, <1>2, <1>4, <2>1, <2>5, <2>6 DEF IInv, RingInv
  <1>11. WakeInv'
    BY <1>0, <1>1, <1>2, Constants, Zenon DEF IInv, WakeInv
  <1>12. QED
    BY <1>5, <1>6, <1>7, <1>9, <1>10, <1>11, Zenon DEF IInv

\* The device takes a request.
LEMMA DeviceTakeInv ==
  ASSUME IInv, device_take
  PROVE  IInv'
  <1>0. /\ seen # avail_idx /\ seen' = Bump(seen) /\ inflight' = inflight \cup {avail[seen % NUM]}
        /\ UNCHANGED <<free, desc, ops, info, avail_idx, disk, used, uidx, blk, write, data>>
        /\ UNCHANGED <<used_idx, lock, raised, pc, head, bdisk, panicked>>
    BY Zenon DEF device_take, request
  <1>1. /\ avail' \in [Descs -> Descs] /\ avail[seen % NUM] \in Descs
        /\ \A d \in Descs : d # seen % NUM => avail'[d] = avail[d]
    BY Types, Bumped, Constants, Zenon DEF device_take, IInv, TypeOK
  <1>2. Active' = Active /\ Out' = Out
    BY <1>0, Zenon DEF Active, Out
  <1>3. /\ Dist(seen', avail_idx) = Dist(seen, avail_idx) - 1
        /\ Gap(seen' % NUM, avail_idx % NUM) = Dist(seen', avail_idx)
        /\ seen % NUM \in Window(seen, avail_idx)
        /\ Window(seen', avail_idx) = Window(seen, avail_idx) \ {seen % NUM}
        /\ avail_idx % NUM \notin Window(seen, avail_idx) /\ Window(seen, avail_idx) \subseteq Descs
    BY <1>0, Types, WindowPop, WindowEnd, Zenon DEF IInv, CountInv
  <1>4. TypeOK' /\ ~panicked' /\ Shapes'
    BY <1>0, <1>1, Types, Bumped, ZenonT(60) DEF IInv, TypeOK, Shapes
  <1>5. ChainInv'
    BY <1>0, <1>2, ChainsSame, Zenon
  <1>6. ProcInv'
    <2>1. avail'[avail_idx % NUM] = avail[avail_idx % NUM]
      BY <1>1, <1>3, Types, Bumped, Zenon
    <2>2. QED
      BY <1>0, <2>1, Zenon DEF IInv, ProcInv
  <1>7. CountInv'
    <2>1. Cardinality(inflight') = Cardinality(inflight) + 1
      <3>1. avail[seen % NUM] \notin inflight
        BY <1>3, Zenon DEF IInv, RingInv
      <3>2. QED
        BY <1>0, <3>1, Room, FS_AddElement, Zenon
    <2>2. /\ Dist(seen, avail_idx)' = Dist(seen, avail_idx) - 1 /\ Dist(used_idx, uidx)' = Dist(used_idx, uidx)
          /\ Gap(seen % NUM, avail_idx % NUM)' = Dist(seen, avail_idx)'
          /\ Gap(used_idx % NUM, uidx % NUM)' = Gap(used_idx % NUM, uidx % NUM)
      BY <1>0, <1>3, Zenon DEF Dist, Gap
    <2>3. Dist(seen, avail_idx)' + Cardinality(inflight') + Dist(used_idx, uidx)' = Cardinality(Out')
      BY <1>2, <2>1, <2>2, Sums, ZenonT(60)
    <2>4. QED
      BY <1>0, <1>2, <2>2, <2>3, Zenon DEF IInv, CountInv
  <1>8. RingInv'
    <2>1. /\ Window(seen, avail_idx)' = Window(seen, avail_idx) \ {seen % NUM}
          /\ Window(used_idx, uidx)' = Window(used_idx, uidx)
      BY <1>0, <1>3, Zenon DEF Window, Dist, Gap
    <2>2. \A d \in Window(seen, avail_idx)' : avail'[d] = avail[d] /\ avail[d] # avail[seen % NUM]
      BY <1>1, <1>3, <2>1, ZenonT(60) DEF IInv, RingInv
    <2>3. \A d \in Window(seen, avail_idx)' :
            avail'[d] \notin inflight' /\ \E q \in Out : avail'[d] = head[q] /\ ~info[head[q]].ok
      <3>1. \A d \in Window(seen, avail_idx) :
              avail[d] \notin inflight /\ \E q \in Out : avail[d] = head[q] /\ ~info[head[q]].ok
        BY Zenon DEF IInv, RingInv
      <3>2. SUFFICES ASSUME NEW d \in Window(seen, avail_idx)'
                     PROVE  avail'[d] \notin inflight' /\ \E q \in Out : avail'[d] = head[q] /\ ~info[head[q]].ok
        BY Zenon
      <3>3. d \in Window(seen, avail_idx) /\ avail'[d] = avail[d] /\ avail[d] # avail[seen % NUM]
        BY <2>1, <2>2, Zenon
      <3>4. avail[d] \notin inflight'
        BY <1>0, <3>1, <3>3, ZenonT(60)
      <3>5. QED
        BY <3>1, <3>3, <3>4, Zenon
    <2>4. \A h \in inflight' : \E q \in Out : h = head[q] /\ ~info[head[q]].ok
      BY <1>0, <1>3 DEF IInv, RingInv
    <2>5. \A d, e \in Window(seen, avail_idx)' : avail'[d] = avail'[e] => d = e
      BY <2>1, <2>2, ZenonT(60) DEF IInv, RingInv
    <2>6. QED
      BY <1>0, <1>2, <2>1, <2>3, <2>4, <2>5 DEF IInv, RingInv
  <1>9. WakeInv'
    BY <1>0, Zenon DEF IInv, WakeInv
  <1>10. QED
    BY <1>4, <1>5, <1>6, <1>7, <1>8, <1>9, Zenon DEF IInv
=============================================================================
