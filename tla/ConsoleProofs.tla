---------------------------- MODULE ConsoleProofs ---------------------------
(***************************************************************************)
(* Proofs about Console, for every set of readers, every size of the       *)
(* buffer and every width of its indices: IInv is inductive, implies       *)
(* NeverJams, and makes every step one of LineBuffer.                      *)
(***************************************************************************)
EXTENDS Console, SequenceTheorems, TLAPS

\* Where readers are; one that reads still wants a character.
ReaderInv ==
  /\ me \in [Readers -> [pc : {"idle", "acquire", "loop", "sleep", "gone"}, n : 0..MAXREAD, target : 0..MAXREAD]]
  /\ \A p \in Readers : me[p].pc \in {"acquire", "loop", "sleep"} => me[p].n >= 1

\* The indices are in order and not too far apart, and a full buffer has
\* something to read.
IndexInv ==
  /\ Distance(r, w) + Distance(w, e) = Distance(r, e)
  /\ Distance(r, e) <= INPUT_BUF
  /\ Distance(r, e) = INPUT_BUF => r # w

\* The line that is being edited has no end in it.
LineInv == \A k \in 0..Distance(w, e) - 1 : buf[Slot(Plus(w, k))] \notin {"nl", "eof"}

IInv == TypeOK /\ ReaderInv /\ IndexInv /\ LineInv
-----------------------------------------------------------------------------
(* Unsigned indices.                                                       *)

\* What the constants are.
LEMMA Constants ==
  /\ INPUT_BUF \in Nat \ {0} /\ WRAP \in Nat \ {0} /\ WRAP > INPUT_BUF /\ MAXREAD \in Nat \ {0}
  /\ WRAP % INPUT_BUF = 0
  BY ConsoleAssumption, Zenon

\* A multiple of M other than 0 is at least M away from 0.
LEMMA Multiples ==
  ASSUME NEW M \in Nat \ {0}, NEW d \in Int, d # 0
  PROVE  M * d >= M \/ M * d <= -M
  <1>1. CASE d >= 1
    <2>1. M * (d - 1) >= 0
      BY <1>1
    <2>2. M * d = M * (d - 1) + M
      OBVIOUS
    <2>3. QED
      BY <2>1, <2>2
  <1>2. CASE d <= -1
    <2>1. M * (-1 - d) >= 0
      BY <1>2
    <2>2. M * d = -(M * (-1 - d)) - M
      OBVIOUS
    <2>3. QED
      BY <2>1, <2>2
  <1>3. QED
    BY <1>1, <1>2

\* Quotient and remainder.
LEMMA Remainder ==
  ASSUME NEW M \in Nat \ {0}, NEW x \in Int
  PROVE  x % M \in 0..M - 1 /\ x = M * (x \div M) + (x % M) /\ x \div M \in Int
  OBVIOUS

\* x % WRAP for the numbers that the console computes with.
LEMMA Unsigned ==
  ASSUME NEW x \in -WRAP..2 * WRAP - 1
  PROVE  x % WRAP \in 0..WRAP - 1 /\ (x % WRAP = x \/ x % WRAP = x + WRAP \/ x % WRAP = x - WRAP)
  <1> DEFINE t == x \div WRAP  u == x % WRAP
  <1>1. t \in Int /\ u \in 0..WRAP - 1 /\ x = WRAP * t + u
    BY Remainder, Constants
  <1> HIDE DEF t, u
  <1>2. t <= 1
    <2>1. SUFFICES ASSUME t > 1 PROVE FALSE
      BY <1>1
    <2>2. WRAP * (t - 2) >= 0 /\ WRAP * t = WRAP * (t - 2) + 2 * WRAP
      BY <1>1, <2>1, Constants
    <2>3. QED
      BY <1>1, <2>2, Constants
  <1>3. t >= -1
    <2>1. SUFFICES ASSUME t < -1 PROVE FALSE
      BY <1>1
    <2>2. WRAP * (-2 - t) >= 0 /\ WRAP * t = -(WRAP * (-2 - t)) - 2 * WRAP
      BY <1>1, <2>1, Constants
    <2>3. QED
      BY <1>1, <2>2, Constants
  <1>4. t = -1 \/ t = 0 \/ t = 1
    BY <1>1, <1>2, <1>3
  <1>5. WRAP * t = -WRAP \/ WRAP * t = 0 \/ WRAP * t = WRAP
    BY <1>4, Constants
  <1>6. QED
    BY <1>1, <1>5, Constants DEF u

\* Differences of indices.
LEMMA Distances ==
  ASSUME NEW i \in Index, NEW j \in Index
  PROVE  /\ Distance(i, j) \in 0..WRAP - 1
         /\ Distance(i, j) = j - i \/ Distance(i, j) = j - i + WRAP
         /\ Distance(i, j) = 0 <=> i = j
  <1>1. i \in 0..WRAP - 1 /\ j \in 0..WRAP - 1
    BY Zenon DEF Index
  <1>2. PICK x \in -WRAP..2 * WRAP - 1 : x = j - i
    BY <1>1, Constants
  <1>3. Distance(i, j) = x % WRAP
    BY <1>2, Zenon DEF Distance
  <1>4. Distance(i, j) \in 0..WRAP - 1 /\ (Distance(i, j) = x \/ Distance(i, j) = x + WRAP \/ Distance(i, j) = x - WRAP)
    BY <1>3, Unsigned, Zenon
  <1>5. QED
    BY <1>1, <1>2, <1>4, Constants

\* Sums of an index and a number.
LEMMA Sums ==
  ASSUME NEW i \in Index, NEW k \in -WRAP..WRAP
  PROVE  /\ Plus(i, k) \in 0..WRAP - 1
         /\ Plus(i, k) = i + k \/ Plus(i, k) = i + k + WRAP \/ Plus(i, k) = i + k - WRAP
  <1>1. i \in 0..WRAP - 1
    BY Zenon DEF Index
  <1>2. PICK x \in -WRAP..2 * WRAP - 1 : x = i + k
    BY <1>1, Constants
  <1>3. Plus(i, k) = x % WRAP
    BY <1>2, Zenon DEF Plus
  <1>4. Plus(i, k) \in 0..WRAP - 1 /\ (Plus(i, k) = x \/ Plus(i, k) = x + WRAP \/ Plus(i, k) = x - WRAP)
    BY <1>3, Unsigned, Zenon
  <1>5. QED
    BY <1>1, <1>2, <1>4, Constants

\* How distances move with an index.
LEMMA Moves ==
  ASSUME NEW i \in Index, NEW j \in Index
  PROVE  /\ Bump(i) \in Index
         /\ Distance(i, j) < WRAP - 1 => Distance(i, Bump(j)) = Distance(i, j) + 1
         /\ i # j => Distance(Bump(i), j) = Distance(i, j) - 1
  <1>0. i \in 0..WRAP - 1 /\ j \in 0..WRAP - 1 /\ WRAP \in Nat /\ 1 \in -WRAP..WRAP
    BY Constants DEF Index
  <1>1. Distance(i, j) \in 0..WRAP - 1 /\ (Distance(i, j) = j - i \/ Distance(i, j) = j - i + WRAP)
    BY Distances, Zenon
  <1>2. PICK x \in 0..WRAP - 1 : x = Bump(j) /\ (x = j + 1 \/ x = j + 1 + WRAP \/ x = j + 1 - WRAP)
    BY <1>0, Sums, Zenon DEF Bump
  <1>3. PICK y \in 0..WRAP - 1 : y = Bump(i) /\ (y = i + 1 \/ y = i + 1 + WRAP \/ y = i + 1 - WRAP)
    BY <1>0, Sums, Zenon DEF Bump
  <1>4. Distance(i, x) \in 0..WRAP - 1 /\ (Distance(i, x) = x - i \/ Distance(i, x) = x - i + WRAP)
    BY <1>2, Distances, Zenon DEF Index
  <1>5. Distance(y, j) \in 0..WRAP - 1 /\ (Distance(y, j) = j - y \/ Distance(y, j) = j - y + WRAP)
    BY <1>3, Distances, Zenon DEF Index
  <1>6. Distance(i, j) < WRAP - 1 => Distance(i, x) = Distance(i, j) + 1
    BY <1>0, <1>1, <1>2, <1>4
  <1>7. i # j => Distance(y, j) = Distance(i, j) - 1
    BY <1>0, <1>1, <1>3, <1>5
  <1>8. QED
    BY <1>2, <1>3, <1>6, <1>7, Zenon DEF Index

\* Going back.
LEMMA Back ==
  ASSUME NEW i \in Index, NEW j \in Index, NEW k \in 0..Distance(i, j)
  PROVE  /\ Plus(j, -k) \in Index
         /\ Distance(i, Plus(j, -k)) = Distance(i, j) - k
         /\ Plus(j, -k) = i <=> k = Distance(i, j)
  <1>0. i \in 0..WRAP - 1 /\ j \in 0..WRAP - 1 /\ WRAP \in Nat
    BY Constants, Zenon DEF Index
  <1>1. Distance(i, j) \in 0..WRAP - 1 /\ (Distance(i, j) = j - i \/ Distance(i, j) = j - i + WRAP)
    BY Distances, Zenon
  <1>2. PICK m \in -WRAP..WRAP : m = -k /\ k \in 0..WRAP - 1
    BY <1>0, <1>1
  <1>3. PICK x \in 0..WRAP - 1 : x = Plus(j, m) /\ (x = j + m \/ x = j + m + WRAP \/ x = j + m - WRAP)
    BY Sums, Zenon
  <1>4. /\ Distance(i, x) \in 0..WRAP - 1 /\ (Distance(i, x) = x - i \/ Distance(i, x) = x - i + WRAP)
        /\ Distance(i, x) = 0 <=> i = x
    BY <1>3, Distances, Zenon DEF Index
  <1>5. Distance(i, x) = Distance(i, j) - k
    BY <1>0, <1>1, <1>2, <1>3, <1>4
  <1>6. x = i <=> k = Distance(i, j)
    BY <1>1, <1>2, <1>4, <1>5
  <1>7. x = Plus(j, -k)
    BY <1>2, <1>3, Zenon
  <1>8. QED
    BY <1>5, <1>6, <1>7, Zenon DEF Index

\* Adding in two steps.
LEMMA Adds ==
  ASSUME NEW i \in Index, NEW a \in 0..WRAP - 1, NEW b \in 0..WRAP - 1, a + b < WRAP
  PROVE  Plus(i, a) \in Index /\ Plus(Plus(i, a), b) = Plus(i, a + b)
  <1>0. /\ i \in 0..WRAP - 1 /\ a \in -WRAP..WRAP /\ b \in -WRAP..WRAP /\ WRAP \in Nat
    BY Constants DEF Index
  <1>1. PICK c \in -WRAP..WRAP : c = a + b
    BY <1>0
  <1>2. PICK x \in 0..WRAP - 1 : x = Plus(i, a) /\ (x = i + a \/ x = i + a + WRAP \/ x = i + a - WRAP)
    BY <1>0, Sums, Zenon
  <1>3. PICK y \in 0..WRAP - 1 : y = Plus(x, b) /\ (y = x + b \/ y = x + b + WRAP \/ y = x + b - WRAP)
    BY <1>0, <1>2, Sums, ZenonT(60) DEF Index
  <1>4. PICK z \in 0..WRAP - 1 : z = Plus(i, c) /\ (z = i + c \/ z = i + c + WRAP \/ z = i + c - WRAP)
    BY Sums, Zenon
  <1>5. y = z
    BY <1>0, <1>1, <1>2, <1>3, <1>4
  <1>6. QED
    BY <1>1, <1>2, <1>3, <1>4, <1>5, Zenon DEF Index

\* The way from one index to another.
LEMMA Reaches ==
  ASSUME NEW i \in Index, NEW j \in Index
  PROVE  Plus(i, Distance(i, j)) = j
  <1>0. i \in 0..WRAP - 1 /\ j \in 0..WRAP - 1 /\ WRAP \in Nat
    BY Constants, Zenon DEF Index
  <1>1. PICK d \in 0..WRAP - 1 : d = Distance(i, j) /\ (d = j - i \/ d = j - i + WRAP)
    BY Distances, Zenon
  <1>2. d \in -WRAP..WRAP
    BY <1>0
  <1>3. PICK x \in 0..WRAP - 1 : x = Plus(i, d) /\ (x = i + d \/ x = i + d + WRAP \/ x = i + d - WRAP)
    BY <1>2, Sums, Zenon
  <1>4. x = j
    BY <1>0, <1>1, <1>3
  <1>5. QED
    BY <1>1, <1>3, <1>4, Zenon

\* Places in the buffer.
LEMMA Slots ==
  ASSUME NEW i \in Index
  PROVE  Slot(i) \in 0..INPUT_BUF - 1
  BY Remainder, Constants DEF Slot, Index

\* Indices less than INPUT_BUF apart have different places.
LEMMA SlotsDiffer ==
  ASSUME NEW i \in Index, NEW d \in 1..INPUT_BUF - 1
  PROVE  Slot(Plus(i, d)) # Slot(i)
  <1>0. i \in 0..WRAP - 1 /\ d \in -WRAP..WRAP /\ d \in Int
    BY Constants DEF Index
  <1>1. Plus(i, d) = i + d \/ Plus(i, d) = i + d - WRAP
    <2>1. PICK x \in 0..WRAP - 1 : x = Plus(i, d) /\ (x = i + d \/ x = i + d + WRAP \/ x = i + d - WRAP)
      BY <1>0, Sums, Zenon
    <2>2. x = i + d \/ x = i + d - WRAP
      BY <1>0, <2>1, Constants
    <2>3. QED
      BY <2>1, <2>2, Zenon
  <1> DEFINE a == WRAP \div INPUT_BUF  c == i \div INPUT_BUF  f == Plus(i, d) \div INPUT_BUF
  <1>2. a \in Int /\ WRAP = INPUT_BUF * a
    BY Remainder, Constants
  <1>3. c \in Int /\ i = INPUT_BUF * c + Slot(i) /\ Slot(i) \in Int
    BY Remainder, Constants DEF Slot, Index
  <1>4. f \in Int /\ Plus(i, d) = INPUT_BUF * f + Slot(Plus(i, d)) /\ Slot(Plus(i, d)) \in Int
    <2>1. PICK y \in Int : y = Plus(i, d)
      BY <1>0, <1>1, Constants
    <2>2. y % INPUT_BUF \in Int /\ y = INPUT_BUF * (y \div INPUT_BUF) + (y % INPUT_BUF) /\ y \div INPUT_BUF \in Int
      BY Remainder, Constants
    <2>3. QED
      BY <2>1, <2>2, Zenon DEF Slot
  <1> HIDE DEF a, c, f
  <1>5. SUFFICES ASSUME Slot(Plus(i, d)) = Slot(i) PROVE FALSE
    BY Zenon
  <1>6. ASSUME NEW x \in Int, d = INPUT_BUF * x PROVE FALSE
    <2>1. x # 0
      BY <1>0, <1>6, Constants
    <2>2. QED
      BY <1>6, <2>1, Multiples, Constants
  <1>7. INPUT_BUF * f - INPUT_BUF * c = INPUT_BUF * (f - c) /\ f - c \in Int
    BY <1>3, <1>4, Constants
  <1>8. INPUT_BUF * (f - c) + INPUT_BUF * a = INPUT_BUF * (f - c + a) /\ f - c + a \in Int
    BY <1>2, <1>7, Constants
  <1>9. CASE Plus(i, d) = i + d
    <2>1. d = INPUT_BUF * (f - c)
      BY <1>0, <1>3, <1>4, <1>5, <1>7, <1>9, Constants
    <2>2. QED
      BY <1>6, <1>7, <2>1, Zenon
  <1>10. CASE Plus(i, d) = i + d - WRAP
    <2>1. d = INPUT_BUF * (f - c + a)
      BY <1>0, <1>2, <1>3, <1>4, <1>5, <1>7, <1>8, <1>10, Constants
    <2>2. QED
      BY <1>6, <1>8, <2>1, Zenon
  <1>11. QED
    BY <1>1, <1>9, <1>10, Zenon
-----------------------------------------------------------------------------
(* The invariant.                                                          *)

\* Where the indices are.
LEMMA Facts ==
  ASSUME IInv
  PROVE  /\ r \in Index /\ w \in Index /\ e \in Index /\ buf \in [0..INPUT_BUF - 1 -> Chars]
         /\ Distance(r, w) \in 0..INPUT_BUF /\ Distance(w, e) \in 0..INPUT_BUF /\ Distance(r, e) \in 0..INPUT_BUF
         /\ Distance(r, w) + Distance(w, e) = Distance(r, e)
  <1>1. r \in Index /\ w \in Index /\ e \in Index /\ buf \in [0..INPUT_BUF - 1 -> Chars]
    BY Zenon DEF IInv, TypeOK
  <1>2. Distance(r, w) \in 0..WRAP - 1 /\ Distance(w, e) \in 0..WRAP - 1 /\ Distance(r, e) \in 0..WRAP - 1
    BY <1>1, Distances, Zenon
  <1>3. QED
    BY <1>1, <1>2, Constants DEF IInv, IndexInv

\* A character that is in the buffer is not where the next one goes.
LEMMA CellKept ==
  ASSUME NEW i \in Index, NEW j \in Index, Distance(i, j) < INPUT_BUF, NEW k \in 0..Distance(i, j) - 1
  PROVE  /\ Slot(Plus(i, k)) # Slot(j) /\ Slot(Plus(i, k)) \in 0..INPUT_BUF - 1
         /\ Slot(j) \in 0..INPUT_BUF - 1
  <1>1. PICK d \in 0..WRAP - 1 : d = Distance(i, j)
    BY Distances, Zenon
  <1>2. /\ k \in 0..WRAP - 1 /\ d - k \in 0..WRAP - 1 /\ k + (d - k) = d /\ d < WRAP
        /\ d - k \in 1..INPUT_BUF - 1
    BY <1>1, Constants
  <1>3. Plus(i, k) \in Index /\ Plus(Plus(i, k), d - k) = Plus(i, d)
    BY <1>2, Adds
  <1>4. Plus(i, d) = j
    BY <1>1, Reaches, Zenon
  <1>5. QED
    BY <1>2, <1>3, <1>4, SlotsDiffer, Slots, Zenon

\* A reader moves on.
LEMMA GoInv ==
  ASSUME ReaderInv, NEW p \in Readers,
         NEW x \in [pc : {"idle", "acquire", "loop", "sleep", "gone"}, n : 0..MAXREAD, target : 0..MAXREAD],
         x.pc \in {"acquire", "loop", "sleep"} => x.n >= 1, Go(p, x)
  PROVE  ReaderInv'
  <1>1. me' = [me EXCEPT ![p] = x]
    BY Zenon DEF Go
  <1>2. /\ me' \in [Readers -> [pc : {"idle", "acquire", "loop", "sleep", "gone"}, n : 0..MAXREAD, target : 0..MAXREAD]]
        /\ me'[p] = x /\ \A q \in Readers : q # p => me'[q] = me[q]
    BY <1>1, Zenon DEF ReaderInv
  <1>3. QED
    BY <1>2, Zenon DEF ReaderInv

\* Steps that leave the buffer and its indices alone.
LEMMA KeepInv ==
  ASSUME IInv, ReaderInv', UNCHANGED <<buf, r, w, e>>, lock' \in Readers \cup {Nobody}, killed' \subseteq Readers
  PROVE  IInv'
  <1>1. TypeOK'
    <2>1. \A p \in Readers : /\ me'[p].pc \in {"idle", "acquire", "loop", "sleep", "gone"}
                             /\ me'[p].n \in 0..MAXREAD /\ me'[p].target \in 0..MAXREAD
      BY Zenon DEF ReaderInv
    <2>2. QED
      BY <2>1, Zenon DEF IInv, TypeOK
  <1>2. IndexInv'
    BY Zenon DEF IInv, IndexInv, Distance
  <1>3. LineInv'
    BY Zenon DEF IInv, LineInv, Distance, Slot, Plus
  <1>4. QED
    BY <1>1, <1>2, <1>3, Zenon DEF IInv

\* Initially.
LEMMA InitInv ==
  ASSUME Init
  PROVE  IInv
  <1>1. r \in Index /\ w \in Index /\ e \in Index /\ r = w /\ w = e
    BY Constants DEF Init, Index
  <1>2. Distance(r, w) = 0 /\ Distance(w, e) = 0 /\ Distance(r, e) = 0
    BY <1>1, Distances, Zenon
  <1>3. Idle \in [pc : {"idle", "acquire", "loop", "sleep", "gone"}, n : 0..MAXREAD, target : 0..MAXREAD] /\ Idle.pc = "idle"
    BY Constants DEF Idle
  <1>4. ReaderInv
    BY <1>3, Zenon DEF Init, ReaderInv
  <1>5. TypeOK
    <2>1. \A p \in Readers : /\ me[p].pc \in {"idle", "acquire", "loop", "sleep", "gone"}
                             /\ me[p].n \in 0..MAXREAD /\ me[p].target \in 0..MAXREAD
      BY <1>4, Zenon DEF ReaderInv
    <2>2. buf \in [0..INPUT_BUF - 1 -> Chars]
      BY Zenon DEF Init, Chars
    <2>3. QED
      BY <1>1, <2>1, <2>2, Zenon DEF TypeOK, Init
  <1>6. IndexInv /\ LineInv
    BY <1>2, Constants DEF IndexInv, LineInv
  <1>7. QED
    BY <1>4, <1>5, <1>6, Zenon DEF IInv

\* What a reader's record looks like.
LEMMA Records ==
  ASSUME IInv, NEW p \in Readers
  PROVE  /\ me[p] \in [pc : {"idle", "acquire", "loop", "sleep", "gone"}, n : 0..MAXREAD, target : 0..MAXREAD]
         /\ Idle \in [pc : {"idle", "acquire", "loop", "sleep", "gone"}, n : 0..MAXREAD, target : 0..MAXREAD]
         /\ Gone \in [pc : {"idle", "acquire", "loop", "sleep", "gone"}, n : 0..MAXREAD, target : 0..MAXREAD]
         /\ Idle.pc = "idle" /\ Gone.pc = "gone"
         /\ \A s \in {"acquire", "loop", "sleep"} :
              LET x == [me[p] EXCEPT !.pc = s]
              IN  /\ x \in [pc : {"idle", "acquire", "loop", "sleep", "gone"}, n : 0..MAXREAD, target : 0..MAXREAD]
                  /\ x.n = me[p].n
  <1>1. me[p] \in [pc : {"idle", "acquire", "loop", "sleep", "gone"}, n : 0..MAXREAD, target : 0..MAXREAD]
    BY Zenon DEF IInv, ReaderInv
  <1>2. /\ Idle \in [pc : {"idle", "acquire", "loop", "sleep", "gone"}, n : 0..MAXREAD, target : 0..MAXREAD]
        /\ Idle.pc = "idle"
    BY Constants DEF Idle
  <1>3. /\ Gone \in [pc : {"idle", "acquire", "loop", "sleep", "gone"}, n : 0..MAXREAD, target : 0..MAXREAD]
        /\ Gone.pc = "gone"
    BY <1>2, Zenon DEF Gone
  <1>4. QED
    BY <1>1, <1>2, <1>3, Zenon

\* read(), the lock, sleep and kill().
LEMMA ReaderSteps ==
  ASSUME IInv, NEW p \in Readers, (\E m \in 1..MAXREAD : read(p, m)) \/ acquire(p) \/ wait(p) \/ kill(p)
  PROVE  IInv'
  <1>0. /\ lock \in Readers \cup {Nobody} /\ killed \subseteq Readers /\ Killable \subseteq Readers /\ ReaderInv
        /\ me[p].pc \in {"acquire", "loop", "sleep"} => me[p].n >= 1
    BY ConsoleAssumption, Zenon DEF IInv, TypeOK, ReaderInv
  <1>1. ASSUME NEW m \in 1..MAXREAD, read(p, m) PROVE IInv'
    <2>1. PICK x : x = [pc |-> "acquire", n |-> m, target |-> m]
      BY Zenon
    <2>2. /\ x \in [pc : {"idle", "acquire", "loop", "sleep", "gone"}, n : 0..MAXREAD, target : 0..MAXREAD]
          /\ x.n >= 1
      BY <2>1, Constants
    <2>3. Go(p, x) /\ UNCHANGED <<buf, r, w, e, lock, killed>>
      BY <1>1, <2>1, Zenon DEF read, cons
    <2>4. ReaderInv'
      BY <1>0, <2>2, <2>3, GoInv, Zenon
    <2>5. QED
      BY <1>0, <2>3, <2>4, KeepInv, Zenon
  <1>2. ASSUME acquire(p) PROVE IInv'
    <2>1. PICK x : x = [me[p] EXCEPT !.pc = "loop"]
      BY Zenon
    <2>2. /\ x \in [pc : {"idle", "acquire", "loop", "sleep", "gone"}, n : 0..MAXREAD, target : 0..MAXREAD]
          /\ x.n >= 1
      BY <1>0, <1>2, <2>1, Records, Zenon DEF acquire
    <2>3. Go(p, x) /\ UNCHANGED <<buf, r, w, e, killed>> /\ lock' = p
      BY <1>2, <2>1, Zenon DEF acquire
    <2>4. ReaderInv'
      BY <1>0, <2>2, <2>3, GoInv, Zenon
    <2>5. QED
      BY <1>0, <2>3, <2>4, KeepInv, Zenon
  <1>3. ASSUME wait(p) PROVE IInv'
    <2>1. PICK x : x = IF p \in killed THEN Gone ELSE [me[p] EXCEPT !.pc = "sleep"]
      BY Zenon
    <2>2. /\ x \in [pc : {"idle", "acquire", "loop", "sleep", "gone"}, n : 0..MAXREAD, target : 0..MAXREAD]
          /\ x.pc \in {"acquire", "loop", "sleep"} => x.n >= 1
      BY <1>0, <1>3, <2>1, Records, Zenon DEF wait
    <2>3. Go(p, x) /\ UNCHANGED <<buf, r, w, e, killed>> /\ lock' = Nobody
      BY <1>3, <2>1, Zenon DEF wait
    <2>4. ReaderInv'
      BY <1>0, <2>2, <2>3, GoInv, Zenon
    <2>5. QED
      BY <1>0, <2>3, <2>4, KeepInv, Zenon
  <1>4. ASSUME kill(p) PROVE IInv'
    <2>1. PICK x : x = IF me[p].pc = "sleep" THEN [me[p] EXCEPT !.pc = "acquire"]
                       ELSE IF me[p].pc = "idle" THEN Gone ELSE me[p]
      BY Zenon
    <2>2. /\ x \in [pc : {"idle", "acquire", "loop", "sleep", "gone"}, n : 0..MAXREAD, target : 0..MAXREAD]
          /\ x.pc \in {"acquire", "loop", "sleep"} => x.n >= 1
      BY <1>0, <2>1, Records, ZenonT(60)
    <2>3. Go(p, x) /\ UNCHANGED <<buf, r, w, e, lock>> /\ killed' = killed \cup {p}
      BY <1>4, <2>1, Zenon DEF kill, cons
    <2>4. ReaderInv'
      BY <1>0, <2>2, <2>3, GoInv, Zenon
    <2>5. QED
      BY <1>0, <2>3, <2>4, KeepInv, Zenon
  <1>5. QED
    BY <1>1, <1>2, <1>3, <1>4, Zenon

\* The end of the line that EndsLine looks for: the buffer is full.
LEMMA FullIs ==
  ASSUME NEW i \in Index, NEW j \in Index
  PROVE  j = Plus(i, INPUT_BUF) <=> Distance(i, j) = INPUT_BUF
  <1>1. Distance(i, j) = INPUT_BUF => j = Plus(i, INPUT_BUF)
    BY Reaches, Zenon
  <1>2. ASSUME j = Plus(i, INPUT_BUF) PROVE Distance(i, j) = INPUT_BUF
    <2>0. i \in 0..WRAP - 1 /\ j \in 0..WRAP - 1 /\ WRAP \in Nat /\ INPUT_BUF \in -WRAP..WRAP
      BY Constants DEF Index
    <2>1. j = i + INPUT_BUF \/ j = i + INPUT_BUF + WRAP \/ j = i + INPUT_BUF - WRAP
      BY <1>2, <2>0, Sums, Zenon
    <2>2. Distance(i, j) \in 0..WRAP - 1 /\ (Distance(i, j) = j - i \/ Distance(i, j) = j - i + WRAP)
      BY Distances, Zenon
    <2>3. QED
      BY <2>0, <2>1, <2>2, Constants
  <1>3. QED
    BY <1>1, <1>2, Zenon

\* consoleintr() makes room for one character more.
LEMMA Longer ==
  ASSUME IInv, Room
  PROVE  /\ Bump(e) \in Index
         /\ Distance(r, Bump(e)) = Distance(r, e) + 1 /\ Distance(w, Bump(e)) = Distance(w, e) + 1
         /\ Distance(r, e) < INPUT_BUF /\ Distance(w, e) < INPUT_BUF
         /\ Bump(e) = Plus(r, INPUT_BUF) <=> Distance(r, e) = INPUT_BUF - 1
  <1>1. /\ r \in Index /\ w \in Index /\ e \in Index
        /\ Distance(r, e) \in 0..INPUT_BUF - 1 /\ Distance(w, e) \in 0..INPUT_BUF - 1
    BY Facts, Constants DEF Room
  <1>2. Distance(r, e) < WRAP - 1 /\ Distance(w, e) < WRAP - 1
    BY <1>1, Constants
  <1>3. /\ Bump(e) \in Index
        /\ Distance(r, Bump(e)) = Distance(r, e) + 1 /\ Distance(w, Bump(e)) = Distance(w, e) + 1
    BY <1>1, <1>2, Moves, Zenon
  <1>4. Bump(e) = Plus(r, INPUT_BUF) <=> Distance(r, Bump(e)) = INPUT_BUF
    BY <1>1, <1>3, FullIs, Zenon
  <1>5. QED
    BY <1>1, <1>3, <1>4, Constants

\* A character is typed.
LEMMA TypedInv ==
  ASSUME IInv, NEW c \in Chars, consoleintr(c)
  PROVE  IInv'
  <1>0. /\ Room /\ buf' = [buf EXCEPT ![Slot(e)] = c] /\ e' = Bump(e)
        /\ (w' = Bump(e) /\ EndsLine(c, Bump(e)) /\ me' = WakeReaders) \/
           (w' = w /\ ~EndsLine(c, Bump(e)) /\ me' = me)
        /\ UNCHANGED <<r, lock, killed>>
    BY Zenon DEF consoleintr
  <1>1. /\ r \in Index /\ w \in Index /\ e \in Index /\ buf \in [0..INPUT_BUF - 1 -> Chars]
        /\ Distance(r, w) \in 0..INPUT_BUF /\ Distance(w, e) \in 0..INPUT_BUF /\ Distance(r, e) \in 0..INPUT_BUF
        /\ Distance(r, w) + Distance(w, e) = Distance(r, e)
    BY Facts, Zenon
  <1>2. /\ Bump(e) \in Index
        /\ Distance(r, Bump(e)) = Distance(r, e) + 1 /\ Distance(w, Bump(e)) = Distance(w, e) + 1
        /\ Distance(r, e) < INPUT_BUF /\ Distance(w, e) < INPUT_BUF
        /\ Bump(e) = Plus(r, INPUT_BUF) <=> Distance(r, e) = INPUT_BUF - 1
    BY <1>0, Longer, Zenon
  <1>3. ReaderInv'
    <2>1. CASE me' = me
      BY <2>1, Zenon DEF IInv, ReaderInv
    <2>2. CASE me' = WakeReaders
      <3>1. ASSUME NEW q \in Readers
            PROVE  /\ me'[q] \in [pc : {"idle", "acquire", "loop", "sleep", "gone"}, n : 0..MAXREAD, target : 0..MAXREAD]
                   /\ me'[q].pc \in {"acquire", "loop", "sleep"} => me'[q].n >= 1
        <4>1. me'[q] = IF me[q].pc = "sleep" THEN [me[q] EXCEPT !.pc = "acquire"] ELSE me[q]
          BY <2>2, Zenon DEF WakeReaders
        <4>2. me[q].pc \in {"acquire", "loop", "sleep"} => me[q].n >= 1
          BY Zenon DEF IInv, ReaderInv
        <4>3. QED
          BY <4>1, <4>2, Records, ZenonT(20), ZenonT(60)
      <3>2. me' = [q \in Readers |-> me'[q]]
        BY <2>2, Zenon DEF WakeReaders
      <3>3. QED
        BY <3>1, <3>2, Zenon DEF ReaderInv
    <2>3. QED
      BY <1>0, <2>1, <2>2, Zenon
  <1>4. TypeOK'
    <2>1. \A p \in Readers : /\ me'[p].pc \in {"idle", "acquire", "loop", "sleep", "gone"}
                             /\ me'[p].n \in 0..MAXREAD /\ me'[p].target \in 0..MAXREAD
      BY <1>3, Zenon DEF ReaderInv
    <2>2. buf' \in [0..INPUT_BUF - 1 -> Chars] /\ w' \in Index
      BY <1>0, <1>1, <1>2, Zenon
    <2>3. QED
      BY <1>0, <1>2, <2>1, <2>2, Zenon DEF IInv, TypeOK
  <1>5. CASE w' = Bump(e)
    <2>1. Distance(r, w)' = Distance(r, e) + 1 /\ Distance(r, e)' = Distance(r, e) + 1 /\ Distance(w, e)' = 0
      <3>1. Distance(Bump(e), Bump(e)) = 0
        BY <1>2, Distances, Zenon
      <3>2. QED
        BY <1>0, <1>2, <1>5, <3>1, Zenon
    <2>2. r' # w'
      BY <1>0, <1>1, <1>2, <1>5, Distances
    <2>3. IndexInv' /\ LineInv'
      BY <1>1, <1>2, <2>1, <2>2, Constants DEF IndexInv, LineInv
    <2>4. QED
      BY <1>3, <1>4, <2>3, Zenon DEF IInv
  <1>6. CASE w' = w /\ ~EndsLine(c, Bump(e))
    <2>1. /\ Distance(r, w)' = Distance(r, w) /\ Distance(r, e)' = Distance(r, e) + 1
          /\ Distance(w, e)' = Distance(w, e) + 1
      BY <1>0, <1>2, <1>6, Zenon
    <2>2. c \notin {"nl", "eof"} /\ Distance(r, e) # INPUT_BUF - 1
      BY <1>2, <1>6, Zenon DEF EndsLine
    <2>3. IndexInv'
      BY <1>1, <1>2, <2>1, <2>2, Constants, SMTT(60) DEF IndexInv
    <2>4. ASSUME NEW k \in 0..Distance(w, e)' - 1 PROVE buf'[Slot(Plus(w', k))] \notin {"nl", "eof"}
      <3>1. CASE k = Distance(w, e)
        <4>1. Plus(w', k) = e /\ Slot(e) \in 0..INPUT_BUF - 1
          BY <1>1, <1>6, <3>1, Reaches, Slots, Zenon
        <4>2. QED
          BY <1>0, <1>1, <2>2, <4>1, Zenon
      <3>2. CASE k # Distance(w, e)
        <4>1. k \in 0..Distance(w, e) - 1
          BY <1>1, <2>1, <2>4, <3>2
        <4>2. Slot(Plus(w, k)) # Slot(e) /\ Slot(Plus(w, k)) \in 0..INPUT_BUF - 1
          BY <1>1, <1>2, <4>1, CellKept, Zenon
        <4>3. buf'[Slot(Plus(w, k))] = buf[Slot(Plus(w, k))]
          BY <1>0, <1>1, <4>2, Zenon
        <4>4. QED
          BY <1>6, <4>1, <4>3, Zenon DEF IInv, LineInv
      <3>3. QED
        BY <3>1, <3>2, Zenon
    <2>5. LineInv'
      BY <2>4, Zenon DEF LineInv, Slot, Plus
    <2>6. QED
      BY <1>3, <1>4, <2>3, <2>5, Zenon DEF IInv
  <1>7. QED
    BY <1>0, <1>5, <1>6, Zenon

\* Characters are taken back.
LEMMA ShorterInv ==
  ASSUME IInv, NEW k \in 0..Distance(w, e), e' = Plus(e, -k), UNCHANGED <<buf, r, w, lock, me, killed>>
  PROVE  IInv'
  <1>1. /\ r \in Index /\ w \in Index /\ e \in Index
        /\ Distance(r, w) \in 0..INPUT_BUF /\ Distance(w, e) \in 0..INPUT_BUF /\ Distance(r, e) \in 0..INPUT_BUF
        /\ Distance(r, w) + Distance(w, e) = Distance(r, e)
    BY Facts, Zenon
  <1>2. e' \in Index /\ Distance(w, e') = Distance(w, e) - k
    BY <1>1, Back
  <1>3. Distance(r, e') = Distance(r, e) - k
    <2>1. k \in 0..Distance(r, e)
      BY <1>1
    <2>2. QED
      BY <1>1, <2>1, Back
  <1>4. /\ Distance(r, w)' = Distance(r, w) /\ Distance(w, e)' = Distance(w, e) - k
        /\ Distance(r, e)' = Distance(r, e) - k
    BY <1>2, <1>3, Zenon
  <1>5. TypeOK' /\ ReaderInv'
    BY <1>2, Zenon DEF IInv, TypeOK, ReaderInv
  <1>6. IndexInv'
    <2>1. Distance(r, e) - k = INPUT_BUF => Distance(r, e) = INPUT_BUF
      BY <1>1
    <2>2. QED
      BY <1>1, <1>4, <2>1, Constants DEF IInv, IndexInv
  <1>7. LineInv'
    <2>1. \A m \in 0..Distance(w, e)' - 1 : m \in 0..Distance(w, e) - 1
      BY <1>1, <1>4
    <2>2. \A m \in 0..Distance(w, e)' - 1 : buf'[Slot(Plus(w', m))] \notin {"nl", "eof"}
      BY <2>1, Zenon DEF IInv, LineInv
    <2>3. QED
      BY <2>2, Zenon DEF LineInv, Slot, Plus
  <1>8. QED
    BY <1>5, <1>6, <1>7, Zenon DEF IInv

\* Backspace.
LEMMA EraseInv ==
  ASSUME IInv, erase
  PROVE  IInv'
  <1>1. PICK k \in {1} : k = 1
    BY Zenon
  <1>2. k \in 0..Distance(w, e) /\ e' = Plus(e, -k) /\ UNCHANGED <<buf, r, w, lock, me, killed>>
    <2>1. Distance(w, e) \in 0..INPUT_BUF /\ Distance(w, e) # 0
      BY Facts, Distances, Zenon DEF erase
    <2>2. QED
      BY <1>1, <2>1 DEF erase
  <1>3. QED
    BY <1>2, ShorterInv, Zenon

\* ^U goes back to the start of the line, because no newline is left in it.
LEMMA KillLineIs ==
  ASSUME IInv, kill_line
  PROVE  /\ e' = Plus(e, -Distance(w, e)) /\ e' = w
         /\ UNCHANGED <<buf, r, w, lock, me, killed>>
  <1>1. /\ w \in Index /\ e \in Index
    BY Facts, Zenon
  <1>2. PICK d \in 0..INPUT_BUF : d = Distance(w, e)
    BY Facts, Zenon
  <1> DEFINE stops == {k \in 0..Distance(w, e) : Plus(e, -k) = w \/ buf[Slot(Plus(e, -k - 1))] = "nl"}
  <1>3. Plus(e, -d) = w
    BY <1>1, <1>2, Back
  <1>4. d \in stops
    BY <1>2, <1>3
  <1>5. ASSUME NEW k \in stops PROVE k = d
    <2>1. SUFFICES ASSUME k # d PROVE FALSE
      BY Zenon
    <2>2. k \in 0..d - 1 /\ k + 1 \in 0..d /\ -k - 1 = -(k + 1) /\ d - (k + 1) \in 0..d - 1
      BY <1>2, <1>5, <2>1
    <2>3. Plus(e, -k) # w
      BY <1>1, <1>2, <2>1, <2>2, Back
    <2>4. PICK x \in Index : x = Plus(e, -(k + 1)) /\ Distance(w, x) = d - (k + 1)
      BY <1>1, <1>2, <2>2, Back
    <2>5. Plus(w, d - (k + 1)) = x
      BY <1>1, <2>4, Reaches
    <2>6. buf[Slot(x)] # "nl"
      BY <1>2, <2>2, <2>5, Zenon DEF IInv, LineInv
    <2>7. QED
      BY <1>5, <2>2, <2>3, <2>4, <2>6, Zenon
  <1>6. (CHOOSE x \in stops : \A y \in stops : x <= y) = d
    <2>1. \A y \in stops : d <= y
      BY <1>2, <1>5
    <2>2. \E x \in stops : \A y \in stops : x <= y
      BY <1>4, <2>1, Zenon
    <2>3. (CHOOSE x \in stops : \A y \in stops : x <= y) \in stops
      BY <2>2, Zenon
    <2>4. QED
      BY <1>5, <2>3, Zenon
  <1>7. e' = Plus(e, -(CHOOSE x \in stops : \A y \in stops : x <= y))
    BY Zenon DEF kill_line
  <1>8. QED
    BY <1>2, <1>3, <1>6, <1>7, Zenon DEF kill_line

\* ^U.
LEMMA KillLineInv ==
  ASSUME IInv, kill_line
  PROVE  IInv'
  <1>1. PICK k \in 0..Distance(w, e) : k = Distance(w, e)
    BY Facts
  <1>2. QED
    BY <1>1, KillLineIs, ShorterInv, Zenon

\* consoleread() takes a character, or leaves ^D.
LEMMA TakeInv ==
  ASSUME IInv, NEW p \in Readers, take(p)
  PROVE  IInv'
  <1>0. /\ me[p].pc = "loop" /\ r # w /\ (r' = r \/ r' = Bump(r)) /\ UNCHANGED <<buf, w, e, killed>>
    BY Zenon DEF take
  <1>1. /\ r \in Index /\ w \in Index /\ e \in Index
        /\ Distance(r, w) \in 0..INPUT_BUF /\ Distance(w, e) \in 0..INPUT_BUF /\ Distance(r, e) \in 0..INPUT_BUF
        /\ Distance(r, w) + Distance(w, e) = Distance(r, e)
    BY Facts, Zenon
  <1>2. ReaderInv' /\ lock' \in Readers \cup {Nobody}
    <2>1. ReaderInv /\ me[p].n \in 0..MAXREAD /\ lock \in Readers \cup {Nobody}
      BY Zenon DEF IInv, TypeOK
    <2>2. ASSUME me[p].n - 1 > 0, Go(p, [me[p] EXCEPT !.n = me[p].n - 1]), UNCHANGED lock
          PROVE  ReaderInv' /\ lock' \in Readers \cup {Nobody}
      <3>1. PICK x : x = [me[p] EXCEPT !.n = me[p].n - 1]
        BY Zenon
      <3>2. me[p].n - 1 \in 0..MAXREAD
        BY <2>1, <2>2, Constants
      <3>3. /\ x \in [pc : {"idle", "acquire", "loop", "sleep", "gone"}, n : 0..MAXREAD, target : 0..MAXREAD]
            /\ x.n >= 1
        <4>1. me[p] \in [pc : {"idle", "acquire", "loop", "sleep", "gone"}, n : 0..MAXREAD, target : 0..MAXREAD]
          BY Records, Zenon
        <4>2. x.n = me[p].n - 1
          BY <3>1, <4>1, Zenon
        <4>3. QED
          BY <2>2, <3>1, <3>2, <4>1, <4>2
      <3>4. QED
        BY <2>1, <2>2, <3>1, <3>3, GoInv, Zenon
    <2>3. ASSUME Go(p, IF p \in killed THEN Gone ELSE Idle), lock' = Nobody
          PROVE  ReaderInv' /\ lock' \in Readers \cup {Nobody}
      <3>1. PICK x : x = IF p \in killed THEN Gone ELSE Idle
        BY Zenon
      <3>2. /\ x \in [pc : {"idle", "acquire", "loop", "sleep", "gone"}, n : 0..MAXREAD, target : 0..MAXREAD]
            /\ x.pc \notin {"acquire", "loop", "sleep"}
        BY <3>1, Records, Zenon
      <3>3. QED
        BY <2>1, <2>3, <3>1, <3>2, GoInv, Zenon
    <2>4. QED
      BY <2>2, <2>3, Zenon DEF take
  <1>3. CASE r' = r
    BY <1>0, <1>2, <1>3, KeepInv, Zenon DEF IInv, TypeOK
  <1>4. CASE r' = Bump(r)
    <2>1. Distance(r, w) # 0 /\ r # e
      BY <1>0, <1>1, Distances
    <2>2. Bump(r) \in Index /\ Distance(Bump(r), w) = Distance(r, w) - 1 /\ Distance(Bump(r), e) = Distance(r, e) - 1
      BY <1>0, <1>1, <2>1, Moves, Zenon
    <2>3. /\ Distance(r, w)' = Distance(r, w) - 1 /\ Distance(r, e)' = Distance(r, e) - 1
          /\ Distance(w, e)' = Distance(w, e)
      BY <1>0, <1>4, <2>2, Zenon
    <2>4. IndexInv'
      BY <1>1, <2>3, Constants DEF IndexInv
    <2>5. LineInv'
      BY <1>0, Zenon DEF IInv, LineInv, Distance, Slot, Plus
    <2>6. TypeOK'
      <3>1. \A q \in Readers : /\ me'[q].pc \in {"idle", "acquire", "loop", "sleep", "gone"}
                               /\ me'[q].n \in 0..MAXREAD /\ me'[q].target \in 0..MAXREAD
        BY <1>2, Zenon DEF ReaderInv
      <3>2. QED
        BY <1>0, <1>2, <1>4, <2>2, <3>1, Zenon DEF IInv, TypeOK
    <2>7. QED
      BY <1>2, <2>4, <2>5, <2>6, Zenon DEF IInv
  <1>5. QED
    BY <1>0, <1>3, <1>4, Zenon

\* Every step of the handler and of readers keeps the invariant.
LEMMA NextInv ==
  ASSUME IInv, [Next]_vars
  PROVE  IInv'
  <1>1. ASSUME NEW c \in Chars, consoleintr(c) PROVE IInv'
    BY <1>1, TypedInv, Zenon
  <1>2. ASSUME erase PROVE IInv'
    BY <1>2, EraseInv, Zenon
  <1>3. ASSUME kill_line PROVE IInv'
    BY <1>3, KillLineInv, Zenon
  <1>4. ASSUME NEW p \in Readers, take(p) PROVE IInv'
    BY <1>4, TakeInv, Zenon
  <1>5. ASSUME NEW p \in Readers, (\E m \in 1..MAXREAD : read(p, m)) \/ acquire(p) \/ wait(p) \/ kill(p) PROVE IInv'
    BY <1>5, ReaderSteps, Zenon
  <1>6. ASSUME UNCHANGED vars PROVE IInv'
    <2>1. UNCHANGED <<buf, r, w, e, lock, me, killed>>
      BY <1>6, Zenon DEF vars, cons
    <2>2. ReaderInv' /\ lock' \in Readers \cup {Nobody} /\ killed' \subseteq Readers
      BY <2>1, Zenon DEF IInv, ReaderInv, TypeOK
    <2>3. QED
      BY <2>1, <2>2, KeepInv, Zenon
  <1>7. QED
    BY <1>1, <1>2, <1>3, <1>4, <1>5, <1>6, Zenon DEF Next, Reader

\* The inductive invariant holds in every reachable state of the console.
THEOREM InvariantHolds == Spec => []IInv
  <1>1. Init => IInv
    BY InitInv, Zenon
  <1>2. IInv /\ [Next]_vars => IInv'
    BY NextInv, Zenon
  <1>3. QED
    BY <1>1, <1>2, PTL DEF Spec

\* consoleintr() ends the line itself when the buffer gets full, so a full
\* buffer always has characters for consoleread(), whatever was typed, taken
\* back and read before, and also after the indices have wrapped.
THEOREM ConsoleNeverJams == Spec => []NeverJams
  <1>1. IInv => NeverJams
    BY Zenon DEF IInv, IndexInv, NeverJams
  <1>2. QED
    BY <1>1, InvariantHolds, PTL
-----------------------------------------------------------------------------
(* The console implements LineBuffer.                                      *)

\* The characters of buffer b from index i up to index j.
Content(b, i, j) == [k \in 1..Distance(i, j) |-> b[Slot(Plus(i, k - 1))]]

\* They are a sequence.
LEMMA ContentIsSeq ==
  ASSUME NEW b \in [0..INPUT_BUF - 1 -> Chars], NEW i \in Index, NEW j \in Index
  PROVE  /\ Content(b, i, j) \in Seq(Chars) /\ Len(Content(b, i, j)) = Distance(i, j)
         /\ \A k \in 1..Distance(i, j) : Content(b, i, j)[k] = b[Slot(Plus(i, k - 1))]
  <1>1. PICK d \in 0..WRAP - 1 : d = Distance(i, j)
    BY Distances, Zenon
  <1>2. ASSUME NEW k \in 1..d PROVE b[Slot(Plus(i, k - 1))] \in Chars
    <2>1. PICK m \in 0..WRAP - 1 : m = k - 1
      BY <1>1, <1>2, Constants
    <2>2. m \in -WRAP..WRAP
      BY <2>1, Constants
    <2>a. Plus(i, m) \in Index
      BY <2>2, Sums, Zenon DEF Index
    <2>3. Slot(Plus(i, m)) \in 0..INPUT_BUF - 1
      BY <2>a, Slots, Zenon
    <2>4. QED
      BY <2>1, <2>3, Zenon
  <1>3. /\ Content(b, i, j) \in [1..d -> Chars]
        /\ \A k \in 1..d : Content(b, i, j)[k] = b[Slot(Plus(i, k - 1))]
    BY <1>1, <1>2, Zenon DEF Content
  <1>4. Content(b, i, j) \in Seq(Chars) /\ Len(Content(b, i, j)) = d
    <2>1. PICK f \in [1..d -> Chars] : f = Content(b, i, j)
      BY <1>3, Zenon
    <2>2. d \in Nat
      BY <1>1, Constants
    <2>3. f \in Seq(Chars) /\ Len(f) = d
      BY <2>2
    <2>4. QED
      BY <2>1, <2>3, Zenon
  <1>5. QED
    BY <1>1, <1>3, <1>4, Zenon

\* Nothing between an index and itself.
LEMMA ContentEmpty ==
  ASSUME NEW b \in [0..INPUT_BUF - 1 -> Chars], NEW i \in Index
  PROVE  Content(b, i, i) = <<>>
  <1>1. Content(b, i, i) \in Seq(Chars) /\ Len(Content(b, i, i)) = 0
    BY ContentIsSeq, Distances
  <1>2. QED
    BY <1>1, EmptySeq, Zenon

\* A character more, at the end.
LEMMA ContentAppend ==
  ASSUME NEW b \in [0..INPUT_BUF - 1 -> Chars], NEW i \in Index, NEW j \in Index,
         Distance(i, j) < INPUT_BUF, NEW c \in Chars
  PROVE  Content([b EXCEPT ![Slot(j)] = c], i, Bump(j)) = Append(Content(b, i, j), c)
  <1>1. PICK d \in 0..INPUT_BUF - 1 : d = Distance(i, j)
    BY Distances, Constants
  <1>2. Bump(j) \in Index /\ Distance(i, Bump(j)) = d + 1
    <2>1. Distance(i, j) < WRAP - 1
      BY <1>1, Constants
    <2>2. QED
      BY <1>1, <2>1, Moves, Zenon
  <1>3. PICK f \in [0..INPUT_BUF - 1 -> Chars] : f = [b EXCEPT ![Slot(j)] = c]
    BY Slots, Zenon
  <1>4. /\ Content(f, i, Bump(j)) \in Seq(Chars) /\ Len(Content(f, i, Bump(j))) = d + 1
        /\ \A k \in 1..d + 1 : Content(f, i, Bump(j))[k] = f[Slot(Plus(i, k - 1))]
    <2>1. /\ Content(f, i, Bump(j)) \in Seq(Chars) /\ Len(Content(f, i, Bump(j))) = Distance(i, Bump(j))
          /\ \A k \in 1..Distance(i, Bump(j)) : Content(f, i, Bump(j))[k] = f[Slot(Plus(i, k - 1))]
      BY <1>2, ContentIsSeq, Zenon
    <2>2. QED
      BY <1>2, <2>1, Zenon
  <1>5. /\ Content(b, i, j) \in Seq(Chars) /\ Len(Content(b, i, j)) = d
        /\ \A k \in 1..d : Content(b, i, j)[k] = b[Slot(Plus(i, k - 1))]
    <2>1. /\ Content(b, i, j) \in Seq(Chars) /\ Len(Content(b, i, j)) = Distance(i, j)
          /\ \A k \in 1..Distance(i, j) : Content(b, i, j)[k] = b[Slot(Plus(i, k - 1))]
      BY ContentIsSeq, Zenon
    <2>2. QED
      BY <1>1, <2>1, Zenon
  <1>6. ASSUME NEW k \in 1..d PROVE Content(f, i, Bump(j))[k] = Content(b, i, j)[k]
    <2>1. PICK m \in 0..d - 1 : m = k - 1 /\ k \in 1..d + 1
      BY <1>1, <1>6, Constants
    <2>2. Slot(Plus(i, m)) # Slot(j) /\ Slot(Plus(i, m)) \in 0..INPUT_BUF - 1
      BY <1>1, <2>1, CellKept, Constants, Zenon
    <2>3. f[Slot(Plus(i, m))] = b[Slot(Plus(i, m))]
      BY <1>3, <2>2, Zenon
    <2>4. QED
      BY <1>4, <1>5, <2>1, <2>3, Zenon
  <1>7. Content(f, i, Bump(j))[d + 1] = c
    <2>1. Plus(i, d) = j /\ Slot(j) \in 0..INPUT_BUF - 1
      BY <1>1, Reaches, Slots, Zenon
    <2>2. d + 1 \in 1..d + 1 /\ (d + 1) - 1 = d
      BY <1>1, Constants
    <2>3. Content(f, i, Bump(j))[d + 1] = f[Slot(Plus(i, (d + 1) - 1))]
      BY <1>4, <2>2, Zenon
    <2>4. f[Slot(j)] = c
      BY <1>3, <2>1, Zenon
    <2>5. QED
      BY <2>1, <2>2, <2>3, <2>4, Zenon
  <1>8. Append(Content(b, i, j), c) \in Seq(Chars) /\ Len(Append(Content(b, i, j), c)) = d + 1
    BY <1>5
  <1>9. \A k \in 1..d + 1 : Content(f, i, Bump(j))[k] = Append(Content(b, i, j), c)[k]
    BY <1>1, <1>5, <1>6, <1>7, Constants
  <1>10. Content(f, i, Bump(j)) = Append(Content(b, i, j), c)
    BY <1>4, <1>8, <1>9, SeqEqual, Zenon
  <1>11. QED
    BY <1>3, <1>10, Zenon

\* Two pieces that follow each other.
LEMMA ContentJoin ==
  ASSUME NEW b \in [0..INPUT_BUF - 1 -> Chars], NEW i \in Index, NEW j \in Index, NEW m \in Index,
         Distance(i, j) + Distance(j, m) = Distance(i, m)
  PROVE  Content(b, i, m) = Content(b, i, j) \o Content(b, j, m)
  <1>1. PICK x, y \in 0..WRAP - 1 : x = Distance(i, j) /\ y = Distance(j, m) /\ x + y = Distance(i, m) /\ x + y < WRAP
    BY Distances, Constants
  <1>2. /\ Content(b, i, j) \in Seq(Chars) /\ Len(Content(b, i, j)) = x
        /\ \A k \in 1..x : Content(b, i, j)[k] = b[Slot(Plus(i, k - 1))]
    BY <1>1, ContentIsSeq, Zenon
  <1>3. /\ Content(b, j, m) \in Seq(Chars) /\ Len(Content(b, j, m)) = y
        /\ \A k \in 1..y : Content(b, j, m)[k] = b[Slot(Plus(j, k - 1))]
    BY <1>1, ContentIsSeq, ZenonT(60)
  <1>4. /\ Content(b, i, m) \in Seq(Chars) /\ Len(Content(b, i, m)) = x + y
        /\ \A k \in 1..x + y : Content(b, i, m)[k] = b[Slot(Plus(i, k - 1))]
    <2>1. /\ Content(b, i, m) \in Seq(Chars) /\ Len(Content(b, i, m)) = Distance(i, m)
          /\ \A k \in 1..Distance(i, m) : Content(b, i, m)[k] = b[Slot(Plus(i, k - 1))]
      BY ContentIsSeq, Zenon
    <2>2. QED
      BY <1>1, <2>1, Zenon
  <1>5. ASSUME NEW k \in 1..x + y, k > x PROVE Content(b, i, m)[k] = Content(b, j, m)[k - x]
    <2>0. /\ k - x - 1 \in 0..WRAP - 1 /\ x + (k - x - 1) = k - 1 /\ x + (k - x - 1) < WRAP
          /\ k - x \in 1..y /\ (k - x) - 1 = k - x - 1
      BY <1>1, <1>5, Constants
    <2>1. PICK z \in 0..WRAP - 1 : z = k - x - 1 /\ x + z = k - 1 /\ x + z < WRAP /\ k - x \in 1..y /\ (k - x) - 1 = z
      BY <2>0, Zenon
    <2>2. Plus(Plus(i, x), z) = Plus(i, x + z) /\ Plus(i, x) = j
      BY <1>1, <2>1, Adds, Reaches, ZenonT(20), ZenonT(60)
    <2>3. Plus(j, z) = Plus(i, k - 1)
      BY <2>1, <2>2, Zenon
    <2>4. QED
      BY <1>3, <1>4, <2>1, <2>3
  <1>6. /\ Content(b, i, j) \o Content(b, j, m) \in Seq(Chars) /\ Len(Content(b, i, j) \o Content(b, j, m)) = x + y
        /\ \A k \in 1..x + y : (Content(b, i, j) \o Content(b, j, m))[k] =
             IF k <= x THEN Content(b, i, j)[k] ELSE Content(b, j, m)[k - x]
    <2> DEFINE c == Content(b, i, j)  d == Content(b, j, m)
    <2>1. c \in Seq(Chars) /\ d \in Seq(Chars) /\ Len(c) = x /\ Len(d) = y
      BY <1>2, <1>3, Zenon
    <2> HIDE DEF c, d
    <2>2. /\ c \o d \in Seq(Chars) /\ Len(c \o d) = x + y
          /\ \A k \in 1..x + y : (c \o d)[k] = IF k <= x THEN c[k] ELSE d[k - x]
      BY <2>1, ConcatProperties, ZenonT(60)
    <2>3. QED
      BY <2>2, Zenon DEF c, d
  <1>7. ASSUME NEW k \in 1..x + y PROVE Content(b, i, m)[k] = (Content(b, i, j) \o Content(b, j, m))[k]
    <2>1. CASE k <= x
      <3>1. k \in 1..x
        BY <1>1, <1>7, <2>1
      <3>2. QED
        BY <1>2, <1>4, <1>6, <2>1, <3>1, Zenon
    <2>2. CASE k > x
      <3>1. ~(k <= x)
        BY <1>1, <1>7, <2>2
      <3>2. QED
        BY <1>5, <1>6, <1>7, <2>2, <3>1, Zenon
    <2>3. k <= x \/ k > x
      BY <1>1, <1>7
    <2>4. QED
      BY <2>1, <2>2, <2>3, Zenon
  <1>8. QED
    BY <1>4, <1>6, <1>7, SeqEqual, Zenon

\* A character less, at the front.
LEMMA ContentTail ==
  ASSUME NEW b \in [0..INPUT_BUF - 1 -> Chars], NEW i \in Index, NEW j \in Index, i # j
  PROVE  Content(b, i, j) # <<>> /\ Content(b, Bump(i), j) = Tail(Content(b, i, j))
  <1>1. PICK d \in 0..WRAP - 1 : d = Distance(i, j) /\ d # 0
    BY Distances, Zenon
  <1>2. Bump(i) \in Index /\ Distance(Bump(i), j) = d - 1
    BY <1>1, Moves, Zenon
  <1>3. /\ Content(b, i, j) \in Seq(Chars) /\ Len(Content(b, i, j)) = d
        /\ \A k \in 1..d : Content(b, i, j)[k] = b[Slot(Plus(i, k - 1))]
    BY <1>1, ContentIsSeq, Zenon
  <1>4. /\ Content(b, Bump(i), j) \in Seq(Chars) /\ Len(Content(b, Bump(i), j)) = d - 1
        /\ \A k \in 1..d - 1 : Content(b, Bump(i), j)[k] = b[Slot(Plus(Bump(i), k - 1))]
    <2>1. PICK x \in Index : x = Bump(i)
      BY <1>2, Zenon
    <2>2. /\ Content(b, x, j) \in Seq(Chars) /\ Len(Content(b, x, j)) = Distance(x, j)
          /\ \A k \in 1..Distance(x, j) : Content(b, x, j)[k] = b[Slot(Plus(x, k - 1))]
      BY ContentIsSeq, Zenon
    <2>3. QED
      BY <1>2, <2>1, <2>2, Zenon
  <1>5. Content(b, i, j) # <<>>
    BY <1>1, <1>3, Zenon
  <1>6. Tail(Content(b, i, j)) \in Seq(Chars) /\ Len(Tail(Content(b, i, j))) = d - 1
    BY <1>3, <1>5, HeadTailProperties, Zenon
  <1>7. ASSUME NEW k \in 1..d - 1 PROVE Content(b, Bump(i), j)[k] = Tail(Content(b, i, j))[k]
    <2>0. /\ k - 1 \in 0..WRAP - 1 /\ 1 \in 0..WRAP - 1 /\ 1 + (k - 1) = k /\ 1 + (k - 1) < WRAP
          /\ k + 1 \in 1..d /\ (k + 1) - 1 = k
      BY <1>1, <1>7, Constants
    <2>1. PICK x \in 0..WRAP - 1 : x = k - 1 /\ 1 + x = k /\ 1 + x < WRAP
      BY <2>0, Zenon
    <2>2. Plus(Plus(i, 1), x) = Plus(i, 1 + x)
      BY <2>0, <2>1, Adds, ZenonT(60)
    <2>3. Plus(Bump(i), k - 1) = Plus(i, k)
      BY <2>1, <2>2, Zenon DEF Bump
    <2>4. Content(b, i, j)[k + 1] = b[Slot(Plus(i, (k + 1) - 1))]
      BY <1>3, <2>0, Zenon
    <2>5. Content(b, Bump(i), j)[k] = Content(b, i, j)[k + 1]
      BY <1>4, <1>7, <2>0, <2>3, <2>4, Zenon
    <2>6. QED
      BY <1>3, <1>5, <1>6, <1>7, <2>5, HeadTailProperties, ZenonT(60)
  <1>8. Content(b, Bump(i), j) = Tail(Content(b, i, j))
    BY <1>4, <1>6, <1>7, SeqEqual, Zenon
  <1>9. QED
    BY <1>5, <1>8, Zenon

\* A character less, at the end.
LEMMA ContentFront ==
  ASSUME NEW b \in [0..INPUT_BUF - 1 -> Chars], NEW i \in Index, NEW j \in Index, i # j
  PROVE  /\ Content(b, i, j) # <<>>
         /\ Content(b, i, Plus(j, -1)) = SubSeq(Content(b, i, j), 1, Len(Content(b, i, j)) - 1)
  <1>1. PICK d \in 0..WRAP - 1 : d = Distance(i, j) /\ d # 0
    BY Distances, Zenon
  <1>2. PICK m \in Index : m = Plus(j, -1) /\ Distance(i, m) = d - 1
    <2>1. PICK k \in 0..Distance(i, j) : k = 1
      BY <1>1, Constants
    <2>2. Plus(j, -k) \in Index /\ Distance(i, Plus(j, -k)) = d - k
      BY <1>1, Back
    <2>3. QED
      BY <2>1, <2>2, Zenon
  <1>3. /\ Content(b, i, j) \in Seq(Chars) /\ Len(Content(b, i, j)) = d
        /\ \A k \in 1..d : Content(b, i, j)[k] = b[Slot(Plus(i, k - 1))]
    BY <1>1, ContentIsSeq, Zenon
  <1>4. /\ Content(b, i, m) \in Seq(Chars) /\ Len(Content(b, i, m)) = d - 1
        /\ \A k \in 1..d - 1 : Content(b, i, m)[k] = b[Slot(Plus(i, k - 1))]
    <2>1. /\ Content(b, i, m) \in Seq(Chars) /\ Len(Content(b, i, m)) = Distance(i, m)
          /\ \A k \in 1..Distance(i, m) : Content(b, i, m)[k] = b[Slot(Plus(i, k - 1))]
      BY ContentIsSeq, Zenon
    <2>2. QED
      BY <1>2, <2>1, Zenon
  <1>5. Content(b, i, j) # <<>>
    BY <1>1, <1>3, Zenon
  <1>6. PICK s \in Seq(Chars) : s = Content(b, i, j) /\ Len(s) = d
    BY <1>3, Zenon
  <1>7. /\ SubSeq(s, 1, d - 1) \in Seq(Chars) /\ Len(SubSeq(s, 1, d - 1)) = d - 1
        /\ \A k \in 1..d - 1 : SubSeq(s, 1, d - 1)[k] = s[k]
    BY <1>1, <1>6, Constants
  <1>8. \A k \in 1..d - 1 : k \in 1..d
    BY <1>1
  <1>9. \A k \in 1..d - 1 : Content(b, i, m)[k] = SubSeq(s, 1, d - 1)[k]
    BY <1>3, <1>4, <1>6, <1>7, <1>8, ZenonT(60)
  <1>10. Content(b, i, m) = SubSeq(s, 1, d - 1)
    BY <1>4, <1>7, <1>9, SeqEqual, Zenon
  <1>11. QED
    BY <1>2, <1>5, <1>6, <1>10, Zenon

\* A character at the end of two pieces.
LEMMA AppendJoined ==
  ASSUME NEW s \in Seq(Chars), NEW t \in Seq(Chars), NEW c \in Chars
  PROVE  Append(s \o t, c) = s \o Append(t, c)
  BY SMTT(60)

\* Typing is Type.
LEMMA TypedRefines ==
  ASSUME IInv, NEW c \in Chars, consoleintr(c)
  PROVE  LB!Type(c)
  <1>0. /\ Room /\ buf' = [buf EXCEPT ![Slot(e)] = c] /\ e' = Bump(e) /\ r' = r
        /\ (w' = Bump(e) /\ EndsLine(c, Bump(e))) \/ (w' = w /\ ~EndsLine(c, Bump(e)))
    BY Zenon DEF consoleintr
  <1>1. /\ r \in Index /\ w \in Index /\ e \in Index /\ buf \in [0..INPUT_BUF - 1 -> Chars]
        /\ Distance(r, w) \in 0..INPUT_BUF /\ Distance(w, e) \in 0..INPUT_BUF /\ Distance(r, e) \in 0..INPUT_BUF
        /\ Distance(r, w) + Distance(w, e) = Distance(r, e)
    BY Facts, Zenon
  <1>2. /\ Bump(e) \in Index /\ Distance(r, e) < INPUT_BUF /\ Distance(w, e) < INPUT_BUF
        /\ Bump(e) = Plus(r, INPUT_BUF) <=> Distance(r, e) = INPUT_BUF - 1
    BY <1>0, Longer, Zenon
  <1>3. PICK f \in [0..INPUT_BUF - 1 -> Chars] : f = [buf EXCEPT ![Slot(e)] = c] /\ f = buf'
    BY <1>0, <1>1, Zenon
  <1>4. /\ Window(r, w) = Content(buf, r, w) /\ Window(w, e) = Content(buf, w, e)
        /\ Window(r, w)' = Content(f, r, w') /\ Window(w, e)' = Content(f, w', Bump(e))
    <2>1. Window(r, w) = Content(buf, r, w) /\ Window(w, e) = Content(buf, w, e)
      BY Zenon DEF Window, Content
    <2>2. Window(r, w)' = Content(f, r, w') /\ Window(w, e)' = Content(f, w', Bump(e))
      BY <1>0, <1>3, Zenon DEF Window, Content, Slot, Plus, Distance
    <2>3. QED
      BY <2>1, <2>2, Zenon
  <1>5. /\ Content(buf, r, w) \in Seq(Chars) /\ Len(Content(buf, r, w)) = Distance(r, w)
        /\ Content(buf, w, e) \in Seq(Chars) /\ Len(Content(buf, w, e)) = Distance(w, e)
    BY <1>1, ContentIsSeq, ZenonT(60)
  <1>6. LB!Room
    BY <1>1, <1>2, <1>4, <1>5, Zenon DEF LB!Room
  <1>7. c \in {"nl", "eof"} \/ Len(Window(r, w)) + Len(Window(w, e)) = INPUT_BUF - 1 <=> EndsLine(c, Bump(e))
    BY <1>1, <1>2, <1>4, <1>5, Zenon DEF EndsLine
  <1>8. CASE w' = Bump(e) /\ EndsLine(c, Bump(e))
    <2>0. Content([buf EXCEPT ![Slot(e)] = c], r, Bump(e)) = Append(Content(buf, r, e), c)
      BY <1>1, <1>2, ContentAppend, ZenonT(60)
    <2>1. Content(f, r, Bump(e)) = Append(Content(buf, r, e), c)
      BY <1>3, <2>0, Zenon
    <2>2. Content(buf, r, e) = Content(buf, r, w) \o Content(buf, w, e)
      BY <1>1, ContentJoin, ZenonT(60)
    <2>3. Window(r, w)' = Window(r, w) \o Append(Window(w, e), c)
      BY <1>4, <1>5, <1>8, <2>1, <2>2, AppendJoined, Zenon
    <2>4. Window(w, e)' = <<>>
      BY <1>2, <1>4, <1>8, ContentEmpty, Zenon
    <2>5. QED
      BY <1>6, <1>7, <1>8, <2>3, <2>4, Zenon DEF LB!Type
  <1>9. CASE w' = w /\ ~EndsLine(c, Bump(e))
    <2>1. Distance(r, w) <= Distance(r, e)
      BY <1>1
    <2>2. Content(f, r, w) = Content(buf, r, w)
      <3>1. ASSUME NEW k \in 1..Distance(r, w)
            PROVE  f[Slot(Plus(r, k - 1))] = buf[Slot(Plus(r, k - 1))]
        <4>1. k - 1 \in 0..Distance(r, e) - 1
          BY <1>1, <2>1, <3>1, Constants, SMTT(60)
        <4>2. PICK x \in 0..Distance(r, e) - 1 : x = k - 1
          BY <4>1, Zenon
        <4>3. Slot(Plus(r, x)) # Slot(e) /\ Slot(Plus(r, x)) \in 0..INPUT_BUF - 1
          BY <1>1, <1>2, CellKept, Zenon
        <4>4. QED
          BY <1>1, <1>3, <4>2, <4>3, Zenon
      <3>2. QED
        BY <3>1, Zenon DEF Content
    <2>3. Content(f, w, Bump(e)) = Append(Content(buf, w, e), c)
      <3>1. Content([buf EXCEPT ![Slot(e)] = c], w, Bump(e)) = Append(Content(buf, w, e), c)
        BY <1>1, <1>2, ContentAppend, ZenonT(60)
      <3>2. QED
        BY <1>3, <3>1, Zenon
    <2>4. Window(r, w)' = Window(r, w) /\ Window(w, e)' = Append(Window(w, e), c)
      BY <1>4, <1>9, <2>2, <2>3, Zenon
    <2>5. QED
      BY <1>6, <1>7, <1>9, <2>4, ZenonT(60) DEF LB!Type
  <1>10. QED
    BY <1>0, <1>8, <1>9, Zenon

\* Steps that leave the buffer and its indices alone leave the lines alone.
LEMMA KeepRefines ==
  ASSUME UNCHANGED <<buf, r, w, e>>
  PROVE  UNCHANGED <<Window(r, w), Window(w, e)>>
  BY Zenon DEF Window, Slot, Plus, Distance

\* Backspace is Erase, ^U is KillLine, and a character taken is Take.
LEMMA OtherRefines ==
  ASSUME IInv
  PROVE  /\ erase => LB!Erase
         /\ kill_line => LB!KillLine
         /\ \A p \in Readers : take(p) => LB!Take \/ UNCHANGED <<Window(r, w), Window(w, e)>>
  <1>1. r \in Index /\ w \in Index /\ e \in Index /\ buf \in [0..INPUT_BUF - 1 -> Chars]
    BY Facts, Zenon
  <1>2. Window(r, w) = Content(buf, r, w) /\ Window(w, e) = Content(buf, w, e)
    BY Zenon DEF Window, Content
  <1>3. ASSUME erase PROVE LB!Erase
    <2>1. e # w /\ e' = Plus(e, -1) /\ UNCHANGED <<buf, r, w>>
      BY <1>3, Zenon DEF erase
    <2>2. Window(r, w)' = Window(r, w) /\ Window(w, e)' = Content(buf, w, Plus(e, -1))
      BY <2>1, Zenon DEF Window, Content, Slot, Plus, Distance
    <2>3. /\ Content(buf, w, e) # <<>>
          /\ Content(buf, w, Plus(e, -1)) = SubSeq(Content(buf, w, e), 1, Len(Content(buf, w, e)) - 1)
      BY <1>1, <2>1, ContentFront, Zenon
    <2>4. QED
      BY <1>2, <2>2, <2>3, Zenon DEF LB!Erase
  <1>4. ASSUME kill_line PROVE LB!KillLine
    <2>1. e' = w /\ UNCHANGED <<buf, r, w>>
      BY <1>4, KillLineIs, Zenon
    <2>2. Window(r, w)' = Window(r, w) /\ Window(w, e)' = Content(buf, w, w)
      BY <2>1, Zenon DEF Window, Content, Slot, Plus, Distance
    <2>3. Content(buf, w, w) = <<>>
      BY <1>1, ContentEmpty, Zenon
    <2>4. QED
      BY <2>2, <2>3, Zenon DEF LB!KillLine
  <1>5. ASSUME NEW p \in Readers, take(p) PROVE LB!Take \/ UNCHANGED <<Window(r, w), Window(w, e)>>
    <2>1. r # w /\ (r' = r \/ r' = Bump(r)) /\ UNCHANGED <<buf, w, e>>
      BY <1>5, Zenon DEF take
    <2>2. CASE r' = r
      BY <2>1, <2>2, KeepRefines, Zenon
    <2>3. CASE r' = Bump(r)
      <3>1. Window(w, e)' = Window(w, e) /\ Window(r, w)' = Content(buf, Bump(r), w)
        BY <2>1, <2>3, Zenon DEF Window, Content, Slot, Plus, Distance
      <3>2. Content(buf, r, w) # <<>> /\ Content(buf, Bump(r), w) = Tail(Content(buf, r, w))
        BY <1>1, <2>1, ContentTail, Zenon
      <3>3. QED
        BY <1>2, <3>1, <3>2, Zenon DEF LB!Take
    <2>4. QED
      BY <2>1, <2>2, <2>3, Zenon
  <1>6. QED
    BY <1>3, <1>4, <1>5, Zenon

\* Through the ring, its wrapping indices and any interleaving of consoleintr()
\* with consoleread(), the console is a line buffer: what is typed is edited
\* until the line ends, and then read once and in order.
THEOREM ConsoleIsALineBuffer == Spec => Coherent
  <1>1. Init => LB!Init
    <2> SUFFICES ASSUME Init PROVE LB!Init
      BY Zenon
    <2>1. r = w /\ w = e /\ r \in Index /\ buf \in [0..INPUT_BUF - 1 -> Chars]
      BY Constants DEF Init, Index, Chars
    <2>2. Window(r, w) = Content(buf, r, w) /\ Window(w, e) = Content(buf, w, e)
      BY Zenon DEF Window, Content
    <2>3. Window(r, w) = <<>> /\ Window(w, e) = <<>>
      BY <2>1, <2>2, ContentEmpty, Zenon
    <2>4. QED
      BY <2>3, Zenon DEF LB!Init
  <1>2. IInv /\ [Next]_vars => [LB!Next]_<<Window(r, w), Window(w, e)>>
    <2> SUFFICES ASSUME IInv, [Next]_vars PROVE [LB!Next]_<<Window(r, w), Window(w, e)>>
      BY Zenon
    <2>1. ASSUME NEW c \in Chars, consoleintr(c) PROVE LB!Next
      BY <2>1, TypedRefines, Zenon DEF LB!Next, Chars
    <2>2. ASSUME erase \/ kill_line PROVE LB!Next
      BY <2>2, OtherRefines, Zenon DEF LB!Next
    <2>3. ASSUME NEW p \in Readers, take(p) PROVE [LB!Next]_<<Window(r, w), Window(w, e)>>
      BY <2>3, OtherRefines, Zenon DEF LB!Next
    <2>4. ASSUME NEW p \in Readers, (\E m \in 1..MAXREAD : read(p, m)) \/ acquire(p) \/ wait(p) \/ kill(p)
          PROVE  UNCHANGED <<Window(r, w), Window(w, e)>>
      <3>1. UNCHANGED <<buf, r, w, e>>
        BY <2>4, Zenon DEF read, acquire, wait, kill, cons
      <3>2. QED
        BY <3>1, KeepRefines, Zenon
    <2>5. ASSUME UNCHANGED vars PROVE UNCHANGED <<Window(r, w), Window(w, e)>>
      <3>1. UNCHANGED <<buf, r, w, e>>
        BY <2>5, Zenon DEF vars, cons
      <3>2. QED
        BY <3>1, KeepRefines, Zenon
    <2>6. QED
      BY <2>1, <2>2, <2>3, <2>4, <2>5, Zenon DEF Next, Reader
  <1>3. QED
    BY <1>1, <1>2, InvariantHolds, PTL DEF Spec, Coherent, LB!Spec
=============================================================================
