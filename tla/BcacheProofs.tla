---------------------------- MODULE BcacheProofs ----------------------------
(***************************************************************************)
(* Proofs about Bcache, for all finite sets of processes and buffers and   *)
(* all sets of blocks and contents: IInv is inductive, bget() does not     *)
(* panic while there are enough buffers, and the cache implements          *)
(* BlockStore.                                                             *)
(***************************************************************************)
EXTENDS Bcache, FiniteSetTheorems, TLAPS

-----------------------------------------------------------------------------
(* Counting references.                                                    *)

\* Any set of processes, with or without the log, can be counted.
LEMMA HoldersFinite ==
  ASSUME NEW S, S \subseteq Procs \cup {Nobody}
  PROVE  IsFiniteSet(S) /\ Cardinality(S) \in Nat
  <1>1. IsFiniteSet(Procs \cup {Nobody})
    BY BcacheAssumption, FS_AddElement, Zenon
  <1>2. QED
    BY <1>1, FS_Subset, FS_CardinalityType, Zenon

\* bget() and bpin() add one holder and count one more.
LEMMA Ref ==
  ASSUME NEW S, S \subseteq Procs \cup {Nobody}, NEW x, x \notin S
  PROVE  Cardinality(S \cup {x}) = Cardinality(S) + 1
  BY HoldersFinite, FS_AddElement, Zenon

\* brelse() and bunpin() remove one holder and count one less.
LEMMA Deref ==
  ASSUME NEW S, S \subseteq Procs \cup {Nobody}, NEW x \in S
  PROVE  Cardinality(S \ {x}) = Cardinality(S) - 1 /\ Cardinality(S) - 1 \in Nat
  <1>1. Cardinality(S \ {x}) = Cardinality(S) - 1
    BY HoldersFinite, FS_RemoveElement, Zenon
  <1>2. Cardinality(S \ {x}) \in Nat
    BY HoldersFinite, Zenon
  <1>3. QED
    BY <1>1, <1>2, Zenon

\* The holders of a buffer are processes and the log.
LEMMA RefsType == \A b \in Bufs : Refs(b) \subseteq Procs \cup {Nobody}
  BY Zenon DEF Refs

\* bget() recycles a buffer only if nobody holds a reference on it.
LEMMA UnusedIsFree ==
  ASSUME IInv, NEW b \in Unused
  PROVE  b \in Bufs /\ b \notin pinned /\ \A p \in Procs : mine[p] # b
  <1>1. b \in Bufs /\ Cardinality(Refs(b)) = 0
    BY Zenon DEF IInv, RefInv, Unused
  <1>2. Refs(b) = {}
    BY <1>1, RefsType, HoldersFinite, FS_EmptySet, Zenon
  <1>3. QED
    BY <1>1, <1>2, Zenon DEF Refs
-----------------------------------------------------------------------------
(* IInv is inductive: one lemma per action.                                *)

\* binit() establishes the invariant.
LEMMA InitInv == Init => IInv
  <1> SUFFICES ASSUME Init PROVE IInv
    BY Zenon
  <1>1. TypeOK
    BY Zenon DEF Init, TypeOK
  <1>2. \A b \in Bufs : Refs(b) = {}
    BY BcacheAssumption, Zenon DEF Init, Refs
  <1>3. RefInv
    <2>1. \A b \in Bufs : refcnt[b] = Cardinality(Refs(b))
      BY <1>2, FS_EmptySet, Zenon DEF Init
    <2>2. Cardinality(pinned) = 0
      BY FS_EmptySet, Zenon DEF Init
    <2>3. QED
      BY <2>1, <2>2, BcacheAssumption DEF RefInv
  <1>4. UserInv /\ LockInv
    BY BcacheAssumption, Zenon DEF UserInv, LockInv, Init, Holding
  <1>5. DataInv /\ NoLostWakeup /\ OneBufferPerBlock
    BY Zenon DEF DataInv, NoLostWakeup, OneBufferPerBlock, Init
  <1>6. QED
    BY <1>1, <1>3, <1>4, <1>5, Zenon DEF IInv

\* bget() hits: one more holder, who waits for the lock.
LEMMA HitInv ==
  ASSUME IInv, NEW p \in Procs, NEW k \in Blocks, NEW b \in Bufs,
         pc[p] = "idle", b \in Caching(k),
         refcnt' = [refcnt EXCEPT ![b] = @ + 1],
         mine' = [mine EXCEPT ![p] = b],
         blk' = [blk EXCEPT ![p] = k],
         pc' = [pc EXCEPT ![p] = "lock"],
         UNCHANGED <<disk, bno, valid, data, locked, pinned, panicked>>
  PROVE  IInv'
  <1>1. TypeOK'
    BY DEF IInv, TypeOK
  <1>2. mine[p] = Nobody /\ p # Nobody /\ b # Nobody
    BY BcacheAssumption, Zenon DEF IInv, UserInv
  <1>3. Refs(b)' = Refs(b) \cup {p} /\ p \notin Refs(b)
    BY <1>2, BcacheAssumption DEF Refs, IInv, TypeOK
  <1>4. \A c \in Bufs : c # b => Refs(c)' = Refs(c)
    BY <1>2, BcacheAssumption, Zenon DEF Refs, IInv, TypeOK
  <1>5. RefInv'
    BY <1>3, <1>4, Ref, RefsType DEF RefInv, IInv, TypeOK
  <1>6. UserInv'
    BY Zenon DEF IInv, UserInv, TypeOK
  <1>7. LockInv'
    BY <1>2 DEF IInv, LockInv, TypeOK, Holding
  <1>8. DataInv'
    BY Zenon DEF IInv, DataInv, TypeOK
  <1>9. NoLostWakeup' /\ OneBufferPerBlock'
    BY Zenon DEF IInv, NoLostWakeup, OneBufferPerBlock, TypeOK, Caching
  <1>10. QED
    BY <1>1, <1>5, <1>6, <1>7, <1>8, <1>9, Zenon DEF IInv

\* bget() misses: the recycled buffer had no holder, so nobody sees it change.
LEMMA MissInv ==
  ASSUME IInv, NEW p \in Procs, NEW k \in Blocks, NEW b \in Unused,
         pc[p] = "idle", Caching(k) = {},
         bno' = [bno EXCEPT ![b] = k],
         valid' = [valid EXCEPT ![b] = FALSE],
         refcnt' = [refcnt EXCEPT ![b] = 1],
         mine' = [mine EXCEPT ![p] = b],
         blk' = [blk EXCEPT ![p] = k],
         pc' = [pc EXCEPT ![p] = "lock"],
         UNCHANGED <<disk, data, locked, pinned, panicked>>
  PROVE  IInv'
  <1>0. b \in Bufs /\ b \notin pinned /\ \A q \in Procs : mine[q] # b
    BY UnusedIsFree, Zenon
  <1>1. TypeOK'
    BY <1>0, Zenon DEF IInv, TypeOK
  <1>2. mine[p] = Nobody /\ p # Nobody /\ b # Nobody
    BY <1>0, BcacheAssumption, Zenon DEF IInv, UserInv
  <1>3. Refs(b)' = {p}
    BY <1>0, <1>2 DEF Refs, IInv, TypeOK
  <1>4. \A c \in Bufs : c # b => Refs(c)' = Refs(c)
    BY <1>2, BcacheAssumption, Zenon DEF Refs, IInv, TypeOK
  <1>5. RefInv'
    BY <1>3, <1>4, FS_Singleton, Zenon DEF RefInv, IInv, TypeOK
  <1>6. UserInv'
    BY <1>0, Zenon DEF IInv, UserInv, TypeOK
  <1>7. LockInv'
    BY <1>0, <1>2 DEF IInv, LockInv, TypeOK, Holding
  <1>8. DataInv'
    <2>1. \A q \in Procs : pc'[q] \in {"have", "dirty"} => valid'[mine'[q]]
      BY <1>0 DEF IInv, DataInv, TypeOK
    <2>2. \A c \in Bufs : valid'[c] => c # b /\ valid[c] /\ bno'[c] = bno[c]
      BY <1>0, Zenon DEF IInv, TypeOK
    <2>3. \A c \in Bufs : (\A q \in Procs : mine'[q] = c => pc'[q] # "dirty") /\ c # b
            => \A q \in Procs : mine[q] = c => pc[q] # "dirty"
      BY <1>0, Zenon DEF IInv, TypeOK
    <2>4. QED
      BY <1>0, <2>1, <2>2, <2>3 DEF IInv, DataInv, TypeOK
  <1>9. NoLostWakeup'
    BY <1>0, Zenon DEF IInv, NoLostWakeup, TypeOK
  <1>10. OneBufferPerBlock'
    BY <1>0 DEF IInv, OneBufferPerBlock, TypeOK, Caching
  <1>11. QED
    BY <1>1, <1>5, <1>6, <1>7, <1>8, <1>9, <1>10, Zenon DEF IInv

\* bget(), hit, miss or panic, keeps the invariant.
LEMMA GetInv ==
  ASSUME IInv, NEW p \in Procs, NEW k \in Blocks, bget(p, k)
  PROVE  IInv'
  <1>1. CASE /\ panicked' = TRUE
             /\ UNCHANGED <<bno, valid, refcnt, mine, blk, pc>>
    <2>1. UNCHANGED <<disk, data, locked, pinned>>
      BY Zenon DEF bget
    <2>2. TypeOK'
      BY <1>1, <2>1, Zenon DEF IInv, TypeOK
    <2>3. QED
      BY <1>1, <2>1, <2>2 DEF IInv, RefInv, Refs, UserInv, LockInv, DataInv, NoLostWakeup,
                            OneBufferPerBlock
  <1>2. CASE \E b \in Bufs :
               /\ FirstOf(b, Caching(k))
               /\ refcnt' = [refcnt EXCEPT ![b] = @ + 1]
               /\ mine' = [mine EXCEPT ![p] = b]
               /\ blk' = [blk EXCEPT ![p] = k]
               /\ Goto(p, "lock")
               /\ UNCHANGED <<bno, valid, panicked>>
    BY <1>2, HitInv, Zenon DEF bget, Goto, FirstOf
  <1>3. CASE \E b \in Bufs :
               /\ Caching(k) = {}
               /\ LastOf(b, Unused)
               /\ bno' = [bno EXCEPT ![b] = k]
               /\ Fetch(b)
               /\ refcnt' = [refcnt EXCEPT ![b] = 1]
               /\ mine' = [mine EXCEPT ![p] = b]
               /\ blk' = [blk EXCEPT ![p] = k]
               /\ Goto(p, "lock")
               /\ UNCHANGED panicked
    <2>1. PICK b \in Bufs :
               /\ Caching(k) = {}
               /\ LastOf(b, Unused)
               /\ bno' = [bno EXCEPT ![b] = k]
               /\ Fetch(b)
               /\ refcnt' = [refcnt EXCEPT ![b] = 1]
               /\ mine' = [mine EXCEPT ![p] = b]
               /\ blk' = [blk EXCEPT ![p] = k]
               /\ Goto(p, "lock")
               /\ UNCHANGED panicked
      BY <1>3, Zenon
    <2>2. b \in Unused /\ pc[p] = "idle" /\ UNCHANGED <<disk, data, locked, pinned>>
      BY <2>1, Zenon DEF LastOf, bget
    <2>3. QED
      BY <2>1, <2>2, MissInv, Zenon DEF Goto, Fetch
  <1>4. QED
    BY <1>1, <1>2, <1>3, Zenon DEF bget

\* acquiresleep() takes a free lock for one process, or goes to sleep on a
\* lock that another one holds.
LEMMA AcquireInv ==
  ASSUME IInv, NEW p \in Procs, acquiresleep(p)
  PROVE  IInv'
  <1>0. /\ mine[p] \in Bufs /\ pc[p] = "lock" /\ p # Nobody
        /\ UNCHANGED <<disk, data, valid, bno, refcnt, pinned, blk, mine, panicked>>
    BY BcacheAssumption, Zenon DEF acquiresleep, contents, cache, IInv, UserInv
  <1>1. PICK b \in Bufs : b = mine[p]
    BY <1>0, Zenon
  <1>2. CASE locked[b] = Nobody
    <2>1. locked' = [locked EXCEPT ![b] = p] /\ pc' = [pc EXCEPT ![p] = "read"]
      BY <1>1, <1>2, Zenon DEF acquiresleep, Goto
    <2>2. TypeOK'
      BY <1>0, <2>1, Zenon DEF IInv, TypeOK, Holding
    <2>3. RefInv' /\ UserInv'
      BY <1>0, <2>1 DEF IInv, TypeOK, RefInv, Refs, UserInv
    <2>4. LockInv'
      BY <1>0, <1>1, <1>2, <2>1, BcacheAssumption DEF IInv, TypeOK, LockInv, Holding
    <2>5. DataInv' /\ OneBufferPerBlock'
      BY <1>0, <2>1 DEF IInv, TypeOK, DataInv, OneBufferPerBlock
    <2>6. NoLostWakeup'
      BY <1>0, <1>1, <1>2, <2>1, Zenon DEF IInv, TypeOK, NoLostWakeup, UserInv
    <2>7. QED
      BY <2>2, <2>3, <2>4, <2>5, <2>6, Zenon DEF IInv
  <1>3. CASE locked[b] # Nobody
    <2>1. UNCHANGED locked /\ pc' = [pc EXCEPT ![p] = "asleep"]
      BY <1>1, <1>3, Zenon DEF acquiresleep, Goto
    <2>2. TypeOK'
      BY <1>0, <2>1, Zenon DEF IInv, TypeOK
    <2>3. RefInv' /\ UserInv'
      BY <1>0, <2>1 DEF IInv, TypeOK, RefInv, Refs, UserInv
    <2>4. LockInv'
      BY <1>0, <2>1 DEF IInv, TypeOK, LockInv, Holding
    <2>5. DataInv' /\ OneBufferPerBlock'
      BY <1>0, <2>1 DEF IInv, TypeOK, DataInv, OneBufferPerBlock
    <2>6. locked[b] # p
      BY <1>0, <1>1, Zenon DEF IInv, LockInv, Holding
    <2>7. NoLostWakeup'
      BY <1>0, <1>1, <1>3, <2>1, <2>6, Zenon DEF IInv, TypeOK, NoLostWakeup
    <2>8. QED
      BY <2>2, <2>3, <2>4, <2>5, <2>7, Zenon DEF IInv
  <1>4. QED
    BY <1>2, <1>3, Zenon

\* A process that has a buffer locked is the only one that changes it.
LEMMA HolderAlone ==
  ASSUME IInv, NEW p \in Procs, pc[p] \in Holding
  PROVE  /\ mine[p] \in Bufs /\ blk[p] \in Blocks /\ locked[mine[p]] = p
         /\ bno[mine[p]] = blk[p]
         /\ \A q \in Procs : q # p /\ mine[q] = mine[p] => pc[q] \notin Holding
  BY DEF IInv, UserInv, LockInv, OneBufferPerBlock, Holding

\* bread(), Modify() and bwrite() move p among the states of a lock holder and
\* change nothing but contents.
LEMMA ContentsInv ==
  ASSUME IInv, NEW p \in Procs, pc[p] \in Holding, NEW l \in Holding,
         pc' = [pc EXCEPT ![p] = l],
         UNCHANGED <<bno, refcnt, locked, pinned, blk, mine, panicked>>,
         TypeOK', DataInv'
  PROVE  IInv'
  <1>1. RefInv' /\ UserInv'
    BY DEF IInv, TypeOK, RefInv, Refs, UserInv, Holding
  <1>2. LockInv'
    BY DEF IInv, TypeOK, LockInv
  <1>3. NoLostWakeup' /\ OneBufferPerBlock'
    BY Zenon DEF IInv, TypeOK, NoLostWakeup, OneBufferPerBlock, Holding
  <1>4. QED
    BY <1>1, <1>2, <1>3, Zenon DEF IInv

\* bread() fills an invalid buffer with its block.
LEMMA ReadInv ==
  ASSUME IInv, NEW p \in Procs, bread(p)
  PROVE  IInv'
  <1>0. /\ pc[p] = "read" /\ pc[p] \in Holding /\ "have" \in Holding
        /\ pc' = [pc EXCEPT ![p] = "have"]
        /\ valid' = [valid EXCEPT ![mine[p]] = TRUE]
        /\ data' = IF valid[mine[p]] THEN data
                   ELSE [data EXCEPT ![mine[p]] = disk[bno[mine[p]]]]
        /\ UNCHANGED <<disk, bno, refcnt, locked, pinned, blk, mine, panicked>>
    BY Zenon DEF bread, Goto, cache, Holding
  <1>1. PICK b \in Bufs : b = mine[p] /\ bno[b] \in Blocks
    BY <1>0, HolderAlone, Zenon
  <1>2. TypeOK'
    BY <1>0, <1>1, BcacheAssumption, Zenon DEF IInv, TypeOK
  <1>3. \A q \in Procs : mine[q] = b => pc[q] # "dirty"
    BY <1>0, <1>1, HolderAlone, Zenon DEF Holding
  <1>4. valid[b] \/ b \notin pinned
    BY Zenon DEF IInv, DataInv
  <1>5. DataInv'
    BY <1>0, <1>1, <1>3, <1>4, BcacheAssumption DEF IInv, DataInv, TypeOK
  <1>6. QED
    BY <1>0, <1>2, <1>5, ContentsInv, Zenon

\* The holder modifies its buffer.
LEMMA ModifyInv ==
  ASSUME IInv, NEW p \in Procs, NEW v \in Vals, Modify(p, v)
  PROVE  IInv'
  <1>0. /\ pc[p] \in {"have", "dirty"} /\ pc[p] \in Holding /\ "dirty" \in Holding
        /\ pc' = [pc EXCEPT ![p] = "dirty"]
        /\ data' = [data EXCEPT ![mine[p]] = v]
        /\ UNCHANGED <<disk, valid, bno, refcnt, locked, pinned, blk, mine, panicked>>
    BY Zenon DEF Modify, Goto, cache, Holding
  <1>1. PICK b \in Bufs : b = mine[p]
    BY <1>0, HolderAlone, Zenon
  <1>2. TypeOK'
    BY <1>0, <1>1, Zenon DEF IInv, TypeOK
  <1>3. DataInv'
    BY <1>0, <1>1, Zenon DEF IInv, DataInv, TypeOK
  <1>4. QED
    BY <1>0, <1>2, <1>3, ContentsInv, Zenon

\* bwrite() makes the block equal to its buffer.
LEMMA WriteInv ==
  ASSUME IInv, NEW p \in Procs, bwrite(p)
  PROVE  IInv'
  <1>0. /\ pc[p] \in {"have", "dirty"} /\ pc[p] \in Holding /\ "have" \in Holding
        /\ pc' = [pc EXCEPT ![p] = "have"]
        /\ disk' = [disk EXCEPT ![bno[mine[p]]] = data[mine[p]]]
        /\ UNCHANGED <<data, valid, bno, refcnt, locked, pinned, blk, mine, panicked>>
    BY Zenon DEF bwrite, Goto, cache, Holding
  <1>1. PICK b \in Bufs : b = mine[p] /\ bno[b] \in Blocks
    BY <1>0, HolderAlone, Zenon
  <1>2. TypeOK'
    BY <1>0, <1>1, Zenon DEF IInv, TypeOK
  <1>3. \A c \in Bufs : c # b => bno[c] # bno[b]
    BY <1>1, BcacheAssumption, Zenon DEF IInv, OneBufferPerBlock
  <1>4. DataInv'
    <2>1. disk'[bno[b]] = data[b]
      BY <1>0, <1>1, Zenon DEF IInv, TypeOK
    <2>2. \A c \in Bufs : c # b /\ bno[c] \in Blocks => disk'[bno[c]] = disk[bno[c]]
      BY <1>0, <1>1, <1>3, Zenon DEF IInv, TypeOK
    <2>3. \A c \in Bufs : valid[c] => bno[c] \in Blocks
      BY Zenon DEF IInv, DataInv, TypeOK
    <2>4. \A c \in Bufs : c # b => \A q \in Procs : mine[q] = c => pc'[q] = pc[q]
      BY <1>0, <1>1, Zenon DEF IInv, TypeOK
    <2>5. \A q \in Procs : pc'[q] \in {"have", "dirty"} => pc[q] \in {"have", "dirty"}
      BY <1>0, Zenon DEF IInv, TypeOK
    <2>6. QED
      BY <1>0, <1>1, <2>1, <2>2, <2>3, <2>4, <2>5 DEF IInv, DataInv
  <1>5. QED
    BY <1>0, <1>2, <1>4, ContentsInv, Zenon

\* log_write() pins a modified buffer: the log becomes one more holder.
LEMMA PinInv ==
  ASSUME IInv, NEW p \in Procs, bpin(p)
  PROVE  IInv'
  <1>0. /\ pc[p] = "dirty" /\ pc[p] \in Holding /\ "have" \in Holding
        /\ pc' = [pc EXCEPT ![p] = "have"]
        /\ UNCHANGED <<disk, data, valid, bno, locked, blk, mine, panicked>>
    BY Zenon DEF bpin, Goto, contents, Holding
  <1>1. PICK b \in Bufs : b = mine[p] /\ valid[b]
    BY <1>0, HolderAlone, Zenon DEF IInv, DataInv
  <1>2. UserInv' /\ LockInv'
    BY <1>0 DEF IInv, TypeOK, UserInv, LockInv, Holding
  <1>3. NoLostWakeup' /\ OneBufferPerBlock'
    BY <1>0, Zenon DEF IInv, TypeOK, NoLostWakeup, OneBufferPerBlock, Holding
  <1>4. b \in pinned' /\ pinned \subseteq pinned' /\ pinned' \subseteq pinned \cup {b}
    BY <1>1, Zenon DEF bpin
  <1>5. DataInv'
    BY <1>0, <1>1, <1>4 DEF IInv, TypeOK, DataInv
  <1>6. CASE b \in pinned
    <2>1. UNCHANGED <<pinned, refcnt>>
      BY <1>1, <1>6, Zenon DEF bpin
    <2>2. TypeOK' /\ RefInv'
      BY <1>0, <2>1 DEF IInv, TypeOK, RefInv, Refs, Holding
    <2>3. QED
      BY <1>2, <1>3, <1>5, <2>2, Zenon DEF IInv
  <1>7. CASE b \notin pinned
    <2>1. /\ Cardinality(pinned) < MAXPIN /\ pinned' = pinned \cup {b}
          /\ refcnt' = [refcnt EXCEPT ![b] = @ + 1]
      BY <1>1, <1>7, Zenon DEF bpin
    <2>2. TypeOK'
      BY <1>0, <2>1 DEF IInv, TypeOK, Holding
    <2>3. Refs(b)' = Refs(b) \cup {Nobody} /\ Nobody \notin Refs(b)
      BY <1>0, <1>7, <2>1, BcacheAssumption, Zenon DEF Refs
    <2>4. \A c \in Bufs : c # b => Refs(c)' = Refs(c)
      BY <1>0, <2>1, Zenon DEF Refs
    <2>5. \A c \in Bufs : refcnt'[c] = Cardinality(Refs(c)')
      BY <2>1, <2>3, <2>4, Ref, RefsType DEF IInv, TypeOK, RefInv
    <2>6. Cardinality(pinned') = Cardinality(pinned) + 1 /\ Cardinality(pinned) \in Nat
      BY <1>7, <2>1, BcacheAssumption, FS_Subset, FS_AddElement, FS_CardinalityType, Zenon
         DEF IInv, TypeOK
    <2>7. RefInv'
      BY <2>1, <2>5, <2>6, BcacheAssumption DEF RefInv
    <2>8. QED
      BY <1>2, <1>3, <1>5, <2>2, <2>7, Zenon DEF IInv
  <1>8. QED
    BY <1>6, <1>7, Zenon

\* install_trans() unpins a buffer whose block it has just written.
LEMMA UnpinInv ==
  ASSUME IInv, NEW p \in Procs, bunpin(p)
  PROVE  IInv'
  <1>0. /\ pc[p] = "have"
        /\ UNCHANGED <<disk, data, valid, bno, locked, pc, blk, mine, panicked>>
    BY Zenon DEF bunpin, contents
  <1>1. PICK b \in Bufs : b = mine[p]
    BY <1>0, HolderAlone, Zenon DEF Holding
  <1>2. /\ b \in pinned /\ data[b] = disk[bno[b]]
        /\ pinned' = pinned \ {b} /\ refcnt' = [refcnt EXCEPT ![b] = @ - 1]
    BY <1>1, Zenon DEF bunpin, Unref
  <1>3. UserInv' /\ LockInv' /\ NoLostWakeup' /\ OneBufferPerBlock'
    BY <1>0 DEF IInv, UserInv, LockInv, NoLostWakeup, OneBufferPerBlock
  <1>4. DataInv'
    BY <1>0, <1>2, Zenon DEF IInv, DataInv
  <1>5. Refs(b)' = Refs(b) \ {Nobody} /\ Nobody \in Refs(b)
    BY <1>0, <1>2, BcacheAssumption, Zenon DEF Refs
  <1>6. \A c \in Bufs : c # b => Refs(c)' = Refs(c)
    BY <1>0, <1>2, Zenon DEF Refs
  <1>7. \A c \in Bufs : refcnt'[c] = Cardinality(Refs(c)') /\ refcnt'[c] \in Nat
    <2>1. /\ Cardinality(Refs(b) \ {Nobody}) = Cardinality(Refs(b)) - 1
          /\ Cardinality(Refs(b)) - 1 \in Nat
      BY <1>5, Deref, RefsType, Zenon
    <2>2. refcnt'[b] = Cardinality(Refs(b)') /\ refcnt'[b] \in Nat
      BY <1>2, <1>5, <2>1, Zenon DEF IInv, TypeOK, RefInv
    <2>3. QED
      BY <1>2, <1>6, <2>2, Zenon DEF IInv, TypeOK, RefInv
  <1>8. Cardinality(pinned') = Cardinality(pinned) - 1 /\ Cardinality(pinned) \in Nat
    BY <1>2, BcacheAssumption, FS_Subset, FS_RemoveElement, FS_CardinalityType, Zenon
       DEF IInv, TypeOK
  <1>9. RefInv'
    BY <1>7, <1>8, BcacheAssumption DEF IInv, RefInv
  <1>10. TypeOK'
    BY <1>0, <1>2, <1>7, Zenon DEF IInv, TypeOK
  <1>11. QED
    BY <1>3, <1>4, <1>9, <1>10, Zenon DEF IInv

\* releasesleep() frees the lock and wakes everyone who sleeps for it.
LEMMA ReleaseInv ==
  ASSUME IInv, NEW p \in Procs, releasesleep(p)
  PROVE  IInv'
  <1>0. /\ pc[p] = "have"
        /\ UNCHANGED <<disk, data, valid, bno, refcnt, pinned, blk, mine, panicked>>
    BY Zenon DEF releasesleep, contents, cache
  <1>1. PICK b \in Bufs : b = mine[p] /\ locked[b] = p
    BY <1>0, HolderAlone, Zenon DEF Holding
  <1>2. /\ locked' = [locked EXCEPT ![b] = Nobody]
        /\ pc' = [[q \in Procs |-> IF pc[q] = "asleep" /\ mine[q] = b THEN "lock" ELSE pc[q]]
                   EXCEPT ![p] = "release"]
    BY <1>1, Zenon DEF releasesleep, Wake
  <1>3. /\ pc'[p] = "release"
        /\ \A q \in Procs : q # p =>
             pc'[q] = IF pc[q] = "asleep" /\ mine[q] = b THEN "lock" ELSE pc[q]
    BY <1>2, Zenon
  <1>4. TypeOK'
    <2>1. pc' \in [Procs -> {"idle", "lock", "asleep", "release"} \cup Holding]
      BY <1>2, Zenon DEF IInv, TypeOK
    <2>2. QED
      BY <1>0, <1>2, <2>1, Zenon DEF IInv, TypeOK
  <1>5. RefInv' /\ UserInv'
    BY <1>0, <1>3, Zenon DEF IInv, RefInv, Refs, UserInv
  <1>6. LockInv'
    <2>1. \A q \in Procs : q # p => (pc'[q] \in Holding <=> pc[q] \in Holding)
      BY <1>3, Zenon DEF Holding
    <2>2. pc'[p] \notin Holding
      BY <1>3, Zenon DEF Holding
    <2>3. \A c \in Bufs : c # b => locked'[c] = locked[c] /\ locked[c] # p
      BY <1>1, <1>2 DEF IInv, TypeOK, LockInv
    <2>4. locked'[b] = Nobody /\ p # Nobody /\ \A q \in Procs : q # Nobody
      BY <1>2, BcacheAssumption, Zenon DEF IInv, TypeOK
    <2>5. \A q \in Procs : q # p => ~(mine[q] = b /\ pc[q] \in Holding)
      BY <1>1, Zenon DEF IInv, LockInv
    <2>6. \A q \in Procs, c \in Bufs : locked[c] = q <=> mine[q] = c /\ pc[q] \in Holding
      BY Zenon DEF IInv, LockInv
    <2>7. ASSUME NEW q \in Procs, NEW c \in Bufs
          PROVE  locked'[c] = q <=> mine[q] = c /\ pc'[q] \in Holding
      <3>1. CASE q = p
        BY <3>1, <2>2, <2>3, <2>4, Zenon
      <3>2. CASE q # p /\ c = b
        BY <3>2, <2>1, <2>4, <2>5, Zenon
      <3>3. CASE q # p /\ c # b
        BY <3>3, <2>1, <2>3, <2>6
      <3>4. QED
        BY <3>1, <3>2, <3>3, Zenon
    <2>8. QED
      BY <1>0, <2>7, Zenon DEF LockInv
  <1>7. DataInv'
    <2>1. \A q \in Procs : pc'[q] = "dirty" <=> pc[q] = "dirty"
      BY <1>0, <1>3, Zenon
    <2>2. \A q \in Procs : pc'[q] = "have" => pc[q] = "have"
      BY <1>0, <1>3, Zenon
    <2>3. QED
      BY <1>0, <2>1, <2>2, Zenon DEF IInv, DataInv
  <1>8. NoLostWakeup'
    <2>1. \A q \in Procs : pc'[q] = "asleep" =>
            q # p /\ pc[q] = "asleep" /\ mine[q] # b /\ mine[q] \in Bufs
      BY <1>3, Zenon DEF IInv, UserInv
    <2>2. QED
      BY <1>0, <1>2, <2>1, Zenon DEF IInv, TypeOK, NoLostWakeup
  <1>9. OneBufferPerBlock'
    BY <1>0, <1>3, Zenon DEF IInv, OneBufferPerBlock
  <1>10. QED
    BY <1>4, <1>5, <1>6, <1>7, <1>8, <1>9, Zenon DEF IInv

\* brelse() drops the reference it holds.
LEMMA BrelseInv ==
  ASSUME IInv, NEW p \in Procs, brelse(p)
  PROVE  IInv'
  <1>0. /\ pc[p] = "release" /\ pc' = [pc EXCEPT ![p] = "idle"]
        /\ mine' = [mine EXCEPT ![p] = Nobody] /\ blk' = [blk EXCEPT ![p] = NoBlock]
        /\ UNCHANGED <<disk, data, valid, bno, locked, pinned, panicked>>
    BY Zenon DEF brelse, contents, Goto
  <1>1. PICK b \in Bufs : b = mine[p] /\ refcnt' = [refcnt EXCEPT ![b] = @ - 1]
    BY <1>0, Zenon DEF brelse, Unref, IInv, UserInv
  <1>2. p # Nobody /\ \A c \in Bufs : c # Nobody
    BY BcacheAssumption, Zenon
  <1>3. Refs(b)' = Refs(b) \ {p} /\ p \in Refs(b)
    BY <1>0, <1>1, <1>2, Zenon DEF Refs, IInv, TypeOK
  <1>4. \A c \in Bufs : c # b => Refs(c)' = Refs(c)
    BY <1>0, <1>1, <1>2, Zenon DEF Refs, IInv, TypeOK
  <1>5. \A c \in Bufs : refcnt'[c] = Cardinality(Refs(c)') /\ refcnt'[c] \in Nat
    BY <1>1, <1>3, <1>4, Deref, RefsType DEF IInv, TypeOK, RefInv
  <1>6. RefInv'
    BY <1>0, <1>5, Zenon DEF IInv, RefInv
  <1>7. TypeOK'
    BY <1>0, <1>1, <1>5, Zenon DEF IInv, TypeOK
  <1>8. UserInv'
    BY <1>0, Zenon DEF IInv, TypeOK, UserInv
  <1>9. LockInv'
    BY <1>0, <1>1, <1>2 DEF IInv, TypeOK, LockInv, Holding
  <1>10. DataInv'
    BY <1>0, <1>1, Zenon DEF IInv, TypeOK, DataInv
  <1>11. NoLostWakeup' /\ OneBufferPerBlock'
    BY <1>0, Zenon DEF IInv, TypeOK, NoLostWakeup, OneBufferPerBlock
  <1>12. QED
    BY <1>6, <1>7, <1>8, <1>9, <1>10, <1>11, Zenon DEF IInv
-----------------------------------------------------------------------------
(* Theorems.                                                               *)

\* Every step of the cache keeps the invariant.
LEMMA NextInv ==
  ASSUME IInv, [Next]_vars
  PROVE  IInv'
  <1>1. CASE UNCHANGED vars
    <2>1. TypeOK'
      BY <1>1, Zenon DEF IInv, vars, TypeOK
    <2>2. RefInv' /\ UserInv'
      BY <1>1, Zenon DEF IInv, vars, RefInv, Refs, UserInv
    <2>3. LockInv' /\ DataInv'
      BY <1>1, Zenon DEF IInv, vars, LockInv, DataInv
    <2>4. NoLostWakeup' /\ OneBufferPerBlock'
      BY <1>1, Zenon DEF IInv, vars, NoLostWakeup, OneBufferPerBlock
    <2>5. QED
      BY <2>1, <2>2, <2>3, <2>4, Zenon DEF IInv
  <1>2. CASE Next
    BY <1>2, GetInv, AcquireInv, ReadInv, ModifyInv, WriteInv, PinInv, UnpinInv, ReleaseInv,
       BrelseInv, Zenon DEF Next, Step
  <1>3. QED
    BY <1>1, <1>2, Zenon

\* Reference counts, locks, waiters, tags and contents of the buffers of
\* kernel/bio.c agree in every reachable state.
THEOREM Inductive == Spec => []IInv
  BY InitInv, NextInv, PTL DEF Spec

\* bget() never lets two buffers cache one block, and never takes a buffer
\* from a process that has it or waits for it.
THEOREM NoDoubleCaching == Spec => []OneBufferPerBlock
  <1>1. IInv => OneBufferPerBlock
    BY Zenon DEF IInv
  <1>2. QED
    BY <1>1, Inductive, PTL

\* releasesleep() leaves nobody asleep on a free lock.
THEOREM SleepersHaveHolder == Spec => []NoLostWakeup
  <1>1. IInv => NoLostWakeup
    BY Zenon DEF IInv
  <1>2. QED
    BY <1>1, Inductive, PTL

\* A union is no larger than its parts together.
LEMMA UnionBound ==
  ASSUME NEW S, IsFiniteSet(S), NEW T, IsFiniteSet(T)
  PROVE  IsFiniteSet(S \cup T) /\ Cardinality(S \cup T) <= Cardinality(S) + Cardinality(T)
  <1>1. Cardinality(S) \in Nat /\ Cardinality(T) \in Nat
    BY FS_CardinalityType, Zenon
  <1>2. IsFiniteSet(S \cap T)
    BY FS_Subset, Zenon
  <1>3. Cardinality(S \cap T) \in Nat
    BY <1>2, FS_CardinalityType, Zenon
  <1>4. /\ IsFiniteSet(S \cup T)
        /\ Cardinality(S \cup T) = Cardinality(S) + Cardinality(T) - Cardinality(S \cap T)
    BY FS_Union, Zenon
  <1>5. QED
    BY <1>1, <1>3, <1>4

\* While a process is idle, the others and the pins cannot use up the buffers.
LEMMA BufferLeft ==
  ASSUME IInv, NEW p \in Procs, pc[p] = "idle",
         Cardinality(Procs) + MAXPIN <= Cardinality(Bufs)
  PROVE  Unused # {}
  <1> DEFINE Others == Procs \ {p}
             Used == {mine[q] : q \in Others}
             f == [q \in Others |-> mine[q]]
  <1>1. /\ IsFiniteSet(Others) /\ Cardinality(Others) = Cardinality(Procs) - 1
        /\ Cardinality(Procs) \in Nat /\ Cardinality(Bufs) \in Nat
    BY BcacheAssumption, FS_RemoveElement, FS_CardinalityType, Zenon
  <1>2. f \in Surjection(Others, Used)
    BY Zenon DEF Surjection
  <1>3. IsFiniteSet(Used) /\ Cardinality(Used) <= Cardinality(Others)
    BY <1>1, <1>2, FS_Surjection, Zenon
  <1>4. IsFiniteSet(pinned) /\ Cardinality(pinned) \in Nat /\ Cardinality(pinned) <= MAXPIN
    BY BcacheAssumption, FS_Subset, FS_CardinalityType, Zenon DEF IInv, TypeOK, RefInv
  <1>5. /\ IsFiniteSet(Used \cup pinned)
        /\ Cardinality(Used \cup pinned) <= Cardinality(Used) + Cardinality(pinned)
    BY <1>3, <1>4, UnionBound, Zenon
  <1>6. Cardinality(Used) \in Nat /\ Cardinality(Used \cup pinned) \in Nat
    BY <1>3, <1>5, FS_CardinalityType, Zenon
  <1>7. Cardinality(Used \cup pinned) < Cardinality(Bufs)
    BY <1>1, <1>3, <1>4, <1>5, <1>6, BcacheAssumption
  <1>8. ~(Bufs \subseteq Used \cup pinned)
    <2>1. SUFFICES ASSUME Bufs \subseteq Used \cup pinned PROVE FALSE
      BY Zenon
    <2>2. Cardinality(Bufs) <= Cardinality(Used \cup pinned)
      BY <1>5, <2>1, FS_Subset, Zenon
    <2>3. QED
      BY <1>1, <1>6, <1>7, <2>2
  <1>9. PICK b \in Bufs : b \notin pinned /\ \A q \in Others : mine[q] # b
    BY <1>8, Zenon
  <1>10. mine[p] # b
    BY BcacheAssumption, Zenon DEF IInv, UserInv
  <1>11. Refs(b) = {}
    BY <1>9, <1>10, Zenon DEF Refs
  <1>12. QED
    BY <1>11, FS_EmptySet, Zenon DEF IInv, RefInv, Unused

\* With a buffer for every process and every pin, the panic "bget: no buffers"
\* is unreachable.
THEOREM BuffersSuffice == Spec => []EnoughBuffers
  <1>1. Init => EnoughBuffers
    BY Zenon DEF Init, EnoughBuffers
  <1>2. IInv /\ EnoughBuffers /\ [Next]_vars => EnoughBuffers'
    <2> SUFFICES ASSUME IInv, EnoughBuffers, [Next]_vars,
                        Cardinality(Procs) + MAXPIN <= Cardinality(Bufs)
                 PROVE  ~panicked'
      BY Zenon DEF EnoughBuffers
    <2>1. ~panicked
      BY Zenon DEF EnoughBuffers
    <2>2. ASSUME NEW p \in Procs, NEW k \in Blocks, bget(p, k)
          PROVE  ~panicked'
      BY <2>1, <2>2, BufferLeft, Zenon DEF bget
    <2>3. ASSUME NEW p \in Procs, Step(p) \/ \E v \in Vals : Modify(p, v)
          PROVE  UNCHANGED panicked
      BY <2>3, Zenon DEF Step, acquiresleep, bread, Modify, bwrite, bpin, bunpin, releasesleep, brelse
    <2>4. QED
      BY <2>1, <2>2, <2>3, Zenon DEF Next, vars
  <1>3. QED
    BY <1>1, <1>2, Inductive, PTL DEF Spec
-----------------------------------------------------------------------------
(* The cache implements BlockStore.                                        *)

\* The view of a cached block is its buffer, that of another one the disk.
LEMMA ViewIs ==
  ASSUME NEW bn, NEW va, NEW da, NEW d, NEW k \in Blocks,
         \A b, c \in Bufs : bn[b] = k /\ bn[c] = k => b = c
  PROVE  /\ \A b \in Bufs : bn[b] = k /\ va[b] => View(bn, va, da, d)[k] = da[b]
         /\ (\A b \in Bufs : ~(bn[b] = k /\ va[b])) => View(bn, va, da, d)[k] = d[k]
  <1>1. ASSUME NEW b \in Bufs, bn[b] = k, va[b]
        PROVE  View(bn, va, da, d)[k] = da[b]
    <2>1. (CHOOSE c \in Bufs : bn[c] = k /\ va[c]) = b
      BY <1>1, Zenon
    <2>2. QED
      BY <1>1, <2>1, Zenon DEF View
  <1>2. QED
    BY <1>1, Zenon DEF View

\* The owner of a block is the one process that holds it.
LEMMA OwnerIs ==
  ASSUME NEW bl, NEW at, NEW k \in Blocks,
         \A p, q \in Procs : bl[p] = k /\ bl[q] = k /\ at[p] \in Holding /\ at[q] \in Holding
                             => p = q
  PROVE  /\ \A p \in Procs : bl[p] = k /\ at[p] \in Holding => Owners(bl, at)[k] = p
         /\ (\A p \in Procs : ~(bl[p] = k /\ at[p] \in Holding)) => Owners(bl, at)[k] = Nobody
  <1>1. ASSUME NEW p \in Procs, bl[p] = k, at[p] \in Holding
        PROVE  Owners(bl, at)[k] = p
    <2>1. (CHOOSE q \in Procs : bl[q] = k /\ at[q] \in Holding) = p
      BY <1>1, Zenon
    <2>2. QED
      BY <1>1, <2>1, Zenon DEF Owners
  <1>2. QED
    BY <1>1, Zenon DEF Owners

\* Views and owners are functions on the blocks.
LEMMA Functional ==
  /\ \A bn, va, da, d : View(bn, va, da, d) = [k \in Blocks |-> View(bn, va, da, d)[k]]
  /\ \A bl, at : Owners(bl, at) = [k \in Blocks |-> Owners(bl, at)[k]]
  BY DEF View, Owners

\* No block has two holders.
LEMMA OneHolder ==
  ASSUME IInv, NEW p \in Procs, NEW q \in Procs,
         pc[p] \in Holding, pc[q] \in Holding, blk[p] = blk[q]
  PROVE  p = q
  <1>1. mine[p] \in Bufs /\ mine[q] \in Bufs /\ blk[p] # NoBlock
    BY HolderAlone, BcacheAssumption, Zenon
  <1>2. mine[p] = mine[q]
    BY SMTT(30), Z3T(30), <1>1, HolderAlone DEF IInv, OneBufferPerBlock
  <1>3. QED
    BY <1>2, HolderAlone, Zenon

\* A step that leaves holders and their blocks alone leaves owners alone.
LEMMA SameOwners ==
  ASSUME IInv,
         \A p \in Procs : pc'[p] \in Holding <=> pc[p] \in Holding,
         \A p \in Procs : pc[p] \in Holding => blk'[p] = blk[p]
  PROVE  Owners(blk', pc') = Owners(blk, pc)
  <1>1. ASSUME NEW k \in Blocks
        PROVE  Owners(blk', pc')[k] = Owners(blk, pc)[k]
    <2>1. \A p, q \in Procs :
            blk[p] = k /\ blk[q] = k /\ pc[p] \in Holding /\ pc[q] \in Holding => p = q
      BY OneHolder, Zenon
    <2>2. \A p, q \in Procs :
            blk'[p] = k /\ blk'[q] = k /\ pc'[p] \in Holding /\ pc'[q] \in Holding => p = q
      BY <2>1, Zenon
    <2>3. CASE \E p \in Procs : blk[p] = k /\ pc[p] \in Holding
      BY <2>1, <2>2, <2>3, OwnerIs
    <2>4. CASE \A p \in Procs : ~(blk[p] = k /\ pc[p] \in Holding)
      BY SMTT(30), Z3T(30), <2>1, <2>2, <2>4, OwnerIs
    <2>5. QED
      BY <2>3, <2>4, Zenon
  <1>2. QED
    BY <1>1, Zenon DEF Owners

\* In a state of the cache: what the view of each block is.
LEMMA ViewNow ==
  ASSUME IInv
  PROVE  /\ \A k \in Blocks, b \in Bufs : bno[b] = k /\ valid[b]
              => View(bno, valid, data, disk)[k] = data[b]
         /\ \A k \in Blocks : (\A b \in Bufs : ~(bno[b] = k /\ valid[b]))
              => View(bno, valid, data, disk)[k] = disk[k]
  <1>1. \A k \in Blocks : \A b, c \in Bufs : bno[b] = k /\ bno[c] = k => b = c
    BY BcacheAssumption, Zenon DEF IInv, OneBufferPerBlock
  <1>2. QED
    BY <1>1, ViewIs

\* The same after a step.
LEMMA ViewThen ==
  ASSUME IInv'
  PROVE  /\ \A k \in Blocks, b \in Bufs : bno'[b] = k /\ valid'[b]
              => View(bno', valid', data', disk')[k] = data'[b]
         /\ \A k \in Blocks : (\A b \in Bufs : ~(bno'[b] = k /\ valid'[b]))
              => View(bno', valid', data', disk')[k] = disk'[k]
  <1>1. \A k \in Blocks : \A b, c \in Bufs : bno'[b] = k /\ bno'[c] = k => b = c
    BY BcacheAssumption, Zenon DEF IInv, OneBufferPerBlock
  <1>2. QED
    BY SMTT(40), Z3T(40), <1>1, ViewIs

\* The view of a block stays if its valid buffer and, without one, its
\* contents on the disk stay.
LEMMA KeepView ==
  ASSUME IInv, IInv', NEW j \in Blocks,
         \A c \in Bufs : (bno[c] = j /\ valid[c]) <=> (bno'[c] = j /\ valid'[c]),
         \A c \in Bufs : bno[c] = j /\ valid[c] => data'[c] = data[c],
         (\A c \in Bufs : ~(bno[c] = j /\ valid[c])) => disk'[j] = disk[j]
  PROVE  View(bno', valid', data', disk')[j] = View(bno, valid, data, disk)[j]
  <1>1. CASE \E c \in Bufs : bno[c] = j /\ valid[c]
    BY SMTT(40), Z3T(40), <1>1, ViewNow, ViewThen
  <1>2. CASE \A c \in Bufs : ~(bno[c] = j /\ valid[c])
    BY <1>2, ViewNow, ViewThen, Zenon
  <1>3. QED
    BY <1>1, <1>2, Zenon

\* Views that agree on every block are equal.
LEMMA SameView ==
  ASSUME \A k \in Blocks : View(bno', valid', data', disk')[k] = View(bno, valid, data, disk)[k]
  PROVE  View(bno', valid', data', disk') = View(bno, valid, data, disk)
  BY Zenon DEF View

\* bget() changes no contents, even when it recycles a buffer, and locks
\* nothing.
LEMMA GetRef ==
  ASSUME IInv, IInv', NEW p \in Procs, NEW k \in Blocks, bget(p, k)
  PROVE  UNCHANGED BS!svars
  <1>0. pc[p] = "idle" /\ UNCHANGED <<disk, data>>
    BY Zenon DEF bget
  <1>1. Owners(blk', pc') = Owners(blk, pc)
    <2>1. \A q \in Procs : q # p => pc'[q] = pc[q] /\ blk'[q] = blk[q]
      BY SMTT(30), Z3T(30) DEF bget, Goto, IInv, TypeOK
    <2>2. pc[p] \notin Holding /\ pc'[p] \notin Holding
      BY SMTT(40), Z3T(40), <1>0 DEF bget, Goto, IInv, TypeOK, Holding
    <2>3. QED
      BY <2>1, <2>2, SameOwners, Zenon
  <1>2. CASE UNCHANGED <<bno, valid>>
    BY <1>0, <1>1, <1>2, Zenon DEF BS!svars
  <1>3. CASE \E b \in Unused : /\ Caching(k) = {}
                               /\ bno' = [bno EXCEPT ![b] = k]
                               /\ valid' = [valid EXCEPT ![b] = FALSE]
    <2>1. PICK b \in Unused : /\ Caching(k) = {}
                              /\ bno' = [bno EXCEPT ![b] = k]
                              /\ valid' = [valid EXCEPT ![b] = FALSE]
      BY <1>3, Zenon
    <2>2. b \in Bufs /\ b \notin pinned /\ \A q \in Procs : mine[q] # b
      BY UnusedIsFree, Zenon
    <2>3. valid[b] => data[b] = disk[bno[b]] /\ bno[b] \in Blocks
      BY SMTT(40), Z3T(40), <2>2 DEF IInv, DataInv, TypeOK
    <2>4. \A c \in Bufs : c # b => bno'[c] = bno[c] /\ valid'[c] = valid[c]
      BY <2>1, Zenon DEF IInv, TypeOK
    <2>5. ~valid'[b] /\ \A c \in Bufs : bno[c] # k
      BY <2>1, <2>2, Zenon DEF IInv, TypeOK, Caching
    <2>6. ASSUME NEW j \in Blocks
          PROVE  View(bno', valid', data', disk')[j] = View(bno, valid, data, disk)[j]
      <3>1. CASE \E c \in Bufs : c # b /\ bno[c] = j /\ valid[c]
        BY SMTT(40), Z3T(40), <3>1, <2>4, <1>0, ViewNow, ViewThen
      <3>2. CASE bno[b] = j /\ valid[b]
        <4>1. \A c \in Bufs : ~(bno'[c] = j /\ valid'[c])
          BY SMTT(40), Z3T(40), <3>2, <2>2, <2>4, <2>5, BcacheAssumption DEF IInv, OneBufferPerBlock
        <4>2. QED
          BY <3>2, <4>1, <2>2, <2>3, <1>0, ViewNow, ViewThen
      <3>3. CASE \A c \in Bufs : ~(bno[c] = j /\ valid[c])
        BY SMTT(40), Z3T(40), <3>3, <2>4, <2>5, <1>0, ViewNow, ViewThen
      <3>4. QED
        BY <3>1, <3>2, <3>3, Zenon
    <2>7. QED
      BY <1>1, <2>6, SameView, Zenon DEF BS!svars
  <1>4. QED
    BY <1>2, <1>3, Zenon DEF bget, LastOf, Fetch

\* acquiresleep() locks a free block, or changes nothing.
LEMMA AcquireRef ==
  ASSUME IInv, IInv', NEW p \in Procs, acquiresleep(p)
  PROVE  BS!SNext \/ UNCHANGED BS!svars
  <1>0. /\ pc[p] = "lock" /\ mine[p] \in Bufs /\ blk[p] \in Blocks /\ bno[mine[p]] = blk[p]
        /\ UNCHANGED <<disk, data, valid, bno, blk, mine>>
    BY Zenon DEF acquiresleep, contents, cache, IInv, UserInv, OneBufferPerBlock
  <1>1. CASE locked[mine[p]] = Nobody
    <2>1. pc' = [pc EXCEPT ![p] = "read"]
      BY <1>1, Zenon DEF acquiresleep, Goto
    <2>2. PICK k \in Blocks : k = blk[p]
      BY <1>0, Zenon
    <2>3. \A q \in Procs : ~(blk[q] = k /\ pc[q] \in Holding)
      <3> SUFFICES ASSUME NEW q \in Procs, blk[q] = k, pc[q] \in Holding PROVE FALSE
        BY Zenon
      <3>1. mine[q] = mine[p]
        BY SMTT(40), Z3T(40), <1>0, <2>2, HolderAlone, BcacheAssumption DEF IInv, OneBufferPerBlock
      <3>2. QED
        BY <1>1, <3>1, HolderAlone, BcacheAssumption
    <2>4. Owners(blk, pc)[k] = Nobody
      BY <2>3, OwnerIs, Zenon
    <2>5. \A q \in Procs : q # p => pc'[q] = pc[q]
      BY <2>1, Zenon DEF IInv, TypeOK
    <2>6. pc'[p] \in Holding
      BY <2>1, Zenon DEF IInv, TypeOK, Holding
    <2>7. \A q, r \in Procs : blk'[q] = blk'[r] /\ pc'[q] \in Holding /\ pc'[r] \in Holding
            => q = r
      BY <1>0, <2>2, <2>3, <2>5, OneHolder, Zenon
    <2>8. Owners(blk', pc')[k] = p
      BY SMTT(40), Z3T(40), <1>0, <2>2, <2>6, <2>7, OwnerIs
    <2>9. \A j \in Blocks : j # k => Owners(blk', pc')[j] = Owners(blk, pc)[j]
      <3> SUFFICES ASSUME NEW j \in Blocks, j # k
                   PROVE  Owners(blk', pc')[j] = Owners(blk, pc)[j]
        BY Zenon
      <3>1. CASE \E q \in Procs : blk[q] = j /\ pc[q] \in Holding
        <4>1. PICK q \in Procs : blk[q] = j /\ pc[q] \in Holding
          BY <3>1, Zenon
        <4>2. blk'[q] = j /\ pc'[q] \in Holding
          BY <1>0, <2>2, <2>5, <4>1, Zenon
        <4>3. QED
          BY SMTT(40), Z3T(40), <4>1, <4>2, <2>7, OneHolder, OwnerIs
      <3>2. CASE \A q \in Procs : ~(blk[q] = j /\ pc[q] \in Holding)
        <4>1. \A q \in Procs : ~(blk'[q] = j /\ pc'[q] \in Holding)
          BY <1>0, <2>2, <2>5, <3>2, Zenon
        <4>2. QED
          BY SMTT(30), Z3T(30), <3>2, <4>1, OwnerIs
      <3>3. QED
        BY <3>1, <3>2, Zenon
    <2>10. Owners(blk', pc') = [Owners(blk, pc) EXCEPT ![k] = p]
      BY <2>8, <2>9, Functional
    <2>11. BS!Lock(p, k)
      BY <1>0, <2>4, <2>10, Zenon DEF BS!Lock
    <2>12. QED
      BY <2>11, Zenon DEF BS!SNext
  <1>2. CASE locked[mine[p]] # Nobody
    <2>1. pc' = [pc EXCEPT ![p] = "asleep"]
      BY <1>2, Zenon DEF acquiresleep, Goto
    <2>2. Owners(blk', pc') = Owners(blk, pc)
      BY <1>0, <2>1, SameOwners, Zenon DEF IInv, TypeOK, Holding
    <2>3. QED
      BY <1>0, <2>2, Zenon DEF BS!svars
  <1>3. QED
    BY <1>1, <1>2, Zenon

\* bread() shows the holder the contents the block already had.
LEMMA ReadRef ==
  ASSUME IInv, IInv', NEW p \in Procs, bread(p)
  PROVE  UNCHANGED BS!svars
  <1>0. /\ pc[p] \in Holding /\ pc' = [pc EXCEPT ![p] = "have"]
        /\ valid' = [valid EXCEPT ![mine[p]] = TRUE]
        /\ data' = IF valid[mine[p]] THEN data
                   ELSE [data EXCEPT ![mine[p]] = disk[bno[mine[p]]]]
        /\ UNCHANGED <<disk, bno, blk>>
    BY Zenon DEF bread, Goto, cache, Holding
  <1>1. PICK b \in Bufs : b = mine[p] /\ bno[b] \in Blocks
    BY <1>0, HolderAlone, Zenon
  <1>2. Owners(blk', pc') = Owners(blk, pc)
    BY <1>0, SameOwners, Zenon DEF IInv, TypeOK, Holding
  <1>3. \A c \in Bufs : c # b => bno[c] # bno[b] /\ valid'[c] = valid[c] /\ data'[c] = data[c]
    BY <1>0, <1>1, BcacheAssumption DEF IInv, TypeOK, OneBufferPerBlock
  <1>4. valid'[b] /\ data'[b] = IF valid[b] THEN data[b] ELSE disk[bno[b]]
    BY <1>0, <1>1, Zenon DEF IInv, TypeOK
  <1>5. ASSUME NEW j \in Blocks
        PROVE  View(bno', valid', data', disk')[j] = View(bno, valid, data, disk)[j]
    <2>1. UNCHANGED <<disk, bno>>
      BY <1>0, Zenon
    <2>2. CASE j = bno[b]
      <3>1. View(bno', valid', data', disk')[j] = data'[b]
        BY <1>4, <2>1, <2>2, ViewThen, Zenon
      <3>2. CASE valid[b]
        BY <1>4, <2>2, <3>1, <3>2, ViewNow, Zenon
      <3>3. CASE ~valid[b]
        BY <1>3, <1>4, <2>2, <3>1, <3>3, ViewNow, Zenon
      <3>4. QED
        BY <3>2, <3>3, Zenon
    <2>3. CASE j # bno[b]
      BY <1>3, <2>1, <2>3, KeepView, Zenon
    <2>4. QED
      BY <2>2, <2>3, Zenon
  <1>6. QED
    BY <1>2, <1>5, SameView, Zenon DEF BS!svars

\* The holder, and nobody else, changes the contents of its block.
LEMMA ModifyRef ==
  ASSUME IInv, IInv', NEW p \in Procs, NEW v \in Vals, Modify(p, v)
  PROVE  BS!SNext
  <1>0. /\ pc[p] \in {"have", "dirty"} /\ pc[p] \in Holding
        /\ pc' = [pc EXCEPT ![p] = "dirty"]
        /\ data' = [data EXCEPT ![mine[p]] = v]
        /\ UNCHANGED <<disk, valid, bno, blk>>
    BY Zenon DEF Modify, Goto, cache, Holding
  <1>1. PICK b \in Bufs : b = mine[p] /\ bno[b] \in Blocks /\ valid[b] /\ bno[b] = blk[p]
    BY <1>0, HolderAlone, Zenon DEF IInv, DataInv
  <1>2. Owners(blk', pc') = Owners(blk, pc)
    BY <1>0, SameOwners, Zenon DEF IInv, TypeOK, Holding
  <1>3. PICK k \in Blocks : k = bno[b]
    BY <1>1, Zenon
  <1>4. Owners(blk, pc)[k] = p
    BY SMTT(40), Z3T(40), <1>0, <1>1, <1>3, OneHolder, OwnerIs
  <1>5. View(bno', valid', data', disk')[k] = v
    <2>1. data'[b] = v /\ bno'[b] = k /\ valid'[b]
      BY <1>0, <1>1, <1>3 DEF IInv, TypeOK
    <2>2. QED
      BY <2>1, ViewThen, Zenon
  <1>6. \A c \in Bufs : bno[c] # k => data'[c] = data[c]
    BY <1>0, <1>1, <1>3, Zenon DEF IInv, TypeOK
  <1>7. ASSUME NEW j \in Blocks, j # k
        PROVE  View(bno', valid', data', disk')[j] = View(bno, valid, data, disk)[j]
    <2>1. UNCHANGED <<disk, bno, valid>>
      BY <1>0, Zenon
    <2>2. QED
      BY <1>6, <1>7, <2>1, KeepView, Zenon
  <1>8. View(bno', valid', data', disk') = [View(bno, valid, data, disk) EXCEPT ![k] = v]
    BY <1>5, <1>7, Functional
  <1>9. BS!Change(p, k, v)
    BY <1>2, <1>4, <1>8, Zenon DEF BS!Change
  <1>10. QED
    BY <1>9, Zenon DEF BS!SNext

\* bwrite() changes the disk, not what the block is seen to hold.
LEMMA WriteRef ==
  ASSUME IInv, IInv', NEW p \in Procs, bwrite(p)
  PROVE  UNCHANGED BS!svars
  <1>0. /\ pc[p] \in {"have", "dirty"} /\ pc[p] \in Holding
        /\ pc' = [pc EXCEPT ![p] = "have"]
        /\ disk' = [disk EXCEPT ![bno[mine[p]]] = data[mine[p]]]
        /\ UNCHANGED <<data, valid, bno, blk>>
    BY Zenon DEF bwrite, Goto, cache, Holding
  <1>1. PICK b \in Bufs : b = mine[p] /\ bno[b] \in Blocks /\ valid[b]
    BY <1>0, HolderAlone, Zenon DEF IInv, DataInv
  <1>2. Owners(blk', pc') = Owners(blk, pc)
    BY <1>0, SameOwners, Zenon DEF IInv, TypeOK, Holding
  <1>3. \A j \in Blocks : j # bno[b] => disk'[j] = disk[j]
    BY <1>0, <1>1, Zenon DEF IInv, TypeOK
  <1>4. ASSUME NEW j \in Blocks
        PROVE  View(bno', valid', data', disk')[j] = View(bno, valid, data, disk)[j]
    <2>1. UNCHANGED <<data, bno, valid>>
      BY <1>0, Zenon
    <2>2. QED
      BY <1>1, <1>3, <2>1, KeepView, Zenon
  <1>5. QED
    BY <1>2, <1>4, SameView, Zenon DEF BS!svars

\* Pinning, unpinning and dropping a reference are invisible.
LEMMA QuietRef ==
  ASSUME IInv, NEW p \in Procs, bpin(p) \/ bunpin(p) \/ brelse(p)
  PROVE  UNCHANGED BS!svars
  <1>1. UNCHANGED <<disk, data, valid, bno>>
    BY Zenon DEF bpin, bunpin, brelse, contents
  <1>2. Owners(blk', pc') = Owners(blk, pc)
    <2>1. CASE bpin(p)
      BY <2>1, SameOwners, Zenon DEF bpin, Goto, IInv, TypeOK, Holding
    <2>2. CASE bunpin(p)
      BY <2>2, Zenon DEF bunpin
    <2>3. CASE brelse(p)
      BY <2>3, SameOwners DEF brelse, Goto, IInv, TypeOK, Holding
    <2>4. QED
      BY <2>1, <2>2, <2>3, Zenon
  <1>3. QED
    BY <1>1, <1>2, Zenon DEF BS!svars

\* releasesleep() unlocks the block of its caller and no other.
LEMMA ReleaseRef ==
  ASSUME IInv, NEW p \in Procs, releasesleep(p)
  PROVE  BS!SNext
  <1>0. /\ pc[p] = "have" /\ pc[p] \in Holding
        /\ UNCHANGED <<disk, data, valid, bno, blk, mine>>
        /\ pc' = [Wake(mine[p], pc) EXCEPT ![p] = "release"]
    BY Zenon DEF releasesleep, contents, cache, Holding
  <1>1. PICK k \in Blocks : k = blk[p]
    BY <1>0, HolderAlone, Zenon
  <1>2. pc'[p] \notin Holding /\ \A q \in Procs : q # p => (pc'[q] \in Holding <=> pc[q] \in Holding)
    BY <1>0, Zenon DEF Wake, Holding
  <1>3. Owners(blk, pc)[k] = p
    BY SMTT(40), Z3T(40), <1>0, <1>1, OneHolder, OwnerIs
  <1>4. \A q \in Procs : ~(blk'[q] = k /\ pc'[q] \in Holding)
    BY <1>0, <1>1, <1>2, OneHolder, Zenon
  <1>5. Owners(blk', pc')[k] = Nobody
    BY <1>4, OwnerIs, Zenon
  <1>6. ASSUME NEW j \in Blocks, j # k
        PROVE  Owners(blk', pc')[j] = Owners(blk, pc)[j]
    <2>1. CASE \E q \in Procs : blk[q] = j /\ pc[q] \in Holding
      <3>1. PICK q \in Procs : blk[q] = j /\ pc[q] \in Holding
        BY <2>1, Zenon
      <3>2. blk'[q] = j /\ pc'[q] \in Holding
        BY <1>0, <1>1, <1>2, <1>6, <3>1, Zenon
      <3>3. \A r, t \in Procs : blk'[r] = j /\ blk'[t] = j /\ pc'[r] \in Holding
                                  /\ pc'[t] \in Holding => r = t
        BY <1>0, <1>2, OneHolder, Zenon
      <3>4. QED
        BY SMTT(40), Z3T(40), <3>1, <3>2, <3>3, OneHolder, OwnerIs
    <2>2. CASE \A q \in Procs : ~(blk[q] = j /\ pc[q] \in Holding)
      <3>1. \A q \in Procs : ~(blk'[q] = j /\ pc'[q] \in Holding)
        BY <1>0, <1>2, <2>2, Zenon
      <3>2. QED
        BY SMTT(40), Z3T(40), <2>2, <3>1, OwnerIs
    <2>3. QED
      BY <2>1, <2>2, Zenon
  <1>7. Owners(blk', pc') = [Owners(blk, pc) EXCEPT ![k] = Nobody]
    BY <1>5, <1>6, Functional
  <1>8. BS!Unlock(p, k)
    BY <1>0, <1>3, <1>7, Zenon DEF BS!Unlock
  <1>9. QED
    BY <1>8, Zenon DEF BS!SNext

\* The buffer cache implements a store of blocks, each with one current
\* contents and at most one process that sees and changes it.
THEOREM Refinement == Spec => Coherent
  <1>1. Init => BS!SInit
    <2> SUFFICES ASSUME Init PROVE BS!SInit
      BY Zenon
    <2>1. View(bno, valid, data, disk) = disk
      BY Zenon DEF Init, View
    <2>2. Owners(blk, pc) = [k \in Blocks |-> Nobody]
      BY Zenon DEF Init, Owners, Holding
    <2>3. QED
      BY <2>1, <2>2, Zenon DEF BS!SInit, Init
  <1>2. IInv /\ IInv' /\ [Next]_vars => [BS!SNext]_BS!svars
    <2> SUFFICES ASSUME IInv, IInv', [Next]_vars PROVE BS!SNext \/ UNCHANGED BS!svars
      BY Zenon
    <2>1. CASE UNCHANGED vars
      BY <2>1, Zenon DEF vars, BS!svars
    <2>2. CASE Next
      BY <2>2, GetRef, AcquireRef, ReadRef, ModifyRef, WriteRef, QuietRef, ReleaseRef, Zenon
         DEF Next, Step
    <2>3. QED
      BY <2>1, <2>2, Zenon
  <1>3. QED
    BY <1>1, <1>2, Inductive, PTL DEF Spec, Coherent, BS!SSpec
=============================================================================
