---------------------------- MODULE VirtioProofs ----------------------------
(***************************************************************************)
(* Proofs about VirtioDisk, for every number of processes, blocks,         *)
(* descriptors and ring indices.  The steps of a request from the device   *)
(* back to its caller preserve the invariant of VirtioRequests; it implies *)
(* both invariants of VirtioDisk and makes every step one of BlockDevice.  *)
(***************************************************************************)
EXTENDS VirtioRequests

\* One turn of the handler's loop.
LEMMA IntrTurnInv ==
  ASSUME IInv, intr_turn
  PROVE  IInv'
  <1>0. /\ lock = Intr /\ used_idx # uidx /\ used_idx' = Bump(used_idx)
        /\ UNCHANGED <<free, desc, ops, info, avail, avail_idx, disk, uidx, seen, inflight>>
        /\ UNCHANGED <<blk, write, data, lock, raised, head>>
    BY Zenon DEF intr_turn, driver, request
  <1>1. /\ Dist(used_idx', uidx) = Dist(used_idx, uidx) - 1
        /\ Gap(used_idx' % NUM, uidx % NUM) = Dist(used_idx', uidx)
        /\ used_idx % NUM \in Window(used_idx, uidx)
        /\ Window(used_idx', uidx) = Window(used_idx, uidx) \ {used_idx % NUM}
        /\ Window(used_idx, uidx) \subseteq Descs
    BY <1>0, Types, WindowPop, WindowEnd, Zenon DEF IInv, CountInv
  <1>2. PICK p \in Out : used[used_idx % NUM] = head[p] /\ info[head[p]].ok
    BY <1>1, Zenon DEF IInv, RingInv
  <1>3. /\ p \in Active /\ p \in Procs /\ p # Nobody /\ info[head[p]].b = p
        /\ pc[p] \in {"asleep", "wait"} /\ bdisk[p]
    BY <1>2, Types, Constants, ZenonT(60) DEF IInv, ChainInv, Out
  <1>4. /\ panicked' = FALSE /\ bdisk' = [bdisk EXCEPT ![p] = FALSE] /\ pc' = WakeBuf(p, pc)
        /\ used' = [used EXCEPT ![used_idx % NUM] = 0]
    <2>1. info[used[used_idx % NUM]].b = p /\ info[used[used_idx % NUM]].ok /\ ~panicked
      BY <1>2, <1>3, Zenon DEF IInv
    <2>2. panicked' = FALSE
      BY <1>3, <2>1, Zenon DEF intr_turn
    <2>3. QED
      BY <1>3, <2>1, <2>2, Zenon DEF intr_turn
  <1>5. /\ pc' \in [Procs -> {"idle", "alloc", "nodesc", "publish", "asleep", "wait"}] /\ pc'[p] = "wait"
        /\ \A q \in Procs : q # p => pc'[q] = pc[q]
    BY <1>3, <1>4, Zenon DEF WakeBuf, IInv, TypeOK
  <1>6. /\ bdisk' \in [Procs -> BOOLEAN] /\ ~bdisk'[p] /\ \A q \in Procs : q # p => bdisk'[q] = bdisk[q]
        /\ used' \in [Descs -> Descs] /\ \A d \in Descs : d # used_idx % NUM => used'[d] = used[d]
    BY <1>3, <1>4, Types, Bumped, Constants, Zenon DEF IInv, TypeOK
  <1>7. Active' = Active /\ Out' = Out \ {p}
    BY <1>3, <1>5, <1>6, ZenonT(60) DEF Active, Out
  <1>8. TypeOK' /\ Shapes'
    <2>1. used_idx' \in Indices /\ panicked' \in BOOLEAN
      BY <1>0, <1>4, Types, Bumped, ZenonT(60)
    <2>2. QED
      BY <1>0, <1>5, <1>6, <2>1 DEF IInv, TypeOK, Shapes
  <1>9. ChainInv'
    BY <1>0, <1>7, ChainsSame, Zenon
  <1>10. ProcInv'
    <2>1. \A q \in Procs : lock # q
      BY <1>0, Constants, Zenon
    <2>2. QED
      BY <1>0, <1>2, <1>3, <1>5, <1>6, <2>1 DEF IInv, ProcInv
  <1>11. CountInv'
    <2>1. Cardinality(Out') = Cardinality(Out) - 1
      BY <1>2, <1>7, Room, FS_RemoveElement, Zenon
    <2>2. /\ Dist(used_idx, uidx)' = Dist(used_idx, uidx) - 1 /\ Dist(seen, avail_idx)' = Dist(seen, avail_idx)
          /\ Gap(used_idx % NUM, uidx % NUM)' = Dist(used_idx, uidx)'
          /\ Gap(seen % NUM, avail_idx % NUM)' = Gap(seen % NUM, avail_idx % NUM)
      BY <1>0, <1>1, Zenon DEF Dist, Gap
    <2>3. Dist(seen, avail_idx)' + Cardinality(inflight') + Dist(used_idx, uidx)' = Cardinality(Out')
      BY <1>0, <2>1, <2>2, Sums, ZenonT(60)
    <2>4. QED
      BY <1>0, <1>7, <2>2, <2>3, Zenon DEF IInv, CountInv
  <1>12. RingInv'
    <2>1. /\ Window(used_idx, uidx)' = Window(used_idx, uidx) \ {used_idx % NUM}
          /\ Window(seen, avail_idx)' = Window(seen, avail_idx)
      BY <1>0, <1>1, Zenon DEF Window, Dist, Gap
    <2>2. \A d \in Window(used_idx, uidx)' : used'[d] = used[d] /\ used[d] # head[p]
      <3>1. \A d, e \in Window(used_idx, uidx) : used[d] = used[e] => d = e
        BY Zenon DEF IInv, RingInv
      <3>2. QED
        BY <1>1, <1>2, <1>6, <2>1, <3>1, Zenon
    <2>3. \A d \in Window(used_idx, uidx)' : \E q \in Out' : used'[d] = head[q] /\ info[head[q]].ok
      <3>1. \A d \in Window(used_idx, uidx) : \E q \in Out : used[d] = head[q] /\ info[head[q]].ok
        BY Zenon DEF IInv, RingInv
      <3>2. SUFFICES ASSUME NEW d \in Window(used_idx, uidx)'
                     PROVE  \E q \in Out' : used'[d] = head[q] /\ info[head[q]].ok
        BY Zenon
      <3>3. d \in Window(used_idx, uidx) /\ used'[d] = used[d] /\ used[d] # head[p]
        BY <2>1, <2>2, Zenon
      <3>4. PICK q \in Out : used[d] = head[q] /\ info[head[q]].ok
        BY <3>1, <3>3, Zenon
      <3>5. QED
        BY <1>7, <3>3, <3>4, Zenon
    <2>4. \A d, e \in Window(used_idx, uidx)' : used'[d] = used'[e] => d = e
      BY <2>1, <2>2, ZenonT(60) DEF IInv, RingInv
    <2>5. \A q \in Out' : info[head[q]].ok => \E d \in Window(used_idx, uidx)' : used'[d] = head[q]
      <3> SUFFICES ASSUME NEW q \in Out', info[head[q]].ok PROVE \E d \in Window(used_idx, uidx)' : used'[d] = head[q]
        BY Zenon
      <3>1. PICK d \in Window(used_idx, uidx) : used[d] = head[q]
        BY <1>7, Zenon DEF IInv, RingInv
      <3>2. head[q] # head[p]
        BY <1>3, <1>7, Types, Heads, Zenon
      <3>3. d # used_idx % NUM
        BY <1>2, <3>1, <3>2, Zenon
      <3>4. QED
        BY <1>1, <1>6, <2>1, <3>1, <3>3, Zenon
    <2>6. /\ \A d \in Window(seen, avail_idx) :
               avail[d] \notin inflight /\ \E q \in Out' : avail[d] = head[q] /\ ~info[head[q]].ok
          /\ \A h \in inflight : \E q \in Out' : h = head[q] /\ ~info[head[q]].ok
      BY <1>2, <1>7, Zenon DEF IInv, RingInv
    <2>7. QED
      BY <1>0, <2>1, <2>3, <2>4, <2>5, <2>6 DEF IInv, RingInv
  <1>13. WakeInv'
    BY <1>0, <1>3, <1>5, Zenon DEF IInv, WakeInv
  <1>14. QED
    BY <1>4, <1>8, <1>9, <1>10, <1>11, <1>12, <1>13, Zenon DEF IInv

\* The device has done the transfer of d.
LEMMA DeviceDoneInv ==
  ASSUME IInv, NEW d \in Descs, device_done(d)
  PROVE  IInv'
  <1>0. /\ d \in inflight /\ uidx' = Bump(uidx) /\ raised' = TRUE /\ inflight' = inflight \ {d}
        /\ UNCHANGED <<free, desc, ops, avail, avail_idx, seen, blk, write, used_idx, lock, pc, head, bdisk, panicked>>
    BY Zenon DEF device_done, request
  <1>1. PICK p \in Out : d = head[p] /\ ~info[head[p]].ok
    BY <1>0, Zenon DEF IInv, RingInv
  <1>2. /\ p \in Active /\ p \in Procs /\ pc[p] \in {"asleep", "wait"} /\ bdisk[p]
        /\ desc[desc[d].next].addr = p /\ ops[d] = [write |-> write[p], blk |-> blk[p]]
    BY <1>1, Types, Zenon DEF IInv, ChainInv, Out, Second
  <1>3. /\ ops[d].write = write[p] /\ ops[d].blk = blk[p] /\ blk[p] \in Blocks
        /\ write[p] => data[p] \in Vals
    BY <1>2 DEF IInv, ProcInv
  <1>4. /\ data' \in [Procs -> Vals \cup {NoData}] /\ disk' \in [Blocks -> Vals]
        /\ data'[p] = IF write[p] THEN data[p] ELSE disk[blk[p]]
        /\ \A q \in Procs : q # p => data'[q] = data[q]
    <2>1. data \in [Procs -> Vals \cup {NoData}] /\ disk \in [Blocks -> Vals]
      BY Zenon DEF IInv, TypeOK
    <2>2. CASE write[p]
      <3>1. disk' = [disk EXCEPT ![blk[p]] = data[p]] /\ data' = data
        BY <1>2, <1>3, <2>2, Zenon DEF device_done
      <3>2. QED
        BY <1>3, <2>1, <2>2, <3>1, Zenon
    <2>3. CASE ~write[p]
      <3>1. data' = [data EXCEPT ![p] = disk[blk[p]]] /\ disk' = disk
        BY <1>2, <1>3, <2>3, Zenon DEF device_done
      <3>2. QED
        BY <1>2, <1>3, <2>1, <2>3, <3>1, Zenon
    <2>4. QED
      BY <2>2, <2>3, Zenon
  <1>5. /\ info' \in [Descs -> [b : Procs \cup {Nobody}, ok : BOOLEAN]]
        /\ info'[d].ok /\ info'[d].b = info[d].b /\ \A e \in Descs : e # d => info'[e] = info[e]
    <2>1. info \in [Descs -> [b : Procs \cup {Nobody}, ok : BOOLEAN]] /\ info' = [info EXCEPT ![d].ok = TRUE]
      BY Zenon DEF device_done, IInv, Shapes
    <2>2. QED
      BY <2>1, Zenon
  <1>6. /\ used' \in [Descs -> Descs] /\ used'[uidx % NUM] = d
        /\ \A e \in Descs : e # uidx % NUM => used'[e] = used[e]
    BY Types, Bumped, Zenon DEF device_done, IInv, TypeOK
  <1>7. Active' = Active /\ Out' = Out
    BY <1>0, Zenon DEF Active, Out
  <1>8. \A q \in Active : /\ info'[head[q]].b = info[head[q]].b
                          /\ q # p => head[q] # d /\ info'[head[q]] = info[head[q]]
    BY <1>1, <1>2, <1>5, Heads, ZenonT(60)
  <1>9. TypeOK' /\ ~panicked' /\ Shapes'
    <2>1. uidx' \in Indices /\ raised' \in BOOLEAN
      BY <1>0, Types, Bumped, Zenon
    <2>2. Shapes'
      BY <1>0, <1>5, Zenon DEF IInv, Shapes
    <2>3. \A e \in Descs : info'[e].b \in Procs \cup {Nobody} /\ info'[e].ok \in BOOLEAN
      BY <1>5, ZenonT(60)
    <2>4. QED
      BY <1>0, <1>4, <1>6, <2>1, <2>2, <2>3, Zenon DEF IInv, TypeOK
  <1>10. ChainInv'
    BY <1>0, <1>7, <1>8, ChainsSame, Zenon
  <1>11. ProcInv'
    <2>1. \A q \in Procs : pc[q] \in {"publish", "wait"} => q \in Active
      BY Zenon DEF Active
    <2>2. \A q \in Procs : pc[q] = "publish" => ~info'[head[q]].ok
      BY <1>2, <1>8, <2>1, Zenon DEF IInv, ProcInv
    <2>3. \A q \in Procs : pc[q] = "wait" /\ ~bdisk[q] => info'[head[q]].ok
      BY <1>2, <1>8, <2>1, Zenon DEF IInv, ProcInv
    <2>4. \A q \in Procs : pc[q] # "idle" => blk[q] \in Blocks /\ (write[q] => data'[q] \in Vals)
      BY <1>4, Zenon DEF IInv, ProcInv
    <2>5. QED
      BY <1>0, <2>2, <2>3, <2>4, Zenon DEF IInv, ProcInv
  <1>12. Cardinality(inflight') = Cardinality(inflight) - 1 /\ Cardinality(inflight) > 0
    <2>1. IsFiniteSet(inflight') /\ Cardinality(inflight') = Cardinality(inflight) - 1
      BY <1>0, Room, FS_RemoveElement, Zenon
    <2>2. Cardinality(inflight') \in Nat
      BY <2>1, FS_CardinalityType, Zenon
    <2>3. QED
      BY <2>1, <2>2, Room
  <1>13. /\ Dist(used_idx, uidx') = Dist(used_idx, uidx) + 1
         /\ Gap(used_idx % NUM, uidx' % NUM) = Dist(used_idx, uidx')
         /\ Window(used_idx, uidx') = Window(used_idx, uidx) \cup {uidx % NUM}
         /\ uidx % NUM \notin Window(used_idx, uidx) /\ Window(used_idx, uidx) \subseteq Descs
    <2>1. Dist(used_idx, uidx) + 1 < NUM
      BY <1>12, Sums, Zenon
    <2>2. QED
      BY <1>0, <2>1, Types, WindowPush, WindowEnd, Zenon DEF IInv, CountInv
  <1>14. CountInv'
    <2>1. /\ Dist(used_idx, uidx)' = Dist(used_idx, uidx) + 1 /\ Dist(seen, avail_idx)' = Dist(seen, avail_idx)
          /\ Gap(used_idx % NUM, uidx % NUM)' = Dist(used_idx, uidx)'
          /\ Gap(seen % NUM, avail_idx % NUM)' = Gap(seen % NUM, avail_idx % NUM)
      BY <1>0, <1>13, Zenon DEF Dist, Gap
    <2>2. Dist(seen, avail_idx)' + Cardinality(inflight') + Dist(used_idx, uidx)' = Cardinality(Out')
      BY <1>7, <1>12, <2>1, Sums, ZenonT(60)
    <2>3. QED
      BY <1>0, <1>7, <2>1, <2>2, Zenon DEF IInv, CountInv
  <1>15. RingInv'
    <2>1. /\ Window(used_idx, uidx)' = Window(used_idx, uidx) \cup {uidx % NUM}
          /\ Window(seen, avail_idx)' = Window(seen, avail_idx)
      BY <1>0, <1>13, Zenon DEF Window, Dist, Gap
    <2>2. \A q \in Out : q # p => head[q] # d /\ info'[head[q]] = info[head[q]]
      BY <1>8, Types, Zenon
    <2>3. \A e \in Window(used_idx, uidx) : used'[e] = used[e]
      BY <1>6, <1>13, Zenon
    <2>4. \A e \in Window(used_idx, uidx) : used[e] # d /\ \E q \in Out : used[e] = head[q] /\ info'[head[q]].ok
      <3>1. \A e \in Window(used_idx, uidx) : \E q \in Out : used[e] = head[q] /\ info[head[q]].ok
        BY Zenon DEF IInv, RingInv
      <3>2. QED
        BY <1>1, <2>2, <3>1, Zenon
    <2>5. \A e \in Window(used_idx, uidx)' : \E q \in Out : used'[e] = head[q] /\ info'[head[q]].ok
      <3>1. used'[uidx % NUM] = head[p] /\ info'[head[p]].ok
        BY <1>1, <1>5, <1>6, Zenon
      <3>2. \A e \in Window(used_idx, uidx) : \E q \in Out : used'[e] = head[q] /\ info'[head[q]].ok
        <4> SUFFICES ASSUME NEW e \in Window(used_idx, uidx)
                     PROVE  \E q \in Out : used'[e] = head[q] /\ info'[head[q]].ok
          BY Zenon
        <4>1. PICK q \in Out : used[e] = head[q] /\ info'[head[q]].ok
          BY <2>4, Zenon
        <4>2. QED
          BY <2>3, <4>1, Zenon
      <3>3. QED
        BY <2>1, <3>1, <3>2, Zenon
    <2>6. \A e, f \in Window(used_idx, uidx)' : used'[e] = used'[f] => e = f
      <3>1. \A e, f \in Window(used_idx, uidx) : used'[e] = used'[f] => e = f
        BY <2>3, ZenonT(60) DEF IInv, RingInv
      <3>2. \A e \in Window(used_idx, uidx) : used'[e] # used'[uidx % NUM]
        BY <1>6, <2>3, <2>4, Zenon
      <3>3. QED
        BY <2>1, <3>1, <3>2, Zenon
    <2>7. \A q \in Out : info'[head[q]].ok => \E e \in Window(used_idx, uidx)' : used'[e] = head[q]
      <3> SUFFICES ASSUME NEW q \in Out, info'[head[q]].ok PROVE \E e \in Window(used_idx, uidx)' : used'[e] = head[q]
        BY Zenon
      <3>1. CASE q = p
        BY <1>1, <1>6, <2>1, <3>1, ZenonT(60)
      <3>2. CASE q # p
        <4>1. info[head[q]].ok
          BY <2>2, <3>2, Zenon
        <4>2. PICK e \in Window(used_idx, uidx) : used[e] = head[q]
          BY <4>1, Zenon DEF IInv, RingInv
        <4>3. QED
          BY <2>1, <2>3, <4>2, Zenon
      <3>3. QED
        BY <3>1, <3>2, Zenon
    <2>8. \A e \in Window(seen, avail_idx) :
            avail[e] \notin inflight' /\ \E q \in Out : avail[e] = head[q] /\ ~info'[head[q]].ok
      <3>1. \A e \in Window(seen, avail_idx) :
              avail[e] \notin inflight /\ \E q \in Out : avail[e] = head[q] /\ ~info[head[q]].ok
        BY Zenon DEF IInv, RingInv
      <3>2. QED
        BY <1>0, <1>1, <2>2, <3>1, Zenon
    <2>9. \A h \in inflight' : \E q \in Out : h = head[q] /\ ~info'[head[q]].ok
      <3>1. \A h \in inflight : \E q \in Out : h = head[q] /\ ~info[head[q]].ok
        BY Zenon DEF IInv, RingInv
      <3>2. SUFFICES ASSUME NEW h \in inflight' PROVE \E q \in Out : h = head[q] /\ ~info'[head[q]].ok
        BY Zenon
      <3>3. h \in inflight /\ h # d
        BY <1>0, Zenon
      <3>4. PICK q \in Out : h = head[q] /\ ~info[head[q]].ok
        BY <3>1, <3>3, Zenon
      <3>5. q # p
        BY <1>1, <3>3, <3>4, Zenon
      <3>6. QED
        BY <2>2, <3>4, <3>5, Zenon
    <2>10. QED
      BY <1>0, <1>7, <2>1, <2>5, <2>6, <2>7, <2>8, <2>9, SMT DEF IInv, RingInv
  <1>16. WakeInv'
    BY <1>0, Zenon DEF IInv, WakeInv
  <1>17. QED
    BY <1>9, <1>10, <1>11, <1>14, <1>15, <1>16, Zenon DEF IInv

\* What free_chain() frees is the chain of the request.
LEMMA ChainOf ==
  ASSUME IInv, NEW p \in Active
  PROVE  Chain(head[p]) = Chain3(p) /\ Cardinality(Chain3(p)) = 3
  <1>1. /\ desc[head[p]].more /\ desc[Second(p)].more
        /\ head[p] # Second(p) /\ Second(p) # Third(p) /\ Third(p) # head[p]
    BY Zenon DEF IInv, ChainInv
  <1>2. Chain(head[p]) = Chain3(p)
    BY <1>1, Zenon DEF Chain, Chain3, Second, Third
  <1>3. Cardinality(Chain3(p)) = 3
    <2>1. IsFiniteSet({}) /\ Cardinality({}) = 0
      BY FS_EmptySet, Zenon
    <2>2. PICK S, h, m, t : S = {} /\ h = head[p] /\ m = Second(p) /\ t = Third(p)
      BY Zenon
    <2>3. /\ h \notin S /\ m \notin S /\ t \notin S /\ S \cup {h, m, t} = Chain3(p) /\ h # m /\ m # t /\ t # h
          /\ IsFiniteSet(S) /\ Cardinality(S) = 0
      BY <1>1, <2>1, <2>2, Zenon DEF Chain3
    <2>4. Cardinality(S \cup {h, m, t}) = Cardinality(S) + 3
      BY <2>3, ThreeMore
    <2>5. QED
      BY <2>3, <2>4
  <1>4. QED
    BY <1>2, <1>3, Zenon

\* virtio_disk_rw() of p frees its chain and returns.
Returns(p) ==
  /\ Shapes' /\ panicked' = FALSE
  /\ free' = free \cup Chain3(p) /\ \A d \in Descs : d \notin Chain3(p) => desc'[d] = desc[d]
  /\ \A d \in Descs : d # head[p] => info'[d] = info[d] /\ ops'[d] = ops[d]
  /\ pc' \in [Procs -> {"idle", "alloc", "nodesc", "publish", "asleep", "wait"}] /\ pc'[p] = "idle"
  /\ \A q \in Procs : q # p => pc'[q] = IF pc[q] = "nodesc" THEN "alloc" ELSE pc[q]
  /\ blk' \in [Procs -> Blocks \cup {NoBlock}] /\ write' \in [Procs -> BOOLEAN]
  /\ head' \in [Procs -> Descs] /\ data' \in [Procs -> Vals \cup {NoData}] /\ data'[p] = NoData
  /\ \A q \in Procs : q # p => blk'[q] = blk[q] /\ write'[q] = write[q] /\ head'[q] = head[q] /\ data'[q] = data[q]
  /\ UNCHANGED <<avail, avail_idx, disk, used, uidx, seen, inflight, used_idx, lock, raised, bdisk>>

\* The two ways on from sleep().
LEMMA Finishes ==
  ASSUME IInv, NEW p \in Procs, finish(p)
  PROVE  /\ pc[p] = "wait" /\ lock = Nobody
         /\ bdisk[p] => pc' = [pc EXCEPT ![p] = "asleep"] /\
                        UNCHANGED <<driver, device, request, data, used_idx, lock, raised, head, bdisk, panicked>>
         /\ ~bdisk[p] => Returns(p)
  <1>1. pc[p] = "wait" /\ lock = Nobody /\ p \in Active
    BY Zenon DEF finish, Active
  <1>2. ASSUME bdisk[p]
        PROVE  /\ pc' = [pc EXCEPT ![p] = "asleep"]
               /\ UNCHANGED <<driver, device, request, data, used_idx, lock, raised, head, bdisk, panicked>>
    BY <1>2, Zenon DEF finish, Busy, Goto
  <1>3. ASSUME ~bdisk[p] PROVE Returns(p)
    <2>1. /\ info' = [info EXCEPT ![head[p]] = [b |-> Nobody, ok |-> TRUE]]
          /\ ops' = [ops EXCEPT ![head[p]] = NoReq]
          /\ panicked' = (panicked \/ FreeChain(head[p]) \cap free # {})
          /\ desc' = [d \in Descs |-> IF d \in FreeChain(head[p]) THEN ZeroDesc ELSE desc[d]]
          /\ free' = free \cup FreeChain(head[p])
          /\ pc' = [WakeFree(pc) EXCEPT ![p] = "idle"]
          /\ blk' = [blk EXCEPT ![p] = NoBlock] /\ write' = [write EXCEPT ![p] = FALSE]
          /\ head' = [head EXCEPT ![p] = 0] /\ data' = [data EXCEPT ![p] = NoData]
          /\ UNCHANGED <<avail, avail_idx, disk, used, uidx, seen, inflight, used_idx, lock, raised, bdisk>>
      BY <1>3, Zenon DEF finish, Busy, device
    <2>2. FreeChain(head[p]) = Chain3(p) /\ Chain3(p) \cap free = {} /\ panicked = FALSE
      BY <1>1, ChainOf, Zenon DEF FreeChain, IInv, ChainInv, TypeOK
    <2>3. panicked' = FALSE /\ free' = free \cup Chain3(p)
      BY <2>1, <2>2, Zenon
    <2>4. /\ desc \in [Descs -> [addr : {"none", "op", "status"} \cup Procs, more : BOOLEAN, next : Descs]]
          /\ info \in [Descs -> [b : Procs \cup {Nobody}, ok : BOOLEAN]]
          /\ ops \in [Descs -> [write : BOOLEAN, blk : Blocks] \cup {NoReq}]
      BY Zenon DEF IInv, Shapes
    <2>5. /\ desc' \in [Descs -> [addr : {"none", "op", "status"} \cup Procs, more : BOOLEAN, next : Descs]]
          /\ \A d \in Descs : d \notin Chain3(p) => desc'[d] = desc[d]
      <3>1. ZeroDesc \in [addr : {"none", "op", "status"} \cup Procs, more : BOOLEAN, next : Descs]
        BY Constants, Zenon DEF ZeroDesc
      <3>2. QED
        BY <2>1, <2>2, <2>4, <3>1, Zenon
    <2>6. /\ info' \in [Descs -> [b : Procs \cup {Nobody}, ok : BOOLEAN]]
          /\ ops' \in [Descs -> [write : BOOLEAN, blk : Blocks] \cup {NoReq}]
          /\ \A d \in Descs : d # head[p] => info'[d] = info[d] /\ ops'[d] = ops[d]
      BY <2>1, <2>4, Zenon
    <2>7. /\ pc' \in [Procs -> {"idle", "alloc", "nodesc", "publish", "asleep", "wait"}] /\ pc'[p] = "idle"
          /\ \A q \in Procs : q # p => pc'[q] = IF pc[q] = "nodesc" THEN "alloc" ELSE pc[q]
      BY <2>1, Zenon DEF WakeFree, IInv, TypeOK
    <2>8. /\ blk' \in [Procs -> Blocks \cup {NoBlock}] /\ write' \in [Procs -> BOOLEAN]
          /\ head' \in [Procs -> Descs] /\ data' \in [Procs -> Vals \cup {NoData}] /\ data'[p] = NoData
          /\ \A q \in Procs : q # p => blk'[q] = blk[q] /\ write'[q] = write[q] /\ head'[q] = head[q] /\ data'[q] = data[q]
      BY <2>1, Constants, Zenon DEF IInv, TypeOK
    <2>9. Shapes'
      BY <2>5, <2>6, Zenon DEF Shapes
    <2>10. QED
      BY <2>1, <2>3, <2>5, <2>6, <2>7, <2>8, <2>9, ZenonT(60) DEF Returns
  <1>4. QED
    BY <1>1, <1>2, <1>3, Zenon

\* virtio_disk_rw() returns.
LEMMA ReturnInv ==
  ASSUME IInv, NEW p \in Procs, pc[p] = "wait", ~bdisk[p], lock = Nobody, Returns(p)
  PROVE  IInv'
  <1>1. /\ free' = free \cup Chain3(p) /\ \A d \in Descs : d \notin Chain3(p) => desc'[d] = desc[d]
        /\ \A d \in Descs : d # head[p] => info'[d] = info[d] /\ ops'[d] = ops[d]
        /\ pc'[p] = "idle" /\ \A q \in Procs : q # p => pc'[q] = IF pc[q] = "nodesc" THEN "alloc" ELSE pc[q]
        /\ \A q \in Procs : q # p => blk'[q] = blk[q] /\ write'[q] = write[q] /\ head'[q] = head[q] /\ data'[q] = data[q]
        /\ UNCHANGED <<avail, avail_idx, disk, used, uidx, seen, inflight, used_idx, lock, raised, bdisk>>
    BY Zenon DEF Returns
  <1>2. Active' = Active \ {p} /\ Out' = Out /\ p \in Active /\ p \notin Out
    BY <1>1, Zenon DEF Active, Out
  <1>3. Chain3(p) \subseteq Descs /\ head[p] \in Chain3(p)
    BY Types, Zenon DEF Chain3
  <1>4. \A q \in Active' : /\ q \in Active /\ q # p /\ q \in Procs /\ head'[q] = head[q]
                           /\ Second(q)' = Second(q) /\ Third(q)' = Third(q) /\ Chain3(q)' = Chain3(q)
                           /\ desc'[head[q]] = desc[head[q]] /\ desc'[Second(q)] = desc[Second(q)]
                           /\ desc'[Third(q)] = desc[Third(q)]
                           /\ info'[head[q]] = info[head[q]] /\ ops'[head[q]] = ops[head[q]]
    <2> TAKE q \in Active'
    <2>1. q \in Active /\ q # p /\ q \in Procs /\ head'[q] = head[q]
      BY <1>1, <1>2, Types, Zenon
    <2>2. /\ head[q] \in Descs \ Chain3(p) /\ Second(q) \in Descs \ Chain3(p) /\ Third(q) \in Descs \ Chain3(p)
      <3>1. Chain3(q) \cap Chain3(p) = {}
        BY <1>2, <2>1, Zenon DEF IInv, ChainInv
      <3>2. head[q] \in Chain3(q) /\ Second(q) \in Chain3(q) /\ Third(q) \in Chain3(q)
        BY Zenon DEF Chain3
      <3>3. QED
        BY <2>1, <3>1, <3>2, Types, Zenon
    <2>3. /\ desc'[head[q]] = desc[head[q]] /\ desc'[Second(q)] = desc[Second(q)]
          /\ desc'[Third(q)] = desc[Third(q)]
          /\ info'[head[q]] = info[head[q]] /\ ops'[head[q]] = ops[head[q]]
      BY <1>1, <1>3, <2>2, Zenon
    <2>4. Second(q)' = Second(q)
      BY <2>1, <2>3, Zenon DEF Second
    <2>5. Third(q)' = Third(q)
      BY <2>3, <2>4, Zenon DEF Third
    <2>6. QED
      BY <2>1, <2>3, <2>4, <2>5, ZenonT(60) DEF Chain3
  <1>5. TypeOK' /\ ~panicked' /\ Shapes'
    <2>1. Shapes' /\ panicked' = FALSE
      BY Zenon DEF Returns
    <2>2. \A d \in Descs : desc'[d].next \in Descs /\ desc'[d].more \in BOOLEAN
      BY <2>1, Zenon DEF Shapes
    <2>3. \A d \in Descs : info'[d].b \in Procs \cup {Nobody} /\ info'[d].ok \in BOOLEAN
      BY <2>1, Zenon DEF Shapes
    <2>4. free' \subseteq Descs
      BY <1>1, <1>3, ZenonT(60) DEF IInv, TypeOK
    <2>5. QED
      BY <2>1, <2>2, <2>3, <2>4, Zenon DEF IInv, TypeOK, Returns
  <1>6. ChainInv'
    <2>1. \A q \in Active' : Chain3(q) \cap free' = {}
      BY <1>1, <1>2, <1>4, ZenonT(60) DEF IInv, ChainInv
    <2>2. QED
      BY <1>1, <1>4, <2>1, SMT DEF IInv, ChainInv
  <1>7. ProcInv'
    <2>1. \A q \in Procs : pc'[q] \in {"publish", "wait"} => q \in Active'
      BY Zenon DEF Active
    <2>2. \A q \in Procs : pc'[q] = "publish" => avail[avail_idx % NUM] = head'[q] /\ ~info'[head'[q]].ok
      <3>1. \A q \in Procs : pc[q] = "publish" => avail[avail_idx % NUM] = head[q] /\ ~info[head[q]].ok
        BY Zenon DEF IInv, ProcInv
      <3>2. QED
        BY <1>1, <1>4, <2>1, <3>1
    <2>3. \A q \in Procs : pc'[q] = "wait" /\ ~bdisk[q] => info'[head'[q]].ok
      <3>1. \A q \in Procs : pc[q] = "wait" /\ ~bdisk[q] => info[head[q]].ok
        BY Zenon DEF IInv, ProcInv
      <3>2. QED
        BY <1>1, <1>4, <2>1, <3>1
    <2>4. \A q \in Procs : pc'[q] # "idle" => blk'[q] \in Blocks /\ (write'[q] => data'[q] \in Vals)
      BY <1>1, ZenonT(60) DEF IInv, ProcInv
    <2>5. \A q \in Procs : pc'[q] = "publish" <=> lock' = q
      BY <1>1, Constants DEF IInv, ProcInv
    <2>6. QED
      BY <1>1, <2>2, <2>3, <2>4, <2>5 DEF IInv, ProcInv
  <1>8. CountInv'
    <2>1. Cardinality(free') = Cardinality(free) + 3
      <3>1. /\ Chain3(p) \cap free = {} /\ IsFiniteSet(free)
            /\ head[p] # Second(p) /\ Second(p) # Third(p) /\ Third(p) # head[p]
        BY <1>2, Room, Zenon DEF IInv, ChainInv
      <3>2. PICK h, m, t : h = head[p] /\ m = Second(p) /\ t = Third(p)
        BY Zenon
      <3>3. h \notin free /\ m \notin free /\ t \notin free /\ {h, m, t} = Chain3(p) /\ h # m /\ m # t /\ t # h
        BY <3>1, <3>2, Zenon DEF Chain3
      <3>4. Cardinality(free \cup {h, m, t}) = Cardinality(free) + 3
        BY <3>1, <3>3, ThreeMore, Zenon
      <3>5. QED
        BY <1>1, <3>3, <3>4, Zenon
    <2>2. IsFiniteSet(Active') /\ Cardinality(Active') = Cardinality(Active) - 1
      BY <1>2, Room, FS_RemoveElement, ZenonT(60)
    <2>3. Cardinality(free') + 3 * Cardinality(Active') = NUM
      BY <2>1, <2>2, Sums, ZenonT(60)
    <2>4. QED
      BY <1>1, <1>2, <2>2, <2>3, Zenon DEF IInv, CountInv, Dist, Gap
  <1>9. RingInv'
    <2>1. Window(seen, avail_idx)' = Window(seen, avail_idx) /\ Window(used_idx, uidx)' = Window(used_idx, uidx)
      BY <1>1, Zenon DEF Window, Dist, Gap
    <2>2. \A q \in Out : head'[q] = head[q] /\ info'[head[q]] = info[head[q]]
      BY <1>2, <1>4, Types, Zenon
    <2>3. QED
      BY <1>1, <1>2, <2>1, <2>2 DEF IInv, RingInv
  <1>10. WakeInv'
    BY <1>1, Zenon DEF IInv, WakeInv
  <1>11. QED
    BY <1>5, <1>6, <1>7, <1>8, <1>9, <1>10, ZenonT(60) DEF IInv

\* On from sleep(): back to sleep, or return.
LEMMA FinishInv ==
  ASSUME IInv, NEW p \in Procs, finish(p)
  PROVE  IInv'
  <1>1. CASE bdisk[p]
    <2>1. /\ pc[p] = "wait" /\ pc' = [pc EXCEPT ![p] = "asleep"] /\ raised \in BOOLEAN
          /\ UNCHANGED <<driver, device, request, data, used_idx, lock, raised, head, bdisk, panicked>>
      BY <1>1, Finishes, Zenon DEF IInv, TypeOK
    <2>2. /\ pc' \in [Procs -> {"idle", "alloc", "nodesc", "publish", "asleep", "wait"}]
          /\ pc'[p] = "asleep" /\ \A q \in Procs : q # p => pc'[q] = pc[q]
      BY <2>1, Zenon DEF IInv, TypeOK
    <2>3. WakeInv'
      BY <2>1, <2>2, Zenon DEF IInv, WakeInv, driver, device
    <2>4. \A q \in Procs : \/ pc'[q] = pc[q]
                           \/ {pc[q], pc'[q]} = {"alloc", "nodesc"}
                           \/ pc[q] = "asleep" /\ pc'[q] = "wait"
                           \/ pc[q] = "wait" /\ bdisk[q] /\ pc'[q] = "asleep"
      BY <1>1, <2>1, <2>2, Zenon
    <2>5. QED
      BY <2>1, <2>2, <2>3, <2>4, MoveInv, Zenon
  <1>2. CASE ~bdisk[p]
    BY <1>2, Finishes, ReturnInv, Zenon
  <1>3. QED
    BY <1>1, <1>2, Zenon

-----------------------------------------------------------------------------
(* The invariants.                                                         *)

\* Every step of a process, the handler or the device keeps the invariant.
LEMMA NextInv ==
  ASSUME IInv, [Next]_vars
  PROVE  IInv'
  <1>1. ASSUME NEW p \in Procs, virtio_disk_rw(p) PROVE IInv'
    BY <1>1, RwInv, Zenon
  <1>2. ASSUME NEW p \in Procs, alloc3_desc(p) PROVE IInv'
    BY <1>2, Alloc3DescInv, Zenon
  <1>3. ASSUME NEW p \in Procs, notify(p) PROVE IInv'
    BY <1>3, NotifyInv, Zenon
  <1>4. ASSUME NEW p \in Procs, finish(p) PROVE IInv'
    BY <1>4, FinishInv, Zenon
  <1>5. ASSUME NEW p \in Procs, kill(p) PROVE IInv'
    BY <1>5, KillInv, Zenon
  <1>6. ASSUME NEW p \in Procs, NEW k \in Blocks, NEW w \in BOOLEAN, NEW v \in Vals, call(p, k, w, v) PROVE IInv'
    BY <1>6, CallInv, Zenon
  <1>7. ASSUME intr_enter \/ intr_done \/ intr_leave PROVE IInv'
    BY <1>7, HandlerInv, Zenon
  <1>8. ASSUME intr_turn PROVE IInv'
    BY <1>8, IntrTurnInv, Zenon
  <1>9. ASSUME device_take PROVE IInv'
    BY <1>9, DeviceTakeInv, Zenon
  <1>10. ASSUME NEW d \in Descs, device_done(d) PROVE IInv'
    BY <1>10, DeviceDoneInv, Zenon
  <1>11. ASSUME UNCHANGED vars PROVE IInv'
    <2>1. /\ UNCHANGED <<driver, device, request, data, used_idx, lock, raised, head, bdisk, panicked>>
          /\ pc' = pc /\ raised' = raised
      BY <1>11, Zenon DEF vars
    <2>2. WakeInv'
      BY <2>1 DEF IInv, WakeInv, driver, device
    <2>3. QED
      BY <2>1, <2>2, MoveInv, Zenon DEF IInv, TypeOK
  <1>12. QED
    BY <1>1, <1>2, <1>3, <1>4, <1>5, <1>6, <1>7, <1>8, <1>9, <1>10, <1>11, ZenonT(60)
       DEF Next, Driver, Device, virtio_disk_intr

\* The inductive invariant holds in every reachable state of the driver.
THEOREM InvariantHolds == Spec => []IInv
  <1>1. Init => IInv
    BY InitInv, Zenon
  <1>2. IInv /\ [Next]_vars => IInv'
    BY NextInv, Zenon
  <1>3. QED
    BY <1>1, <1>2, PTL DEF Spec

\* Every request of virtio_disk_rw() has three descriptors of its own, which
\* alloc_desc() cannot hand out again before free_chain(), none is lost, and no
\* panic() of virtio_disk.c is reached.
THEOREM ChainsKept == Spec => []ChainsPartition
  <1>1. IInv => ChainsPartition
    <2> SUFFICES ASSUME IInv PROVE ChainsPartition
      BY Zenon
    <2>1. \A p \in Active : Chain(head[p]) = Chain3(p) /\ Cardinality(Chain3(p)) = 3
      BY ChainOf, Zenon
    <2>a. /\ \A p \in Active : Chain3(p) \cap free = {}
          /\ \A p, q \in Active : p # q => Chain3(p) \cap Chain3(q) = {}
      BY Zenon DEF IInv, ChainInv
    <2>2. \A p \in Active : Cardinality(Chain(head[p])) = 3 /\ Chain(head[p]) \cap free = {}
      BY <2>1, <2>a, Zenon
    <2>3. \A p, q \in Active : p # q => Chain(head[p]) \cap Chain(head[q]) = {}
      BY <2>1, <2>a, Zenon
    <2>4. QED
      BY <2>2, <2>3, Zenon DEF ChainsPartition, IInv, CountInv
  <1>2. QED
    BY <1>1, InvariantHolds, PTL

\* A finished request whose process still sleeps in virtio_disk_rw() is in the
\* used ring ahead of virtio_disk_intr(), and while the ring is ahead of it the
\* interrupt is raised or the handler in its loop; nobody sleeps in
\* alloc3_desc()'s loop while three descriptors are free.
THEOREM CompletionsSeen == Spec => []NoLostCompletion
  <1>1. IInv => NoLostCompletion
    <2> SUFFICES ASSUME IInv PROVE NoLostCompletion
      BY Zenon
    <2>1. ASSUME NEW p \in Procs, pc[p] = "asleep", info[head[p]].ok PROVE used_idx # uidx
      <3>1. p \in Out
        BY <2>1, Zenon DEF Out, IInv, ProcInv
      <3>2. PICK d \in Window(used_idx, uidx) : used[d] = head[p]
        BY <2>1, <3>1, Zenon DEF IInv, RingInv
      <3>3. used_idx \in Indices /\ uidx \in Indices /\ Gap(used_idx % NUM, uidx % NUM) = Dist(used_idx, uidx)
        BY Types, Zenon DEF IInv, CountInv
      <3>4. QED
        BY <3>2, <3>3, WindowEnd, Zenon
    <2>2. QED
      BY <2>1, Zenon DEF NoLostCompletion, IInv, WakeInv
  <1>2. QED
    BY <1>1, InvariantHolds, PTL

-----------------------------------------------------------------------------
(* The driver implements BlockDevice.                                      *)

\* The request of a process, as BlockDevice has it.
Request(p) ==
  IF pc[p] = "idle" THEN NoReq
  ELSE [blk |-> blk[p], write |-> write[p], done |-> pc[p] \in {"asleep", "wait"} /\ info[head[p]].ok]

\* The record of a request.
LEMMA RequestRecord ==
  ASSUME NEW k \in Blocks, NEW w \in BOOLEAN, NEW o \in BOOLEAN
  PROVE  /\ [blk |-> k, write |-> w, done |-> o] # NoReq
         /\ [blk |-> k, write |-> w, done |-> o] \in [blk : Blocks, write : BOOLEAN, done : BOOLEAN]
  <1>1. [blk |-> k, write |-> w, done |-> o] \in [blk : Blocks, write : BOOLEAN, done : BOOLEAN]
    BY Zenon
  <1>2. NoReq \notin [blk : Blocks, write : BOOLEAN, done : BOOLEAN]
    BY VirtioAssumption, Zenon
  <1>3. QED
    BY <1>1, <1>2, Zenon

\* Two records of requests that only differ in done.
LEMMA RequestDone ==
  ASSUME NEW r \in [blk : Blocks, write : BOOLEAN, done : BOOLEAN],
         NEW s \in [blk : Blocks, write : BOOLEAN, done : BOOLEAN],
         s.blk = r.blk, s.write = r.write, s.done = TRUE
  PROVE  s = [r EXCEPT !.done = TRUE]
  BY Zenon

\* A process that stays as far as it is leaves its request alone.
LEMMA SameRequest ==
  ASSUME NEW q, blk'[q] = blk[q], write'[q] = write[q],
         pc'[q] = "idle" <=> pc[q] = "idle",
         pc'[q] \in {"asleep", "wait"} /\ info'[head'[q]].ok <=> pc[q] \in {"asleep", "wait"} /\ info[head[q]].ok
  PROVE  Request(q)' = Request(q)
  <1>1. (pc'[q] \in {"asleep", "wait"} /\ info'[head'[q]].ok) = (pc[q] \in {"asleep", "wait"} /\ info[head[q]].ok)
    BY Zenon
  <1>2. QED
    BY <1>1, Zenon DEF Request

\* A step that leaves the disk, the buffers and the requests alone is none of
\* BlockDevice.
LEMMA Stutters ==
  ASSUME UNCHANGED <<disk, data>>, \A q \in Procs : Request(q)' = Request(q)
  PROVE  UNCHANGED BD!dvars
  BY Zenon DEF BD!dvars, Request

\* Steps that only move a process on, or let it sleep or wake up.
LEMMA MoveRefines ==
  ASSUME UNCHANGED <<disk, data, blk, write, head, info>>,
         \A q \in Procs : \/ pc'[q] = pc[q]
                          \/ pc[q] \in {"alloc", "nodesc"} /\ pc'[q] \in {"alloc", "nodesc"}
                          \/ pc[q] \in {"asleep", "wait"} /\ pc'[q] \in {"asleep", "wait"}
                          \/ pc[q] = "publish" /\ pc'[q] = "asleep" /\ ~info[head[q]].ok
  PROVE  UNCHANGED BD!dvars
  <1>1. ASSUME NEW q \in Procs PROVE Request(q)' = Request(q)
    <2>1. /\ pc'[q] = "idle" <=> pc[q] = "idle"
          /\ pc'[q] \in {"asleep", "wait"} /\ info'[head'[q]].ok <=> pc[q] \in {"asleep", "wait"} /\ info[head[q]].ok
      BY Zenon
    <2>2. QED
      BY <2>1, SameRequest, Zenon
  <1>2. QED
    BY <1>1, Stutters, Zenon

\* A call of virtio_disk_rw() is a Call.
LEMMA CallRefines ==
  ASSUME IInv, NEW p \in Procs, NEW k \in Blocks, NEW w \in BOOLEAN, NEW v \in Vals, call(p, k, w, v)
  PROVE  BD!Call(p, k, w)
  <1>1. /\ pc[p] = "idle" /\ pc'[p] = "alloc" /\ \A q \in Procs : q # p => pc'[q] = pc[q]
        /\ blk'[p] = k /\ write'[p] = w /\ \A q \in Procs : q # p => blk'[q] = blk[q] /\ write'[q] = write[q]
        /\ UNCHANGED <<disk, head, info>> /\ data' = [data EXCEPT ![p] = IF w THEN v ELSE NoData]
    BY Zenon DEF call, Goto, driver, device, IInv, TypeOK
  <1>2. Request(p) = NoReq /\ Request(p)' = [blk |-> k, write |-> w, done |-> FALSE]
    BY <1>1, Zenon DEF Request
  <1>3. \A q \in Procs : q # p => Request(q)' = Request(q)
    BY <1>1, SameRequest, Zenon
  <1>4. \E x \in IF w THEN Vals ELSE {NoData} : data' = [data EXCEPT ![p] = x]
    BY <1>1, Zenon
  <1>5. [q \in Procs |-> Request(q)'] = [[q \in Procs |-> Request(q)] EXCEPT ![p] = [blk |-> k, write |-> w, done |-> FALSE]]
    BY <1>2, <1>3, Zenon
  <1>6. QED
    BY <1>1, <1>2, <1>4, <1>5, ZenonT(60) DEF BD!Call, Request

\* The device's transfer is the Transfer.
LEMMA TransferRefines ==
  ASSUME IInv, NEW d \in Descs, device_done(d)
  PROVE  \E p \in Procs : BD!Transfer(p)
  <1>0. d \in inflight /\ UNCHANGED <<blk, write, pc, head>>
    BY Zenon DEF device_done, request
  <1>1. PICK p \in Out : d = head[p] /\ ~info[head[p]].ok
    BY <1>0, Zenon DEF IInv, RingInv
  <1>2. /\ p \in Active /\ p \in Procs /\ pc[p] \in {"asleep", "wait"}
        /\ desc[desc[d].next].addr = p /\ ops[d] = [write |-> write[p], blk |-> blk[p]]
    BY <1>1, Types, ZenonT(60) DEF IInv, ChainInv, Out, Second
  <1>3. ops[d].write = write[p] /\ ops[d].blk = blk[p] /\ blk[p] \in Blocks /\ write[p] \in BOOLEAN
    BY <1>2 DEF IInv, ProcInv, TypeOK
  <1>4. info'[d].ok /\ \A e \in Descs : e # d => info'[e] = info[e]
    <2>1. info \in [Descs -> [b : Procs \cup {Nobody}, ok : BOOLEAN]] /\ info' = [info EXCEPT ![d].ok = TRUE]
      BY Zenon DEF device_done, IInv, Shapes
    <2>2. QED
      BY <2>1, Zenon
  <1>5. /\ Request(p) = [blk |-> blk[p], write |-> write[p], done |-> FALSE]
        /\ Request(p)' = [blk |-> blk[p], write |-> write[p], done |-> TRUE]
    BY <1>0, <1>1, <1>2, <1>4, Zenon DEF Request
  <1>6. Request(p) # NoReq /\ ~Request(p).done /\ Request(p).write = write[p] /\ Request(p).blk = blk[p]
    <2>1. Request(p) # NoReq
      BY <1>3, <1>5, RequestRecord, ZenonT(60)
    <2>2. ~Request(p).done /\ Request(p).write = write[p] /\ Request(p).blk = blk[p]
      BY <1>5
    <2>3. QED
      BY <2>1, <2>2, Zenon
  <1>7. Request(p)' = [Request(p) EXCEPT !.done = TRUE]
    <2>1. /\ Request(p) \in [blk : Blocks, write : BOOLEAN, done : BOOLEAN]
          /\ Request(p)' \in [blk : Blocks, write : BOOLEAN, done : BOOLEAN]
      BY <1>3, <1>5, RequestRecord, ZenonT(60)
    <2>2. Request(p)'.blk = Request(p).blk /\ Request(p)'.write = Request(p).write /\ Request(p)'.done = TRUE
      BY <1>5
    <2>3. QED
      BY <2>1, <2>2, RequestDone, Zenon
  <1>8. \A q \in Procs : q # p => Request(q)' = Request(q)
    <2> SUFFICES ASSUME NEW q \in Procs, q # p PROVE Request(q)' = Request(q)
      BY Zenon
    <2>1. pc[q] \in {"asleep", "wait"} => info'[head'[q]].ok = info[head[q]].ok
      <3>1. pc[q] \in {"asleep", "wait"} => q \in Active
        BY Zenon DEF Active
      <3>2. QED
        BY <1>0, <1>1, <1>2, <1>4, <3>1, Heads, ZenonT(60)
    <2>2. pc'[q] \in {"asleep", "wait"} /\ info'[head'[q]].ok <=> pc[q] \in {"asleep", "wait"} /\ info[head[q]].ok
      BY <1>0, <2>1, Zenon
    <2>3. QED
      BY <1>0, <2>2, SameRequest, Zenon
  <1>9. [q \in Procs |-> Request(q)'] = [[q \in Procs |-> Request(q)] EXCEPT ![p].done = TRUE]
    BY <1>2, <1>7, <1>8, Zenon
  <1>10. IF Request(p).write THEN disk' = [disk EXCEPT ![Request(p).blk] = data[p]] /\ UNCHANGED data
         ELSE data' = [data EXCEPT ![p] = disk[Request(p).blk]] /\ UNCHANGED disk
    BY <1>2, <1>3, <1>6, ZenonT(60) DEF device_done
  <1>11. BD!Transfer(p)
    BY <1>2, <1>6, <1>9, <1>10, Zenon DEF BD!Transfer, Request
  <1>12. QED
    BY <1>2, <1>11, Zenon

\* The return is the Return; a wake-up by kill() alone is no step.
LEMMA FinishRefines ==
  ASSUME IInv, NEW p \in Procs, finish(p)
  PROVE  BD!Return(p) \/ UNCHANGED BD!dvars
  <1>1. CASE bdisk[p]
    <2>1. /\ pc[p] = "wait" /\ pc' = [pc EXCEPT ![p] = "asleep"]
          /\ UNCHANGED <<disk, data, blk, write, head, info>>
      BY <1>1, Finishes, Zenon DEF driver, device, request
    <2>2. pc'[p] = "asleep" /\ \A q \in Procs : q # p => pc'[q] = pc[q]
      BY <2>1, Zenon DEF IInv, TypeOK
    <2>3. QED
      BY <2>1, <2>2, MoveRefines, Zenon
  <1>2. CASE ~bdisk[p]
    <2>1. /\ pc[p] = "wait" /\ pc'[p] = "idle"
          /\ \A q \in Procs : q # p => pc'[q] = IF pc[q] = "nodesc" THEN "alloc" ELSE pc[q]
          /\ \A q \in Procs : q # p => blk'[q] = blk[q] /\ write'[q] = write[q] /\ head'[q] = head[q] /\ data'[q] = data[q]
          /\ \A d \in Descs : d # head[p] => info'[d] = info[d]
          /\ data'[p] = NoData /\ data' \in [Procs -> Vals \cup {NoData}] /\ disk' = disk
      BY <1>2, Finishes, ZenonT(60) DEF Returns
    <2>2. info[head[p]].ok /\ blk[p] \in Blocks /\ write[p] \in BOOLEAN
      BY <1>2, <2>1, Zenon DEF IInv, ProcInv, TypeOK
    <2>3. Request(p) = [blk |-> blk[p], write |-> write[p], done |-> TRUE] /\ Request(p)' = NoReq
      BY <2>1, <2>2, Zenon DEF Request
    <2>4. Request(p) # NoReq /\ Request(p).done
      <3>1. Request(p) # NoReq
        BY <2>2, <2>3, RequestRecord, Zenon
      <3>2. QED
        BY <2>3, <3>1
    <2>5. \A q \in Procs : q # p => Request(q)' = Request(q)
      <3> SUFFICES ASSUME NEW q \in Procs, q # p PROVE Request(q)' = Request(q)
        BY Zenon
      <3>1. p \in Active /\ (pc[q] \in {"asleep", "wait"} => q \in Active)
        BY <2>1, Zenon DEF Active
      <3>2. pc[q] \in {"asleep", "wait"} => info'[head'[q]].ok = info[head[q]].ok
        BY <2>1, <3>1, Heads
      <3>3. /\ pc'[q] \in {"asleep", "wait"} /\ info'[head'[q]].ok <=> pc[q] \in {"asleep", "wait"} /\ info[head[q]].ok
            /\ pc'[q] = "idle" <=> pc[q] = "idle"
        BY <2>1, <3>2, Zenon
      <3>4. QED
        BY <2>1, <3>3, SameRequest, Zenon
    <2>6. [q \in Procs |-> Request(q)'] = [[q \in Procs |-> Request(q)] EXCEPT ![p] = NoReq]
      BY <2>3, <2>5, Zenon
    <2>7. data' = [data EXCEPT ![p] = NoData]
      BY <2>1, Zenon DEF IInv, TypeOK
    <2>8. BD!Return(p)
      BY <2>1, <2>4, <2>6, <2>7, ZenonT(60) DEF BD!Return, Request
    <2>9. QED
      BY <2>8, Zenon
  <1>3. QED
    BY <1>1, <1>2, Zenon

\* Formatting the request is no step of BlockDevice.
LEMMA RwRefines ==
  ASSUME IInv, NEW p \in Procs, virtio_disk_rw(p)
  PROVE  UNCHANGED BD!dvars
  <1>1. /\ pc[p] = "alloc" /\ pc'[p] = "publish" /\ \A q \in Procs : q # p => pc'[q] = pc[q]
        /\ UNCHANGED <<disk, data, blk, write>>
    BY ZenonT(60) DEF virtio_disk_rw, Goto, device, request, IInv, TypeOK
  <1>2. PICK i \in [0..2 -> Descs] :
             Lowest3(i) /\ info' = [info EXCEPT ![i[0]] = [b |-> p, ok |-> FALSE]] /\ head' = [head EXCEPT ![p] = i[0]]
    BY Zenon DEF virtio_disk_rw
  <1>3. /\ i[0] \in free /\ \A q \in Procs : q # p => head'[q] = head[q]
        /\ \A d \in Descs : d # i[0] => info'[d] = info[d]
    BY <1>2, Zenon DEF Lowest3, IInv, TypeOK, Shapes
  <1>4. ASSUME NEW q \in Procs PROVE Request(q)' = Request(q)
    <2>1. pc[q] \in {"asleep", "wait"} => q \in Active /\ q # p
      BY <1>1, Zenon DEF Active
    <2>2. pc[q] \in {"asleep", "wait"} => info'[head'[q]].ok = info[head[q]].ok
      BY <1>3, <2>1, Heads, Zenon
    <2>3. /\ pc'[q] \in {"asleep", "wait"} /\ info'[head'[q]].ok <=> pc[q] \in {"asleep", "wait"} /\ info[head[q]].ok
          /\ pc'[q] = "idle" <=> pc[q] = "idle"
      BY <1>1, <2>2, Zenon
    <2>4. QED
      BY <1>1, <2>3, SameRequest, Zenon
  <1>5. QED
    BY <1>1, <1>4, Stutters, Zenon

\* Every step of the driver, the handler or the device is one of BlockDevice.
LEMMA NextRefines ==
  ASSUME IInv, [Next]_vars
  PROVE  [BD!DNext]_BD!dvars
  <1>1. ASSUME NEW p \in Procs, virtio_disk_rw(p) PROVE UNCHANGED BD!dvars
    BY <1>1, RwRefines, Zenon
  <1>2. ASSUME NEW p \in Procs, alloc3_desc(p) PROVE UNCHANGED BD!dvars
    <2>1. UNCHANGED <<disk, data, blk, write, head, info>> /\ pc[p] = "alloc"
      BY <1>2, Zenon DEF alloc3_desc, driver, device, request
    <2>2. /\ pc'[p] = "nodesc"
          /\ \A q \in Procs : q # p => pc'[q] = pc[q] \/ (pc[q] = "nodesc" /\ pc'[q] = "alloc")
      BY <1>2, Zenon DEF alloc3_desc, WakeFree, IInv, TypeOK
    <2>3. QED
      BY <2>1, <2>2, MoveRefines, Zenon
  <1>3. ASSUME NEW p \in Procs, notify(p) PROVE UNCHANGED BD!dvars
    <2>1. UNCHANGED <<disk, data, blk, write, head, info>> /\ pc[p] = "publish"
      BY <1>3, Zenon DEF notify, device, request
    <2>2. pc'[p] = "asleep" /\ \A q \in Procs : q # p => pc'[q] = pc[q]
      BY <1>3, Zenon DEF notify, Goto, IInv, TypeOK
    <2>3. ~info[head[p]].ok
      BY <2>1, Zenon DEF IInv, ProcInv
    <2>4. QED
      BY <2>1, <2>2, <2>3, MoveRefines, Zenon
  <1>4. ASSUME NEW p \in Procs, kill(p) PROVE UNCHANGED BD!dvars
    <2>1. UNCHANGED <<disk, data, blk, write, head, info>> /\ pc[p] \in {"nodesc", "asleep"}
      BY <1>4, Zenon DEF kill, driver, device, request
    <2>2. /\ pc'[p] = IF pc[p] = "asleep" THEN "wait" ELSE "alloc"
          /\ \A q \in Procs : q # p => pc'[q] = pc[q]
      BY <1>4, Zenon DEF kill, Goto, IInv, TypeOK
    <2>3. QED
      BY <2>1, <2>2, MoveRefines, Zenon
  <1>5. ASSUME intr_turn PROVE UNCHANGED BD!dvars
    <2>1. UNCHANGED <<disk, data, blk, write, head, info>>
      BY <1>5, Zenon DEF intr_turn, driver, request
    <2>2. \A q \in Procs : pc'[q] = pc[q] \/ (pc[q] = "asleep" /\ pc'[q] = "wait")
      BY <1>5, Zenon DEF intr_turn, WakeBuf, IInv, TypeOK
    <2>3. QED
      BY <2>1, <2>2, MoveRefines, Zenon
  <1>6. ASSUME intr_enter \/ intr_done \/ intr_leave \/ device_take \/ UNCHANGED vars PROVE UNCHANGED BD!dvars
    <2>1. UNCHANGED <<disk, data, blk, write, head, info, pc>>
      BY <1>6, Zenon DEF intr_enter, intr_done, intr_leave, device_take, vars, driver, device, request
    <2>2. QED
      BY <2>1, MoveRefines, Zenon
  <1>7. ASSUME NEW p \in Procs, NEW k \in Blocks, NEW w \in BOOLEAN, NEW v \in Vals, call(p, k, w, v)
        PROVE  BD!DNext
    BY <1>7, CallRefines, Zenon DEF BD!DNext
  <1>8. ASSUME NEW d \in Descs, device_done(d) PROVE BD!DNext
    BY <1>8, TransferRefines, Zenon DEF BD!DNext
  <1>9. ASSUME NEW p \in Procs, finish(p) PROVE [BD!DNext]_BD!dvars
    BY <1>9, FinishRefines, Zenon DEF BD!DNext
  <1>10. QED
    BY <1>1, <1>2, <1>3, <1>4, <1>5, <1>6, <1>7, <1>8, <1>9, ZenonT(60)
       DEF Next, Driver, Device, virtio_disk_intr

\* virtio_disk_rw() does what bread() and bwrite() count on: each call moves
\* the buffer from or to its block exactly once before it returns, and touches
\* nothing else, whatever the interleaving with the handler and the device.
THEOREM DriverTransfersOnce == Spec => TransfersOnce
  <1>1. Init => BD!DInit
    <2> SUFFICES ASSUME Init PROVE BD!DInit
      BY Zenon
    <2>1. disk \in [Blocks -> Vals] /\ data = [p \in Procs |-> NoData] /\ \A p \in Procs : Request(p) = NoReq
      BY Zenon DEF Init, Request
    <2>2. QED
      BY <2>1, Zenon DEF BD!DInit, Request
  <1>2. IInv /\ [Next]_vars => [BD!DNext]_BD!dvars
    BY NextRefines, Zenon
  <1>3. QED
    BY <1>1, <1>2, InvariantHolds, PTL DEF Spec, TransfersOnce, BD!DSpec
=============================================================================
