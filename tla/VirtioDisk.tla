----------------------------- MODULE VirtioDisk -----------------------------
(***************************************************************************)
(* The disk driver kernel/virtio_disk.c: processes in virtio_disk_rw(),    *)
(* the handler virtio_disk_intr() and the device, which share the          *)
(* descriptor table and the avail and used rings without a lock.           *)
(*                                                                         *)
(* bio.c calls the driver with the sleep lock of the buffer, so a process  *)
(* stands for its buffer, and no two of them use one block.  sleep() gives *)
(* up vdisk_lock and sleeps in one step.                                   *)
(*                                                                         *)
(* Values that are dead (ring entries once read, the header, the status,   *)
(* the data and the locals of a request that has returned) go back to      *)
(* their initial ones, which the code leaves to be overwritten.            *)
(***************************************************************************)
EXTENDS Integers, FiniteSets

CONSTANTS Procs, Blocks, Vals,
          NUM,      \* descriptors, and the size of the rings
          WRAP,     \* bound: ring indices count modulo WRAP (2^16 in the code)
          Intr, Leaving, \* lock holders: the interrupt handler in and after its loop
          Nobody, NoReq, NoBlock, NoData

ASSUME VirtioAssumption ==
  /\ NUM \in Nat /\ NUM >= 3 /\ WRAP \in Nat \ {0} /\ WRAP % NUM = 0
  /\ Procs \cap {Intr, Leaving, Nobody} = {} /\ Cardinality({Intr, Leaving, Nobody}) = 3
  /\ NoBlock \notin Blocks /\ NoData \notin Vals
  /\ NoReq \notin [blk : Blocks, write : BOOLEAN, done : BOOLEAN]

Descs == 0..(NUM - 1)
Indices == 0..(WRAP - 1)

VARIABLES
  free,      \* disk.free: the descriptors marked free
  desc,      \* disk.desc: what each points to, and whether and how it goes on
  ops,       \* disk.ops: command headers
  info,      \* disk.info: buffer, and whether the device wrote status 0
  avail,     \* disk.avail->ring
  avail_idx, \* disk.avail->idx
  used,      \* disk.used->ring
  uidx,      \* disk.used->idx
  used_idx,  \* disk.used_idx: how far the handler has looked
  lock,      \* holder of vdisk_lock between steps, or Nobody
  raised,    \* the device's interrupt status
  pc, blk, write, head,  \* each process: where it is, its request, idx[0]
  bdisk,     \* b->disk
  data,      \* b->data
  disk,      \* the blocks of the disk
  seen,      \* device: how far it has looked in the avail ring
  inflight,  \* device: requests it is working on
  panicked

driver == <<free, desc, ops, info, avail, avail_idx>>
device == <<disk, used, uidx, seen, inflight>>
request == <<blk, write>>
vars == <<driver, device, request, data, used_idx, lock, raised, pc, head, bdisk, panicked>>
-----------------------------------------------------------------------------
(* Helpers.  A definition with the name of another one and a suffix is a   *)
(* wrong version of it that no specification uses.                         *)

ZeroDesc == [addr |-> "none", more |-> FALSE, next |-> 0]

\* idx[0] < idx[1] < idx[2]: alloc_desc() finds the lowest free descriptor.
Lowest3(i) ==
  /\ {i[0], i[1], i[2]} \subseteq free /\ i[0] < i[1] /\ i[1] < i[2]
  /\ \A d \in free : d < i[2] => d \in {i[0], i[1]}

\* The descriptors of the chain that starts at d.
Chain(d) ==
  LET n1 == desc[d].next
      n2 == desc[n1].next
  IN  {d} \cup (IF desc[d].more THEN {n1} \cup (IF desc[n1].more THEN {n2} ELSE {}) ELSE {})

\* free_desc(): wakeup(&disk.free[0]).
WakeFree(f) == [p \in Procs |-> IF f[p] = "nodesc" THEN "alloc" ELSE f[p]]

\* virtio_disk_intr(): wakeup(b).
WakeBuf(b, f) == [p \in Procs |-> IF p = b /\ f[p] = "asleep" THEN "wait" ELSE f[p]]

\* Ring indices are uint16.
Bump(i) == (i + 1) % WRAP

Busy_Ignored(p) == FALSE

\* while(b->disk == 1)
Busy(p) == bdisk[p]

FreeChain_HeadOnly(d) == {d}

\* free_chain(): the descriptors it frees.
FreeChain(d) == Chain(d)

\* alloc_desc(): disk.free[i] = 0.
Take(S) == free \ S

Goto(p, l) == pc' = [pc EXCEPT ![p] = l]
-----------------------------------------------------------------------------
\* bread() or bwrite() calls virtio_disk_rw().
call(p, k, w, v) ==
  /\ pc[p] = "idle"
  /\ \A q \in Procs : blk[q] # k
  /\ data' = [data EXCEPT ![p] = IF w THEN v ELSE NoData]
  /\ blk' = [blk EXCEPT ![p] = k]
  /\ write' = [write EXCEPT ![p] = w]
  /\ Goto(p, "alloc")
  /\ UNCHANGED <<driver, device, used_idx, lock, raised, head, bdisk, panicked>>

\* Three descriptors are free: format them and fill in the ring entry.
virtio_disk_rw(p) ==
  /\ pc[p] = "alloc" /\ lock = Nobody
  /\ \E i \in [0..2 -> Descs] :
       /\ Lowest3(i)
       /\ free' = Take({i[0], i[1], i[2]})
       /\ desc' = [desc EXCEPT
                     ![i[0]] = [addr |-> "op", more |-> TRUE, next |-> i[1]],
                     ![i[1]] = [addr |-> p, more |-> TRUE, next |-> i[2]],
                     ![i[2]] = [addr |-> "status", more |-> FALSE, next |-> 0]]
       /\ ops' = [ops EXCEPT ![i[0]] = [write |-> write[p], blk |-> blk[p]]]
       /\ info' = [info EXCEPT ![i[0]] = [b |-> p, ok |-> FALSE]]
       /\ head' = [head EXCEPT ![p] = i[0]]
       /\ avail' = [avail EXCEPT ![avail_idx % NUM] = i[0]]
  /\ bdisk' = [bdisk EXCEPT ![p] = TRUE]
  /\ lock' = p
  /\ Goto(p, "publish")
  /\ UNCHANGED <<avail_idx, device, request, data, used_idx, raised, panicked>>

\* Too few are free: alloc3_desc() gives back what it got, which wakes the
\* other sleepers, and the process sleeps.
alloc3_desc(p) ==
  /\ pc[p] = "alloc" /\ lock = Nobody
  /\ Cardinality(free) < 3
  /\ pc' = [(IF free = {} THEN pc ELSE WakeFree(pc)) EXCEPT ![p] = "nodesc"]
  /\ UNCHANGED <<driver, device, request, data, used_idx, lock, raised, head, bdisk, panicked>>

\* avail->idx += 1 after the barrier, notify the device, and sleep on b.
notify(p) ==
  /\ pc[p] = "publish"
  /\ avail_idx' = Bump(avail_idx)
  /\ lock' = Nobody
  /\ Goto(p, "asleep")
  /\ UNCHANGED <<free, desc, ops, info, avail, device, request, data, used_idx, raised, head, bdisk,
                 panicked>>

\* Woken up: sleep again, or free the chain and return.
finish(p) ==
  /\ pc[p] = "wait" /\ lock = Nobody
  /\ IF Busy(p) THEN Goto(p, "asleep") /\ UNCHANGED <<driver, request, head, data, panicked>>
     ELSE /\ info' = [info EXCEPT ![head[p]] = [b |-> Nobody, ok |-> TRUE]]
          /\ ops' = [ops EXCEPT ![head[p]] = NoReq]
          /\ panicked' = (panicked \/ FreeChain(head[p]) \cap free # {})
          /\ desc' = [d \in Descs |-> IF d \in FreeChain(head[p]) THEN ZeroDesc ELSE desc[d]]
          /\ free' = free \cup FreeChain(head[p])
          /\ pc' = [WakeFree(pc) EXCEPT ![p] = "idle"]
          /\ blk' = [blk EXCEPT ![p] = NoBlock] /\ write' = [write EXCEPT ![p] = FALSE]
          /\ head' = [head EXCEPT ![p] = 0] /\ data' = [data EXCEPT ![p] = NoData]
          /\ UNCHANGED <<avail, avail_idx>>
  /\ UNCHANGED <<device, used_idx, lock, raised, bdisk>>

\* kill() wakes a process wherever it sleeps; the driver ignores p->killed.
kill(p) ==
  /\ pc[p] \in {"nodesc", "asleep"}
  /\ Goto(p, IF pc[p] = "asleep" THEN "wait" ELSE "alloc")
  /\ UNCHANGED <<driver, device, request, data, used_idx, lock, raised, head, bdisk, panicked>>

\* virtio_disk_intr(): take the lock, acknowledge,
intr_enter ==
  /\ raised /\ lock = Nobody
  /\ lock' = Intr
  /\ raised' = FALSE
  /\ UNCHANGED <<driver, device, request, data, used_idx, pc, head, bdisk, panicked>>

\* ... one turn of the loop,
intr_turn ==
  LET id == used[used_idx % NUM]
      b == info[id].b
  IN  /\ lock = Intr /\ used_idx # uidx
      /\ panicked' = (panicked \/ ~info[id].ok \/ b = Nobody)
      /\ bdisk' = IF b \in Procs THEN [bdisk EXCEPT ![b] = FALSE] ELSE bdisk
      /\ pc' = WakeBuf(b, pc)
      /\ used_idx' = Bump(used_idx)
      /\ used' = [used EXCEPT ![used_idx % NUM] = 0]
      /\ UNCHANGED <<driver, disk, uidx, seen, inflight, request, data, lock, raised, head>>

\* ... the used ring looks empty,
intr_done ==
  /\ lock = Intr /\ used_idx = uidx
  /\ lock' = Leaving
  /\ UNCHANGED <<driver, device, request, data, used_idx, raised, pc, head, bdisk, panicked>>

intr_leave_AckLate ==
  /\ lock = Leaving
  /\ lock' = Nobody
  /\ raised' = FALSE
  /\ UNCHANGED <<driver, device, request, data, used_idx, pc, head, bdisk, panicked>>

\* ... and release the lock; the device may have added an entry since.
intr_leave ==
  /\ lock = Leaving
  /\ lock' = Nobody
  /\ UNCHANGED <<driver, device, request, data, used_idx, raised, pc, head, bdisk, panicked>>

\* The device takes the next request from the avail ring,
device_take ==
  /\ seen # avail_idx
  /\ seen' = Bump(seen)
  /\ inflight' = inflight \cup {avail[seen % NUM]}
  /\ avail' = [avail EXCEPT ![seen % NUM] = 0]
  /\ UNCHANGED <<free, desc, ops, info, avail_idx, disk, used, uidx, request, data, used_idx, lock, raised, pc, head,
                 bdisk, panicked>>

\* ... does the transfers in any order, and reports each in the used ring.
device_done(d) ==
  LET b == desc[desc[d].next].addr IN
  /\ d \in inflight
  /\ IF ops[d].write THEN disk' = [disk EXCEPT ![ops[d].blk] = data[b]] /\ UNCHANGED data
     ELSE data' = [data EXCEPT ![b] = disk[ops[d].blk]] /\ UNCHANGED disk
  /\ info' = [info EXCEPT ![d].ok = TRUE]
  /\ used' = [used EXCEPT ![uidx % NUM] = d]
  /\ uidx' = Bump(uidx)
  /\ raised' = TRUE
  /\ inflight' = inflight \ {d}
  /\ UNCHANGED <<free, desc, ops, avail, avail_idx, seen, request, used_idx, lock, pc, head,
                 bdisk, panicked>>
-----------------------------------------------------------------------------
\* virtio_disk_init(): zeroed rings, every descriptor free.
Init ==
  /\ free = Descs
  /\ desc = [d \in Descs |-> ZeroDesc]
  /\ ops = [d \in Descs |-> NoReq]
  /\ info = [d \in Descs |-> [b |-> Nobody, ok |-> TRUE]]
  /\ avail = [d \in Descs |-> 0] /\ used = [d \in Descs |-> 0]
  /\ avail_idx = 0 /\ uidx = 0 /\ used_idx = 0 /\ seen = 0
  /\ lock = Nobody /\ raised = FALSE /\ panicked = FALSE
  /\ pc = [p \in Procs |-> "idle"]
  /\ blk = [p \in Procs |-> NoBlock] /\ write = [p \in Procs |-> FALSE]
  /\ head = [p \in Procs |-> 0]
  /\ bdisk = [p \in Procs |-> FALSE]
  /\ data = [p \in Procs |-> NoData] /\ disk \in [Blocks -> Vals]
  /\ inflight = {}

Driver(p) == virtio_disk_rw(p) \/ alloc3_desc(p) \/ notify(p) \/ finish(p)

virtio_disk_intr == intr_enter \/ intr_turn \/ intr_done \/ intr_leave

Device == device_take \/ \E d \in Descs : device_done(d)

Next ==
  \/ \E p \in Procs :
       \/ Driver(p) \/ kill(p)
       \/ \E k \in Blocks, w \in BOOLEAN, v \in Vals : call(p, k, w, v)
  \/ virtio_disk_intr
  \/ Device

Spec == Init /\ [][Next]_vars
-----------------------------------------------------------------------------
(* Properties.                                                             *)

\* The requests that own descriptors.
Active == {p \in Procs : pc[p] \in {"publish", "asleep", "wait"}}

\* The type of every variable.
TypeOK ==
  /\ free \subseteq Descs /\ inflight \subseteq Descs
  /\ \A d \in Descs : desc[d].next \in Descs /\ desc[d].more \in BOOLEAN
  /\ \A d \in Descs : info[d].b \in Procs \cup {Nobody} /\ info[d].ok \in BOOLEAN
  /\ avail \in [Descs -> Descs] /\ used \in [Descs -> Descs]
  /\ {avail_idx, uidx, used_idx, seen} \subseteq Indices
  /\ lock \in Procs \cup {Intr, Leaving, Nobody} /\ raised \in BOOLEAN /\ panicked \in BOOLEAN
  /\ pc \in [Procs -> {"idle", "alloc", "nodesc", "publish", "asleep", "wait"}]
  /\ blk \in [Procs -> Blocks \cup {NoBlock}] /\ write \in [Procs -> BOOLEAN] /\ head \in [Procs -> Descs]
  /\ bdisk \in [Procs -> BOOLEAN] /\ data \in [Procs -> Vals \cup {NoData}] /\ disk \in [Blocks -> Vals]

BD == INSTANCE BlockDevice WITH
  req <- [p \in Procs |->
            IF pc[p] = "idle" THEN NoReq
            ELSE [blk |-> blk[p], write |-> write[p],
                  done |-> pc[p] \in {"asleep", "wait"} /\ info[head[p]].ok]]

\* Every call of virtio_disk_rw() transfers its own buffer exactly once before
\* it returns, whatever the order in which the device works.
TransfersOnce == BD!DSpec

\* The chains of the requests under way are disjoint, have three descriptors
\* each, and together with the free ones make up the table: none leaks, and
\* the panics of free_desc() and virtio_disk_intr() are unreachable.
ChainsPartition ==
  /\ TypeOK /\ ~panicked
  /\ \A p \in Active : Cardinality(Chain(head[p])) = 3 /\ Chain(head[p]) \cap free = {}
  /\ \A p, q \in Active : p # q => Chain(head[p]) \cap Chain(head[q]) = {}
  /\ Cardinality(free) + 3 * Cardinality(Active) = NUM

\* Nobody sleeps for ever.  A completion the handler has not looked at will be:
\* the interrupt is still raised, or the handler is in its loop; so nobody
\* sleeps on a buffer that the device has finished unless the handler is to
\* come.  And nobody sleeps for descriptors while three are free: free_desc()
\* wakes the waiters, also when others roll back in alloc3_desc().
NoLostCompletion ==
  /\ used_idx # uidx => raised \/ lock = Intr
  /\ \A p \in Procs : pc[p] = "asleep" /\ info[head[p]].ok => used_idx # uidx
  /\ \A p \in Procs : pc[p] = "nodesc" => Cardinality(free) < 3
=============================================================================
