--------------------------- MODULE LogRefinement ---------------------------
(***************************************************************************)
(* Log implements AtomicDisk: every step of the log is one of its steps    *)
(* or a stutter, under the mapping Durable / Mem / Active.  The header     *)
(* write of commit() is the step ACommit; installing, recovering, evicting *)
(* and erasing the log are invisible.                                      *)
(***************************************************************************)
EXTENDS LogProofs

\* What laying the log over the home blocks gives, when no block is logged twice.
LEMMA OverlayFacts ==
  ASSUME NEW h \in Seq(Blocks), Injective(h), NEW l, NEW d
  PROVE  /\ \A i \in DOMAIN h : Overlay(h, l, d)[h[i]] = l[i]
         /\ \A b \in Blocks : (\A i \in DOMAIN h : h[i] # b) => Overlay(h, l, d)[b] = d[b]
  <1>1. ASSUME NEW i \in DOMAIN h PROVE Overlay(h, l, d)[h[i]] = l[i]
    <2>1. h[i] \in Blocks
      OBVIOUS
    <2>2. \A j \in DOMAIN h : h[j] = h[i] => j = i
      BY Zenon DEF Injective
    <2>3. (CHOOSE j \in DOMAIN h : h[j] = h[i]) = i
      BY <2>2, Zenon
    <2>4. QED
      BY <2>1, <2>3, Zenon DEF Overlay
  <1>2. ASSUME NEW b \in Blocks, \A i \in DOMAIN h : h[i] # b
        PROVE  Overlay(h, l, d)[b] = d[b]
    BY <1>2, Zenon DEF Overlay
  <1>3. QED
    BY <1>1, <1>2, Zenon

\* Two overlays that agree block by block are equal.
LEMMA OverlayEqual ==
  ASSUME NEW h, NEW l, NEW d, NEW f, f = [b \in Blocks |-> f[b]],
         \A b \in Blocks : Overlay(h, l, d)[b] = f[b]
  PROVE  Overlay(h, l, d) = f
  <1>1. Overlay(h, l, d) = [b \in Blocks |-> Overlay(h, l, d)[b]]
    BY Zenon DEF Overlay
  <1>2. QED
    BY <1>1, Zenon

\* With an empty header the home blocks are what recovery leaves.
LEMMA OverlayEmpty ==
  ASSUME NEW l, NEW d \in [Blocks -> Vals]
  PROVE  Overlay(<<>>, l, d) = d
  BY DEF Overlay

\* After mkfs the cache is empty and the log too: memory and disk agree.
LEMMA RefInit == Init => AD!AInit
  <1> SUFFICES ASSUME Init PROVE AD!AInit
    BY Zenon
  <1>1. Durable = disk
    BY OverlayEmpty, Zenon DEF Init, Durable
  <1>2. Mem = Durable
    BY Zenon DEF Init, Mem, BootPhases
  <1>3. Active = {}
    BY Zenon DEF Init, Active
  <1>4. QED
    BY <1>1, <1>2, <1>3, Zenon DEF Init, AD!AInit

\* begin_op() starts an abstract operation, or sleeps and changes nothing.
LEMMA BeginRef ==
  ASSUME IInv, NEW p \in Procs, begin_op(p)
  PROVE  [AD!ANext]_AD!avars
  <1>1. UNCHANGED <<Durable, Mem>>
    BY Zenon DEF begin_op, diskVars, Durable, Mem, Bread, Overlay
  <1>2. pc[p] # "op"
    BY Zenon DEF begin_op
  <1>3. CASE MustWait(Len(lh), outstanding)
    <2>1. Active' = Active
      BY <1>2, <1>3, Zenon DEF begin_op, Active, IInv, TypeOK
    <2>2. QED
      BY <1>1, <2>1, Zenon DEF AD!avars
  <1>4. CASE ~MustWait(Len(lh), outstanding)
    <2>1. Active' = Active \cup {p} /\ p \notin Active
      BY <1>2, <1>4 DEF begin_op, Active, IInv, TypeOK
    <2>2. AD!ABegin(p)
      BY <1>1, <2>1, Zenon DEF AD!ABegin
    <2>3. QED
      BY <2>2, Zenon DEF AD!ANext
  <1>5. QED
    BY <1>3, <1>4, Zenon

\* bread() caches what the caller would see anyway.
LEMMA BreadRef ==
  ASSUME IInv, NEW p \in Procs, NEW b \in Blocks, bread(p, b)
  PROVE  [AD!ANext]_AD!avars
  <1>0. /\ buf' = [buf EXCEPT ![b] = Bread(b)]
        /\ UNCHANGED <<disk, dlog, dhead, pc, phase>>
    BY Zenon DEF bread, diskVars
  <1>1. Durable' = Durable /\ Active' = Active
    BY <1>0, Zenon DEF Durable, Active, Overlay
  <1>2. \A x \in Blocks : Bread(x)' = Bread(x)
    BY <1>0, Zenon DEF Bread, IInv, TypeOK
  <1>3. Mem' = Mem
    BY <1>0, <1>1, <1>2, Zenon DEF Mem
  <1>4. QED
    BY <1>1, <1>3, Zenon DEF AD!avars

\* log_write() is an abstract write by a running operation.
LEMMA LogWriteRef ==
  ASSUME IInv, NEW p \in Procs, NEW v \in Vals, log_write(p, v)
  PROVE  [AD!ANext]_AD!avars
  <1> USE ValueAssumption
  <1>1. PICK b \in Blocks : b = held[p]
    BY Zenon DEF log_write, IInv, TypeOK
  <1>2. /\ pc[p] = "op" /\ buf' = [buf EXCEPT ![b] = v]
        /\ UNCHANGED <<disk, dlog, dhead, pc, phase>>
    BY <1>1, Zenon DEF log_write, diskVars
  <1>3. phase = "up" /\ p \in Active
    BY <1>2, RunningOp, Zenon
  <1>4. Durable' = Durable /\ Active' = Active
    BY <1>2, Zenon DEF Durable, Active, Overlay
  <1>5. Mem = [x \in Blocks |-> Bread(x)] /\ Mem' = [x \in Blocks |-> Bread(x)']
    BY <1>2, <1>3, Zenon DEF Mem, BootPhases
  <1>6. Bread(b)' = v /\ \A x \in Blocks : x # b => Bread(x)' = Bread(x)
    BY <1>2, Zenon DEF Bread, IInv, TypeOK
  <1>7. Mem' = [Mem EXCEPT ![b] = v]
    BY <1>5, <1>6, Zenon
  <1>8. AD!AWrite(p, b, v)
    BY <1>3, <1>4, <1>7, Zenon DEF AD!AWrite
  <1>9. QED
    BY <1>8, Zenon DEF AD!ANext

\* end_op() ends the abstract operation.
LEMMA EndRef ==
  ASSUME IInv, NEW p \in Procs, end_op(p)
  PROVE  [AD!ANext]_AD!avars
  <1>1. /\ pc[p] = "op" /\ phase = "up" /\ p \in Active /\ committing = FALSE
    BY RunningOp, Zenon DEF end_op
  <1>2. /\ UNCHANGED <<disk, dlog, dhead, buf>>
        /\ phase' \in {"up", "write_log", "finish"}
    BY <1>1, Zenon DEF end_op, diskVars, GoTo
  <1>3. Durable' = Durable
    BY <1>2, Zenon DEF Durable, Overlay
  <1>4. Mem' = Mem
    BY <1>1, <1>2, Zenon DEF Mem, BootPhases, Bread
  <1>5. \A q \in Procs : pc'[q] = "op" <=> q # p /\ pc[q] = "op"
    BY <1>1, Zenon DEF end_op, IInv, TypeOK, Wakeup
  <1>6. Active' = Active \ {p}
    BY <1>5, Zenon DEF Active
  <1>7. AD!AEnd(p)
    BY <1>1, <1>3, <1>4, <1>6, Zenon DEF AD!AEnd
  <1>8. QED
    BY <1>7, Zenon DEF AD!ANext

\* write_log() only fills log blocks that no header names yet.
LEMMA WriteLogRef ==
  ASSUME IInv, write_log
  PROVE  [AD!ANext]_AD!avars
  <1> USE ValueAssumption
  <1>0. /\ phase = "write_log" /\ UNCHANGED <<disk, dhead, pc>>
        /\ buf' = [buf EXCEPT ![lh[tail]] = Bread(lh[tail])]
        /\ phase' \in {"write_log", "write_head"}
    BY Zenon DEF write_log, opVars, AfterLog, GoTo
  <1>1. dhead = <<>> /\ lh[tail] \in Blocks
    BY <1>0 DEF IInv, HeadInv, PhaseInv, TypeOK
  <1>2. Durable = disk /\ Durable' = disk
    BY <1>0, <1>1, OverlayEmpty, Zenon DEF Durable, IInv, TypeOK
  <1>3. \A x \in Blocks : Bread(x)' = Bread(x)
    BY <1>0, <1>1, Zenon DEF Bread, IInv, TypeOK
  <1>4. Mem' = Mem
    BY <1>0, <1>3, Zenon DEF Mem, BootPhases
  <1>5. QED
    BY <1>0, <1>2, <1>4, Zenon DEF AD!avars, Active

\* The header write is the commit point; erasing the header changes nothing
\* because every logged block is home by then.
LEMMA WriteHeadRef ==
  ASSUME IInv, write_head
  PROVE  [AD!ANext]_AD!avars
  <1> USE ValueAssumption
  <1>0. UNCHANGED <<disk, dlog, buf, pc>> /\ Active = {}
    BY Zenon DEF write_head, opVars, IInv, PhaseInv
  <1>1. Active' = Active
    BY <1>0, Zenon DEF Active
  <1>2. /\ lh \in Seq(Blocks) /\ Injective(lh) /\ disk \in [Blocks -> Vals]
        /\ \A i \in DOMAIN lh : lh[i] \in Blocks
    BY DEF IInv, TypeOK, HeadInv
  <1>3. CASE phase = "write_head"
    <2>1. dhead' = lh /\ phase' = "install"
      BY <1>3, Zenon DEF write_head, GoTo
    <2>2. Mem = [x \in Blocks |-> Bread(x)]
      BY <1>3, Zenon DEF Mem, BootPhases
    <2>3. Mem' = Mem
      BY <1>0, <2>1, <2>2, Zenon DEF Mem, BootPhases, Bread
    <2>4. Durable' = Overlay(lh, dlog, disk)
      BY <1>0, <2>1, Zenon DEF Durable
    <2>5. ASSUME NEW b \in Blocks PROVE Overlay(lh, dlog, disk)[b] = Mem[b]
      <3>1. CASE \E i \in DOMAIN lh : lh[i] = b
        <4>1. PICK i \in DOMAIN lh : lh[i] = b
          BY <3>1, Zenon
        <4>2. dlog[i] = buf[b]
          BY <1>3, <4>1, Zenon DEF IInv, CopyInv
        <4>3. buf[b] # NoBuf
          BY <1>3, <4>1, Zenon DEF IInv, CacheInv, Uninstalled
        <4>4. Overlay(lh, dlog, disk)[b] = dlog[i]
          BY <1>2, <4>1, OverlayFacts
        <4>5. QED
          BY <2>2, <4>2, <4>3, <4>4, Zenon DEF Bread
      <3>2. CASE \A i \in DOMAIN lh : lh[i] # b
        <4>1. buf[b] \in {NoBuf, disk[b]}
          BY <3>2, Zenon DEF IInv, CacheInv, Uninstalled
        <4>2. Overlay(lh, dlog, disk)[b] = disk[b]
          BY <1>2, <3>2, OverlayFacts
        <4>3. QED
          BY <2>2, <4>1, <4>2, Zenon DEF Bread
      <3>3. QED
        BY <3>1, <3>2, Zenon
    <2>6. Durable' = Mem
      <3>1. Mem = [x \in Blocks |-> Mem[x]]
        BY <2>2, Zenon
      <3>2. QED
        BY <2>4, <2>5, <3>1, OverlayEqual
    <2>7. AD!ACommit
      BY <1>0, <1>1, <2>3, <2>6, Zenon DEF AD!ACommit
    <2>8. QED
      BY <2>7, Zenon DEF AD!ANext
  <1>4. CASE phase \in {"clear", "r_clear"}
    <2>1. dhead' = <<>> /\ phase' = IF phase = "clear" THEN "finish" ELSE "up"
      BY <1>4, Zenon DEF write_head, GoTo
    <2>2. Durable' = disk
      BY <1>0, <1>2, <2>1, OverlayEmpty, Zenon DEF Durable
    <2>3. dhead = lh
      BY <1>4, Zenon DEF IInv, HeadInv
    <2>4. ASSUME NEW b \in Blocks PROVE Overlay(lh, dlog, disk)[b] = disk[b]
      <3>1. CASE \E i \in DOMAIN lh : lh[i] = b
        <4>1. PICK i \in DOMAIN lh : lh[i] = b
          BY <3>1, Zenon
        <4>2. disk[b] = dlog[i]
          BY <1>4, <4>1, Zenon DEF IInv, CopyInv
        <4>3. QED
          BY <1>2, <4>1, <4>2, OverlayFacts
      <3>2. QED
        BY <1>2, <3>1, OverlayFacts
    <2>5. Durable = disk
      <3>1. disk = [x \in Blocks |-> disk[x]]
        BY <1>2, Zenon
      <3>2. QED
        BY <2>3, <2>4, <3>1, OverlayEqual DEF Durable
    <2>6. \A x \in Blocks : Bread(x) = disk[x]
      <3>1. phase = "r_clear" \/ phase = "clear"
        BY <1>4, Zenon
      <3>2. \A x \in Blocks : ~Uninstalled(x)
        BY <1>4, Zenon DEF Uninstalled
      <3>3. QED
        BY <3>2, Zenon DEF IInv, CacheInv, Bread
    <2>7. \A x \in Blocks : Bread(x)' = disk[x]
      BY <1>0, <2>6, Zenon DEF Bread
    <2>8. Mem' = disk
      <3>1. Mem' = [x \in Blocks |-> Bread(x)']
        BY <2>1, Zenon DEF Mem, BootPhases
      <3>2. QED
        BY <1>2, <2>7, <3>1, Zenon
    <2>9. Mem = disk
      <3>1. CASE phase \in BootPhases
        BY <2>5, <3>1, Zenon DEF Mem
      <3>2. CASE phase \notin BootPhases
        BY <1>2, <2>6, <3>2, Zenon DEF Mem
      <3>3. QED
        BY <3>1, <3>2, Zenon
    <2>10. QED
      BY <1>1, <2>2, <2>5, <2>8, <2>9, Zenon DEF AD!avars
  <1>5. QED
    BY <1>3, <1>4, Zenon DEF write_head

\* Installing a block under a committed header changes neither view.
LEMMA InstallRef ==
  ASSUME IInv, install_trans
  PROVE  [AD!ANext]_AD!avars
  <1> USE ValueAssumption
  <1>0. /\ phase \in {"install", "r_install"} /\ UNCHANGED <<dlog, dhead, lh, pc>>
        /\ disk' = [disk EXCEPT ![lh[tail]] = dlog[tail]]
        /\ buf' = [buf EXCEPT ![lh[tail]] = dlog[tail]]
        /\ phase' \in IF phase = "install" THEN {"install", "clear"}
                      ELSE {"r_install", "r_clear"}
    BY Zenon DEF install_trans, opVars, GoTo
  <1>1. /\ tail \in DOMAIN lh /\ lh[tail] \in Blocks /\ lh \in Seq(Blocks)
        /\ Injective(lh) /\ dhead = lh /\ dhead' = lh
        /\ dlog[tail] \in Vals
    BY <1>0, SizeAssumption DEF IInv, HeadInv, PhaseInv, TypeOK, LogSlots
  <1>2. ASSUME NEW b \in Blocks
        PROVE  Overlay(lh, dlog, disk')[b] = Overlay(lh, dlog, disk)[b]
    <2>1. CASE \E i \in DOMAIN lh : lh[i] = b
      BY <2>1, Zenon DEF Overlay
    <2>2. CASE ~\E i \in DOMAIN lh : lh[i] = b
      <3>1. disk'[b] = disk[b]
        BY <1>0, <1>1, <2>2, Zenon DEF IInv, TypeOK
      <3>2. QED
        BY <2>2, <3>1, Zenon DEF Overlay
    <2>3. QED
      BY <2>1, <2>2, Zenon
  <1>3. Durable' = Durable
    <2>1. Durable = [x \in Blocks |-> Durable[x]]
      BY Zenon DEF Durable, Overlay
    <2>2. \A b \in Blocks : Overlay(lh, dlog, disk')[b] = Durable[b]
      BY <1>1, <1>2, Zenon DEF Durable
    <2>3. Overlay(lh, dlog, disk') = Durable
      BY <2>1, <2>2, OverlayEqual
    <2>4. QED
      BY <1>0, <1>1, <2>3, Zenon DEF Durable
  <1>4. Mem' = Mem
    <2>1. CASE phase = "r_install"
      BY <1>0, <1>3, <2>1, Zenon DEF Mem, BootPhases
    <2>2. CASE phase = "install"
      <3>1. buf[lh[tail]] = dlog[tail]
        BY <1>1, <2>2 DEF IInv, CopyInv, TypeOK
      <3>2. \A x \in Blocks : Bread(x)' = Bread(x)
        BY <1>0, <1>1, <3>1, Zenon DEF Bread, IInv, TypeOK
      <3>3. QED
        BY <1>0, <2>2, <3>2, Zenon DEF Mem, BootPhases
    <2>3. QED
      BY <1>0, <2>1, <2>2, Zenon
  <1>5. QED
    BY <1>0, <1>3, <1>4, Zenon DEF AD!avars, Active

\* The end of the commit is invisible above the log.
LEMMA CommitDoneRef ==
  ASSUME IInv, commit_done
  PROVE  [AD!ANext]_AD!avars
  <1>0. /\ phase = "finish" /\ phase' = "up" /\ UNCHANGED <<disk, dlog, dhead, buf>>
        /\ pc' = [p \in Procs |-> IF pc[p] = "commit" THEN "idle" ELSE Wakeup[p]]
    BY Zenon DEF commit_done, diskVars, GoTo
  <1>1. Durable' = Durable /\ Mem' = Mem
    BY <1>0, Zenon DEF Durable, Overlay, Mem, BootPhases, Bread
  <1>2. Active' = Active
    BY <1>0, Zenon DEF Active, Wakeup
  <1>3. QED
    BY <1>1, <1>2, Zenon DEF AD!avars

\* A recycled buffer was clean: reading its block again gives the same contents.
LEMMA EvictRef ==
  ASSUME IInv, NEW b \in Blocks, Evict(b)
  PROVE  [AD!ANext]_AD!avars
  <1>0. /\ pin[b] = 0 /\ buf' = [buf EXCEPT ![b] = NoBuf]
        /\ UNCHANGED <<disk, dlog, dhead, pc, phase>>
    BY Zenon DEF Evict, diskVars, opVars
  <1>1. buf[b] \in {NoBuf, disk[b]}
    BY <1>0 DEF IInv, CacheInv
  <1>2. \A x \in Blocks : Bread(x)' = Bread(x)
    BY <1>0, <1>1, Zenon DEF Bread, IInv, TypeOK
  <1>3. Durable' = Durable /\ Active' = Active
    BY <1>0, Zenon DEF Durable, Overlay, Active
  <1>4. Mem' = Mem
    BY <1>0, <1>2, <1>3, Zenon DEF Mem
  <1>5. QED
    BY <1>3, <1>4, Zenon DEF AD!avars

\* A read outside a transaction returns what the caller would see anyway.
LEMMA ReadRef ==
  ASSUME IInv, NEW b \in Blocks, readi(b)
  PROVE  [AD!ANext]_AD!avars
  <1>0. /\ buf' = [buf EXCEPT ![b] = Bread(b)]
        /\ UNCHANGED <<disk, dlog, dhead, pc, phase>>
    BY Zenon DEF readi, diskVars, opVars
  <1>1. Durable' = Durable /\ Active' = Active
    BY <1>0, Zenon DEF Durable, Active, Overlay
  <1>2. \A x \in Blocks : Bread(x)' = Bread(x)
    BY <1>0, Zenon DEF Bread, IInv, TypeOK
  <1>3. Mem' = Mem
    BY <1>0, <1>1, <1>2, Zenon DEF Mem
  <1>4. QED
    BY <1>1, <1>3, Zenon DEF AD!avars

\* A crash forgets everything that is not durable.
LEMMA CrashRef ==
  ASSUME Crash
  PROVE  [AD!ANext]_AD!avars
  <1>1. Durable' = Durable
    BY Zenon DEF Crash, diskVars, Durable, Overlay
  <1>2. Mem' = Durable
    BY <1>1, Zenon DEF Crash, GoTo, Mem, BootPhases
  <1>3. Active' = {}
    BY Zenon DEF Crash, Active
  <1>4. AD!ACrash
    BY <1>1, <1>2, <1>3, Zenon DEF AD!ACrash
  <1>5. QED
    BY <1>4, Zenon DEF AD!ANext

\* The remaining steps change nothing the file system can see.
LEMMA QuietRef ==
  ASSUME IInv, read_head \/ (\E p \in Procs : brelse(p)) \/ UNCHANGED vars
  PROVE  [AD!ANext]_AD!avars
  <1>1. CASE read_head
    <2>1. /\ phase = "r_read" /\ phase' \in BootPhases
          /\ UNCHANGED <<disk, dlog, dhead, pc>>
      BY <1>1, Zenon DEF read_head, GoTo, diskVars, opVars, BootPhases
    <2>2. Durable' = Durable /\ Active' = Active
      BY <2>1, Zenon DEF Durable, Overlay, Active
    <2>3. Mem' = Mem
      BY <2>1, <2>2, Zenon DEF Mem, BootPhases
    <2>4. QED
      BY <2>2, <2>3, Zenon DEF AD!avars
  <1>2. CASE (\E p \in Procs : brelse(p)) \/ UNCHANGED vars
    <2>1. UNCHANGED <<disk, dlog, dhead, buf, pc, phase>>
      BY <1>2, Zenon DEF brelse, diskVars, vars
    <2>2. Durable' = Durable /\ Active' = Active /\ Mem' = Mem
      BY <2>1, Zenon DEF Durable, Overlay, Active, Mem, Bread
    <2>3. QED
      BY <2>2, Zenon DEF AD!avars
  <1>3. QED
    BY <1>1, <1>2, Zenon

\* The log implements AtomicDisk: a crash at any point, recovery included,
\* leaves all the writes of an operation or none.
THEOREM Refinement == Spec => CrashAtomic
  <1>1. IInv /\ [Next]_vars => [AD!ANext]_AD!avars
    <2> SUFFICES ASSUME IInv, [Next]_vars PROVE [AD!ANext]_AD!avars
      BY Zenon
    <2>1. ASSUME NEW p \in Procs, Op(p) PROVE [AD!ANext]_AD!avars
      BY <2>1, BeginRef, BreadRef, LogWriteRef, EndRef, QuietRef, Zenon DEF Op
    <2>2. CASE CommitStep
      BY <2>2, WriteLogRef, WriteHeadRef, InstallRef, CommitDoneRef, Zenon DEF CommitStep
    <2>3. ASSUME NEW b \in Blocks, Evict(b) PROVE [AD!ANext]_AD!avars
      BY <2>3, EvictRef, Zenon
    <2>4. CASE Crash
      BY <2>4, CrashRef, Zenon
    <2>5. CASE read_head \/ UNCHANGED vars
      BY <2>5, QuietRef, Zenon
    <2>6. ASSUME NEW b \in Blocks, readi(b) PROVE [AD!ANext]_AD!avars
      BY <2>6, ReadRef, Zenon
    <2>7. QED
      BY <2>1, <2>2, <2>3, <2>4, <2>5, <2>6, Zenon DEF Next, Running
  <1>2. QED
    BY RefInit, Inductive, <1>1, PTL DEF Spec, CrashAtomic, AD!ASpec

\* When nothing runs, all that was written is durable and every pin is back.
THEOREM QuiescentIsDurable == Spec => []QuiescentDurable
  <1>1. IInv => QuiescentDurable
    <2> SUFFICES ASSUME IInv, phase = "up", outstanding = 0
                 PROVE  Durable = Mem /\ lh = <<>> /\ \A b \in Blocks : pin[b] = 0
      BY Zenon DEF QuiescentDurable
    <2>1. Active = {}
      BY CreditsType, CreditsBound, FS_EmptySet, Zenon DEF IInv, OpInv
    <2>2. lh = <<>> /\ dhead = <<>>
      BY <2>1, Zenon DEF IInv, PhaseInv, HeadInv
    <2>3. \A b \in Blocks : pin[b] = 0 /\ buf[b] \in {NoBuf, disk[b]}
      BY <2>2 DEF IInv, CacheInv, Uninstalled
    <2>4. Durable = disk
      BY <2>2, OverlayEmpty, Zenon DEF Durable, IInv, TypeOK
    <2>5. Mem = disk
      BY <2>3, Zenon DEF Mem, BootPhases, Bread, IInv, TypeOK
    <2>6. QED
      BY <2>2, <2>3, <2>4, <2>5, Zenon
  <1>2. QED
    BY <1>1, Inductive, PTL

\* A home block changes on the disk only to what the committed log holds for it.
THEOREM WriteAheadRule == Spec => WriteAhead
  <1> DEFINE Rule == \A b \in Blocks : disk'[b] # disk[b] =>
                       \E i \in DOMAIN dhead : dhead[i] = b /\ dlog[i] = disk'[b]
  <1>1. IInv /\ [Next]_vars => [Rule]_vars
    <2> SUFFICES ASSUME IInv, Next PROVE Rule
      BY Zenon
    <2>1. CASE install_trans
      <3>1. /\ phase \in {"install", "r_install"}
            /\ disk' = [disk EXCEPT ![lh[tail]] = dlog[tail]]
        BY <2>1, Zenon DEF install_trans
      <3>2. tail \in DOMAIN lh /\ lh[tail] \in Blocks /\ dhead = lh
        BY <3>1 DEF IInv, HeadInv, PhaseInv, TypeOK
      <3>3. QED
        BY <3>1, <3>2, Zenon DEF IInv, TypeOK
    <2>2. CASE ~install_trans
      <3>1. disk' = disk
        BY <2>2, Zenon DEF Next, Running, Op, CommitStep, begin_op, bread, log_write, brelse,
           end_op, write_log, write_head, commit_done, read_head, Evict, readi, Crash,
           diskVars
      <3>2. QED
        BY <3>1, Zenon
    <2>3. QED
      BY <2>1, <2>2, Zenon
  <1>2. QED
    BY <1>1, Inductive, PTL DEF Spec, WriteAhead
=============================================================================
