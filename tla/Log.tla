-------------------------------- MODULE Log --------------------------------
(***************************************************************************)
(* The redo log of kernel/log.c above the disk and the buffer cache:       *)
(* begin_op, bread/log_write/brelse, end_op, the group commit with one     *)
(* disk write per step, a crash between any two steps, and the recovery    *)
(* that initlog() runs at boot (which may itself be cut by a crash).       *)
(*                                                                         *)
(* Assumed of the hardware: bwrite() of one block is atomic and durable    *)
(* when it returns (virtio_disk_rw waits for the completion).              *)
(* Block numbers and contents are opaque values; the log header is the     *)
(* sequence lh.block[0 .. lh.n-1].                                         *)
(***************************************************************************)
EXTENDS Integers, Sequences, FiniteSets

CONSTANTS Procs,        \* processes that make file-system calls
          Blocks,       \* home block numbers
          Vals,         \* block contents
          Zero,         \* the contents of a zeroed block
          NoBlock,      \* "holds no buffer"
          NoBuf,        \* "not in the buffer cache"
          MAXOPBLOCKS,  \* param.h: blocks reserved for one operation
          LOGSIZE,      \* param.h: length of lh.block[]
          NLOG,         \* sb.nlog (log.size): blocks of the on-disk log
          OPBLOCKS      \* distinct blocks an operation really logs

ASSUME ValueAssumption == Zero \in Vals /\ NoBuf \notin Vals /\ NoBlock \notin Blocks
ASSUME SizeAssumption ==
  /\ MAXOPBLOCKS \in Nat \ {0}
  /\ LOGSIZE \in Nat
  /\ NLOG \in Nat \ {0}
  /\ OPBLOCKS \in 0..MAXOPBLOCKS
ASSUME FiniteAssumption == IsFiniteSet(Procs)

VARIABLES
  disk,        \* home blocks on the disk
  dlog,        \* data blocks of the on-disk log: log.start+1 ...
  dhead,       \* header block of the on-disk log
  buf,         \* buffer cache: contents of each cached home block
  pin,         \* references the log holds on a buffer (bpin/bunpin)
  lh,          \* log.lh, the in-memory header
  outstanding, \* log.outstanding
  committing,  \* log.committing
  pc,          \* where each process is in its file-system call
  held,        \* the buffer each process has locked
  wrote,       \* blocks logged so far by each running operation
  phase,       \* step of commit() or of recover_from_log()
  tail,        \* loop index of write_log() / install_trans()
  panicked     \* "no", or the message of panic()

diskVars == <<disk, dlog, dhead>>
opVars == <<pc, held, wrote>>
vars == <<disk, dlog, dhead, buf, pin, lh, outstanding, committing, pc, held,
          wrote, phase, tail, panicked>>

CommitPhases == {"write_log", "write_head", "install", "clear", "finish"}
BootPhases == {"r_read", "r_install", "r_clear"}
LogSlots == 1..(NLOG - 1)
Panics == {"too big a transaction", "log_write outside of trans",
           "log.committing"}

-----------------------------------------------------------------------------
(* Helpers.  A definition named after another one with a suffix is a       *)
(* deliberately wrong version of it, used to check that the properties     *)
(* notice; no specification uses it.                                       *)

\* What bread() finds: the cached buffer, or the block read from the disk.
Bread(b) == IF buf[b] = NoBuf THEN disk[b] ELSE buf[b]

LogFull_OneTooFew(n, out) == n + out * MAXOPBLOCKS > LOGSIZE

\* begin_op(): this operation might exhaust the log.
LogFull(n, out) == n + (out + 1) * MAXOPBLOCKS > LOGSIZE

\* begin_op(): a commit is running, or there may be no room.
MustWait(n, out) == committing \/ LogFull(n, out)

LastOut_Always(out) == TRUE

\* end_op(): nobody else is inside an operation, so this one commits.
LastOut(out) == out = 0

\* log_write(): the panic test, made before absorption is considered.
TooBig(n) == n >= LOGSIZE \/ n >= NLOG - 1

Logged(b) == \E i \in DOMAIN lh : lh[i] = b

Pin(b) == [pin EXCEPT ![b] = @ + 1]

\* install_trans(recovering): bunpin() only for a commit.
Unpin(b) == IF phase = "install" THEN [pin EXCEPT ![b] = @ - 1] ELSE pin

\* The loop of write_log() or install_trans() has handled every block.
LastTail(t) == t = Len(lh)

AfterLog_InstallFirst == "install"

\* commit(): write_log() is followed by write_head(), then install_trans().
AfterLog == "write_head"

\* end_op(): log.committing = 0 once commit() has returned.
StillCommitting == FALSE

Wakeup_Nobody == pc

\* wakeup(&log): every process asleep in begin_op() tests again.
Wakeup == [p \in Procs |-> IF pc[p] = "asleep" THEN "begin" ELSE pc[p]]

Up == panicked = "no" /\ phase \notin BootPhases

\* After commit() has returned or the boot is over the loop index is dead.
GoTo(ph, t) == phase' = ph /\ tail' = t
-----------------------------------------------------------------------------
(* The system calls.                                                       *)

begin_op(p) ==
  /\ Up
  /\ pc[p] \in {"idle", "begin"}
  /\ IF MustWait(Len(lh), outstanding)
     THEN /\ pc' = [pc EXCEPT ![p] = "asleep"]
          /\ UNCHANGED <<outstanding, wrote>>
     ELSE /\ pc' = [pc EXCEPT ![p] = "op"]
          /\ outstanding' = outstanding + 1
          /\ wrote' = [wrote EXCEPT ![p] = {}]
  /\ UNCHANGED <<diskVars, buf, pin, lh, committing, held, phase, tail, panicked>>

\* bread(): lock the buffer of block b, reading it from the disk if needed.
bread(p, b) ==
  /\ Up
  /\ pc[p] = "op"
  /\ held[p] = NoBlock
  /\ \A q \in Procs : held[q] # b
  /\ held' = [held EXCEPT ![p] = b]
  /\ buf' = [buf EXCEPT ![b] = Bread(b)]
  /\ UNCHANGED <<diskVars, pin, lh, outstanding, committing, pc, wrote, phase,
                 tail, panicked>>

\* The caller modifies b->data, then log_write(b).
log_write(p, v) ==
  LET b == held[p] IN
  /\ Up
  /\ pc[p] = "op"
  /\ b # NoBlock
  /\ b \in wrote[p] \/ Cardinality(wrote[p]) < OPBLOCKS
  /\ buf' = [buf EXCEPT ![b] = v]
  /\ wrote' = [wrote EXCEPT ![p] = @ \cup {b}]
  /\ IF TooBig(Len(lh))
     THEN panicked' = "too big a transaction" /\ UNCHANGED <<lh, pin>>
     ELSE IF outstanding < 1
     THEN panicked' = "log_write outside of trans" /\ UNCHANGED <<lh, pin>>
     ELSE /\ IF Logged(b) THEN UNCHANGED <<lh, pin>>     \* log absorption
             ELSE lh' = Append(lh, b) /\ pin' = Pin(b)
          /\ UNCHANGED panicked
  /\ UNCHANGED <<diskVars, outstanding, committing, pc, held, phase, tail>>

brelse(p) ==
  /\ Up
  /\ held[p] # NoBlock
  /\ held' = [held EXCEPT ![p] = NoBlock]
  /\ UNCHANGED <<diskVars, buf, pin, lh, outstanding, committing, pc, wrote,
                 phase, tail, panicked>>

\* end_op() up to the release of log.lock; the last one goes on to commit().
end_op(p) ==
  /\ Up
  /\ pc[p] = "op"
  /\ held[p] = NoBlock
  /\ outstanding' = outstanding - 1
  /\ IF committing
     THEN /\ panicked' = "log.committing"
          /\ UNCHANGED <<committing, pc, phase, tail>>
     ELSE /\ IF LastOut(outstanding')
             THEN /\ committing' = TRUE
                  /\ pc' = [pc EXCEPT ![p] = "commit"]
                  /\ GoTo(IF Len(lh) > 0 THEN "write_log" ELSE "finish", 1)
             ELSE /\ pc' = [Wakeup EXCEPT ![p] = "idle"]
                  /\ UNCHANGED <<committing, phase, tail>>
          /\ UNCHANGED panicked
  /\ UNCHANGED <<diskVars, buf, pin, lh, held, wrote>>
-----------------------------------------------------------------------------
(* commit(), one disk write per step.                                      *)

write_log ==
  /\ panicked = "no"
  /\ phase = "write_log"
  /\ LET b == lh[tail] IN
     /\ dlog' = [dlog EXCEPT ![tail] = Bread(b)]
     /\ buf' = [buf EXCEPT ![b] = Bread(b)]
  /\ IF LastTail(tail) THEN GoTo(AfterLog, 1) ELSE GoTo("write_log", tail + 1)
  /\ UNCHANGED <<disk, dhead, pin, lh, outstanding, committing, opVars, panicked>>

\* The header write that commits, and the one that erases the transaction.
write_head ==
  /\ panicked = "no"
  /\ \/ /\ phase = "write_head"
        /\ dhead' = lh
        /\ lh' = lh
        /\ GoTo("install", 1)
     \/ /\ phase \in {"clear", "r_clear"}
        /\ lh' = <<>>
        /\ dhead' = <<>>
        /\ GoTo(IF phase = "clear" THEN "finish" ELSE "up", 1)
  /\ UNCHANGED <<disk, dlog, buf, pin, outstanding, committing, opVars, panicked>>

\* install_trans(recovering): copy one committed block to its home.
install_trans ==
  /\ panicked = "no"
  /\ phase \in {"install", "r_install"}
  /\ LET b == lh[tail] IN
     /\ disk' = [disk EXCEPT ![b] = dlog[tail]]
     /\ buf' = [buf EXCEPT ![b] = dlog[tail]]
     /\ pin' = Unpin(b)
  /\ IF LastTail(tail)
     THEN GoTo(IF phase = "install" THEN "clear" ELSE "r_clear", 1)
     ELSE GoTo(phase, tail + 1)
  /\ UNCHANGED <<dlog, dhead, lh, outstanding, committing, opVars, panicked>>

\* The end of end_op(): log.committing = 0; wakeup(&log).
commit_done ==
  /\ panicked = "no"
  /\ phase = "finish"
  /\ committing' = StillCommitting
  /\ pc' = [p \in Procs |-> IF pc[p] = "commit" THEN "idle" ELSE Wakeup[p]]
  /\ GoTo("up", 1)
  /\ UNCHANGED <<diskVars, buf, pin, lh, outstanding, held, wrote, panicked>>
-----------------------------------------------------------------------------
(* The buffer cache, the crash and the reboot.                             *)

\* bget() recycles a buffer nobody refers to: its contents are forgotten.
Evict(b) ==
  /\ panicked = "no"
  /\ buf[b] # NoBuf
  /\ pin[b] = 0
  /\ \A p \in Procs : held[p] # b
  /\ buf' = [buf EXCEPT ![b] = NoBuf]
  /\ UNCHANGED <<diskVars, pin, lh, outstanding, committing, opVars, phase,
                 tail, panicked>>

\* A reader outside any transaction (fileread() calls readi() without begin_op)
\* locks a buffer, copies it out and releases it, also while commit() runs.
readi(b) ==
  /\ Up
  /\ \A p \in Procs : held[p] # b
  /\ buf' = [buf EXCEPT ![b] = Bread(b)]
  /\ UNCHANGED <<diskVars, pin, lh, outstanding, committing, opVars, phase,
                 tail, panicked>>

\* Power failure, or the reset after a panic: only the disk survives.
Crash ==
  /\ buf' = [b \in Blocks |-> NoBuf]
  /\ pin' = [b \in Blocks |-> 0]
  /\ lh' = <<>>
  /\ outstanding' = 0
  /\ committing' = FALSE
  /\ pc' = [p \in Procs |-> "idle"]
  /\ held' = [p \in Procs |-> NoBlock]
  /\ wrote' = [p \in Procs |-> {}]
  /\ panicked' = "no"
  /\ GoTo("r_read", 1)
  /\ UNCHANGED diskVars

\* recover_from_log(): read the header, then install_trans(1) if n > 0.
read_head ==
  /\ phase = "r_read"
  /\ lh' = dhead
  /\ GoTo(IF Len(dhead) > 0 THEN "r_install" ELSE "r_clear", 1)
  /\ UNCHANGED <<diskVars, buf, pin, outstanding, committing, opVars, panicked>>
-----------------------------------------------------------------------------
\* mkfs leaves an empty, zeroed log; the machine starts by booting.
Init ==
  /\ disk \in [Blocks -> Vals]
  /\ dlog = [i \in LogSlots |-> Zero]
  /\ dhead = <<>>
  /\ buf = [b \in Blocks |-> NoBuf]
  /\ pin = [b \in Blocks |-> 0]
  /\ lh = <<>>
  /\ outstanding = 0
  /\ committing = FALSE
  /\ pc = [p \in Procs |-> "idle"]
  /\ held = [p \in Procs |-> NoBlock]
  /\ wrote = [p \in Procs |-> {}]
  /\ phase = "r_read"
  /\ tail = 1
  /\ panicked = "no"

Op(p) ==
  \/ begin_op(p)
  \/ \E b \in Blocks : bread(p, b)
  \/ \E v \in Vals : log_write(p, v)
  \/ brelse(p)
  \/ end_op(p)

CommitStep == write_log \/ write_head \/ install_trans \/ commit_done

Running ==
  \/ \E p \in Procs : Op(p)
  \/ CommitStep
  \/ read_head
  \/ \E b \in Blocks : Evict(b) \/ readi(b)

Next == Running \/ Crash

Spec == Init /\ [][Next]_vars

(* An operation is finite, so end_op() cannot be put off for ever although  *)
(* reads may come between (strong fairness); every other step of the kernel *)
(* is taken by a process the scheduler keeps running.                       *)
Fairness ==
  /\ \A p \in Procs : WF_vars(brelse(p)) /\ SF_vars(end_op(p))
  /\ \A p \in Procs : WF_vars(pc[p] = "begin" /\ begin_op(p))
  /\ WF_vars(CommitStep)
  /\ WF_vars(read_head)

LiveSpec == Spec /\ Fairness
-----------------------------------------------------------------------------
(* Properties.                                                             *)

\* The type of every variable.
TypeOK ==
  /\ disk \in [Blocks -> Vals]
  /\ dlog \in [LogSlots -> Vals]
  /\ dhead \in Seq(Blocks) /\ Len(dhead) \in 0..(NLOG - 1)
  /\ buf \in [Blocks -> Vals \cup {NoBuf}]
  /\ pin \in [Blocks -> Nat]
  /\ lh \in Seq(Blocks) /\ Len(lh) \in 0..(NLOG - 1)
  /\ outstanding \in Nat
  /\ committing \in BOOLEAN
  /\ pc \in [Procs -> {"idle", "begin", "asleep", "op", "commit"}]
  /\ held \in [Procs -> Blocks \cup {NoBlock}]
  /\ wrote \in [Procs -> SUBSET Blocks]
  /\ phase \in {"up"} \cup CommitPhases \cup BootPhases
  /\ tail \in Nat \ {0}
  /\ panicked \in {"no"} \cup Panics

\* The home blocks d with the log blocks l laid over those the header h names.
Overlay(h, l, d) ==
  [b \in Blocks |-> IF \E i \in DOMAIN h : h[i] = b
                    THEN l[CHOOSE i \in DOMAIN h : h[i] = b]
                    ELSE d[b]]

\* What recovery would leave in the home blocks if the machine stopped now.
Durable == Overlay(dhead, dlog, disk)

\* What a bread() that waits for the boot to finish returns.
Mem == IF phase \in BootPhases THEN Durable ELSE [b \in Blocks |-> Bread(b)]

Active == {p \in Procs : pc[p] = "op"}

AD == INSTANCE AtomicDisk WITH durable <- Durable, mem <- Mem, active <- Active

\* The log implements AtomicDisk: whatever the interleaving of operations and
\* wherever a crash falls in commit() or in recovery, the file system finds all
\* the writes of an operation or none, and no cached block loses an update.
CrashAtomic == AD!ASpec

\* A cached block that differs from its home block is pinned, so that bget()
\* cannot recycle it before commit() has copied it (log_write's bpin against
\* install_trans's bunpin).
DirtyPinned ==
  panicked = "no" => \A b \in Blocks : buf[b] \notin {NoBuf, disk[b]} => pin[b] > 0

\* When no operation runs and no commit is under way, everything written is
\* durable, the in-memory log is empty and every pin has been given back.
QuiescentDurable ==
  (phase = "up" /\ outstanding = 0 /\ panicked = "no") =>
    Durable = Mem /\ lh = <<>> /\ \A b \in Blocks : pin[b] = 0

\* begin_op()'s reservation keeps log_write() and end_op() from panicking.
NoPanic == panicked = "no"

\* Write-ahead rule: a home block changes on the disk only to the value the
\* on-disk log already holds for it under a committed header.
WriteAhead ==
  [][\A b \in Blocks : disk'[b] # disk[b] =>
       \E i \in DOMAIN dhead : dhead[i] = b /\ dlog[i] = disk'[b]]_vars

\* A process asleep in begin_op() is woken, by end_op() or after the commit,
\* unless the machine stops.
SleepersWoken ==
  \A p \in Procs : pc[p] = "asleep" ~> pc[p] # "asleep"
=============================================================================
