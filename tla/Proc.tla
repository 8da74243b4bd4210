-------------------------------- MODULE Proc --------------------------------
(***************************************************************************)
(* Processes of kernel/proc.c: fork, exit, wait and kill, sleep and        *)
(* wakeup, and the hand-over of p->lock between a process and scheduler(). *)
(*                                                                         *)
(* A step is one critical section, or one iteration of a loop over proc[]. *)
(* A section that takes p->lock and gives it back touches nothing that is  *)
(* read without it, so it is one step, possible only while the lock is     *)
(* free; plock[p] is TRUE while the lock of p is held across a switch,     *)
(* from sleep(), yield() or exit() into scheduler() or back.  wait_lock is *)
(* held over many steps and has an owner.                                  *)
(* Left out: user memory, open files and cwd, the exit status.             *)
(***************************************************************************)
EXTENDS Integers

CONSTANTS NPROC,     \* length of proc[]
          CPUs,
          MAXPID,    \* bound: no fork() starts after this pid was handed out
          KillPids   \* the arguments kill() is called with

ASSUME ProcAssumption == NPROC \in Nat \ {0} /\ MAXPID \in Nat \ {0} /\ KillPids \subseteq Nat

Slots == 1..NPROC
NoProc == 0
initproc == 1

VARIABLES
  state,     \* p->state
  parent,    \* p->parent
  pid,       \* p->pid
  killed,    \* p->killed
  chan,      \* p->chan; the only channel here is the address of a proc
  plock,     \* p->lock is held across a context switch
  waitlock,  \* owner of wait_lock
  nextpid,
  cpu,       \* cpus[c].proc
  pc,        \* where the thread of each process is
  i,         \* its index in the loop over proc[] (in fork(): the new process)
  j,         \* its index in the loop of wakeup()
  havekids,  \* local of wait()
  arg        \* argument of kill()

table == <<state, parent, pid, killed, chan, nextpid>>
locals == <<i, j, havekids, arg>>
vars == <<state, parent, pid, killed, chan, plock, waitlock, nextpid, cpu, pc,
          i, j, havekids, arg>>

InWait == {"wait", "wait_scan", "wait_sleep"}
InExit == {"exit", "reparent", "reparent_wake", "exit_wake", "exit_zombie"}
InForkOrKill == {"fork_scan", "fork_parent", "fork_run", "kill_scan"}
PCs == {"user", "trap", "zombie"} \cup InForkOrKill \cup InWait \cup InExit
States == {"UNUSED", "USED", "SLEEPING", "RUNNABLE", "RUNNING", "ZOMBIE"}
-----------------------------------------------------------------------------
(* Helpers.  A definition with the name of another one and a suffix is a   *)
(* wrong version of it that no specification uses.                         *)

OnCpu(s) == \E c \in CPUs : cpu[c] = s

\* The thread of s is executing kernel or user code outside swtch().
Runs(s) == OnCpu(s) /\ state[s] = "RUNNING" /\ ~plock[s]

Goto(s, l) == pc' = [pc EXCEPT ![s] = l]

\* Back to usertrap(); the locals of the call are dead.
Return(s) ==
  /\ Goto(s, "trap")
  /\ i' = [i EXCEPT ![s] = 1]
  /\ havekids' = [havekids EXCEPT ![s] = FALSE]
  /\ arg' = [arg EXCEPT ![s] = 0]

LockFree_Unchecked(s) == TRUE

\* acquire(&p->lock) succeeds.
LockFree(s) == ~plock[s]

\* freeproc(): the slot is UNUSED again.
Free(s) ==
  /\ state' = [state EXCEPT ![s] = "UNUSED"]
  /\ parent' = [parent EXCEPT ![s] = NoProc]
  /\ pid' = [pid EXCEPT ![s] = 0]
  /\ killed' = [killed EXCEPT ![s] = FALSE]
  /\ chan' = [chan EXCEPT ![s] = NoProc]

\* A scan over proc[] that returns -1 has looked at the last slot.
LastSlot(k) == k = NPROC

\* kill(): only a sleeping process is made runnable.
Woken(s) == state[s] = "SLEEPING"

\* reparent(): the channel woken after a child of p was given to init.
ReparentWakes(s) == initproc

ExitWakes_Self(s) == s

\* exit(): the channel on which the parent of p may sleep.
ExitWakes(s) == parent[s]

Adopted_OnlyZombies(s, k) == parent[k] = s /\ state[k] = "ZOMBIE"

\* reparent(): proc[k] is a child of p.
Adopted(s, k) == parent[k] = s
-----------------------------------------------------------------------------
(* Traps and system calls of user processes.                               *)

\* usertrap(): a killed process exits; another one may make a system call.
usertrap(s) ==
  /\ Runs(s)
  /\ pc[s] = "user"
  /\ \/ killed[s] /\ Goto(s, "exit") /\ UNCHANGED arg
     \/ ~killed[s] /\ Goto(s, "fork_scan") /\ nextpid <= MAXPID /\ UNCHANGED arg
     \/ ~killed[s] /\ Goto(s, "wait") /\ UNCHANGED arg
     \/ ~killed[s] /\ s # initproc /\ Goto(s, "exit") /\ UNCHANGED arg
     \/ ~killed[s] /\ Goto(s, "kill_scan") /\ \E n \in KillPids : arg' = [arg EXCEPT ![s] = n]
  /\ UNCHANGED <<table, plock, waitlock, cpu, i, j, havekids>>

\* The end of usertrap(), after the system call.
syscall_return(s) ==
  /\ Runs(s)
  /\ pc[s] = "trap"
  /\ Goto(s, IF killed[s] THEN "exit" ELSE "user")
  /\ UNCHANGED <<table, plock, waitlock, cpu, locals>>
-----------------------------------------------------------------------------
(* fork()                                                                  *)

\* One iteration of allocproc()'s scan.  The slot found is filled in under
\* np->lock: the new process starts in forkret(), or an allocation fails and
\* freeproc() undoes everything (its pid is spent).
allocproc(s) ==
  LET np == i[s] IN
  /\ Runs(s)
  /\ pc[s] = "fork_scan"
  /\ LockFree(np)
  /\ \/ /\ state[np] = "UNUSED"
        /\ nextpid' = nextpid + 1
        /\ \/ /\ state' = [state EXCEPT ![np] = "USED"]
              /\ pid' = [pid EXCEPT ![np] = nextpid]
              /\ pc' = [pc EXCEPT ![np] = "user", ![s] = "fork_parent"]
              /\ UNCHANGED <<parent, killed, chan, i, havekids, arg>>
           \/ Free(np) /\ Return(s)
     \/ /\ state[np] # "UNUSED"
        /\ IF LastSlot(np) THEN Return(s)
           ELSE i' = [i EXCEPT ![s] = np + 1] /\ UNCHANGED <<pc, havekids, arg>>
        /\ UNCHANGED table
  /\ UNCHANGED <<plock, waitlock, cpu, j>>

\* acquire(&wait_lock); np->parent = p; release(&wait_lock).
fork_parent(s) ==
  /\ Runs(s)
  /\ pc[s] = "fork_parent"
  /\ waitlock = NoProc
  /\ parent' = [parent EXCEPT ![i[s]] = s]
  /\ Goto(s, "fork_run")
  /\ UNCHANGED <<state, pid, killed, chan, nextpid, plock, waitlock, cpu, locals>>

\* acquire(&np->lock); np->state = RUNNABLE; release(&np->lock).
fork_run(s) ==
  /\ Runs(s)
  /\ pc[s] = "fork_run"
  /\ LockFree(i[s])
  /\ state' = [state EXCEPT ![i[s]] = "RUNNABLE"]
  /\ Return(s)
  /\ UNCHANGED <<parent, pid, killed, chan, nextpid, plock, waitlock, cpu, j>>
-----------------------------------------------------------------------------
(* exit()                                                                  *)

\* init does not get past the panic.
exit(s) ==
  /\ Runs(s)
  /\ pc[s] = "exit"
  /\ s # initproc
  /\ waitlock = NoProc
  /\ waitlock' = s
  /\ Goto(s, "reparent")
  /\ UNCHANGED <<table, plock, cpu, locals>>

\* One iteration of reparent(), up to its call of wakeup(initproc).
reparent(s) ==
  LET k == i[s] IN
  /\ Runs(s)
  /\ pc[s] = "reparent"
  /\ \/ /\ k <= NPROC /\ Adopted(s, k)
        /\ parent' = [parent EXCEPT ![k] = initproc]
        /\ Goto(s, "reparent_wake")
        /\ j' = [j EXCEPT ![s] = 1]
        /\ UNCHANGED i
     \/ /\ k <= NPROC /\ ~Adopted(s, k)
        /\ i' = [i EXCEPT ![s] = k + 1]
        /\ UNCHANGED <<parent, pc, j>>
     \/ /\ k > NPROC
        /\ Goto(s, "exit_wake")
        /\ j' = [j EXCEPT ![s] = 1]
        /\ UNCHANGED <<parent, i>>
  /\ UNCHANGED <<state, pid, killed, chan, nextpid, plock, waitlock, cpu, havekids, arg>>

\* One iteration of wakeup(): called by reparent() for init, and by exit()
\* for the parent of s.
wakeup(s) ==
  LET k == j[s]
      ch == IF pc[s] = "exit_wake" THEN ExitWakes(s) ELSE ReparentWakes(s) IN
  /\ Runs(s)
  /\ pc[s] \in {"reparent_wake", "exit_wake"}
  /\ \/ /\ k <= NPROC
        /\ k # s => LockFree(k)
        /\ state' = IF k # s /\ state[k] = "SLEEPING" /\ chan[k] = ch
                    THEN [state EXCEPT ![k] = "RUNNABLE"] ELSE state
        /\ j' = [j EXCEPT ![s] = k + 1]
        /\ UNCHANGED <<pc, i>>
     \/ /\ k > NPROC
        /\ Goto(s, IF pc[s] = "exit_wake" THEN "exit_zombie" ELSE "reparent")
        /\ i' = [i EXCEPT ![s] = IF pc[s] = "exit_wake" THEN 1 ELSE @ + 1]
        /\ j' = [j EXCEPT ![s] = 1]
        /\ UNCHANGED state
  /\ UNCHANGED <<parent, pid, killed, chan, nextpid, plock, waitlock, cpu, havekids, arg>>

\* acquire(&p->lock); ZOMBIE; release(&wait_lock); sched().
exit_zombie(s) ==
  /\ Runs(s)
  /\ pc[s] = "exit_zombie"
  /\ state' = [state EXCEPT ![s] = "ZOMBIE"]
  /\ plock' = [plock EXCEPT ![s] = TRUE]
  /\ waitlock' = NoProc
  /\ Goto(s, "zombie")
  /\ UNCHANGED <<parent, pid, killed, chan, nextpid, cpu, locals>>
-----------------------------------------------------------------------------
(* wait(), sleep() and kill()                                              *)

wait(s) ==
  /\ Runs(s)
  /\ pc[s] = "wait"
  /\ waitlock = NoProc
  /\ waitlock' = s
  /\ Goto(s, "wait_scan")
  /\ UNCHANGED <<table, plock, cpu, locals>>

\* One iteration of the scan: a zombie child is freed, unless copyout() of its
\* status fails.  After the last one: return -1, or go to sleep.
wait_scan(s) ==
  LET k == i[s] IN
  /\ Runs(s)
  /\ pc[s] = "wait_scan"
  /\ \/ /\ k <= NPROC /\ parent[k] = s /\ state[k] = "ZOMBIE"
        /\ LockFree(k)
        /\ Free(k) \/ UNCHANGED <<state, parent, pid, killed, chan>>
        /\ waitlock' = NoProc
        /\ Return(s)
     \/ /\ k <= NPROC /\ ~(parent[k] = s /\ state[k] = "ZOMBIE")
        /\ parent[k] = s => LockFree(k)
        /\ i' = [i EXCEPT ![s] = k + 1]
        /\ havekids' = [havekids EXCEPT ![s] = @ \/ parent[k] = s]
        /\ UNCHANGED <<state, parent, pid, killed, chan, waitlock, pc, arg>>
     \/ /\ k > NPROC
        /\ IF ~havekids[s] \/ killed[s]
           THEN waitlock' = NoProc /\ Return(s)
           ELSE Goto(s, "wait_sleep") /\ UNCHANGED <<waitlock, i, havekids, arg>>
        /\ UNCHANGED <<state, parent, pid, killed, chan>>
  /\ UNCHANGED <<plock, nextpid, cpu, j>>

\* sleep(p, &wait_lock) up to sched(); swtch_in finishes it, and wait() takes
\* wait_lock again and starts a new scan.
sleep(s) ==
  /\ Runs(s)
  /\ pc[s] = "wait_sleep"
  /\ plock' = [plock EXCEPT ![s] = TRUE]
  /\ waitlock' = NoProc
  /\ chan' = [chan EXCEPT ![s] = s]
  /\ state' = [state EXCEPT ![s] = "SLEEPING"]
  /\ Goto(s, "wait")
  /\ i' = [i EXCEPT ![s] = 1]
  /\ havekids' = [havekids EXCEPT ![s] = FALSE]
  /\ UNCHANGED <<parent, pid, killed, nextpid, cpu, j, arg>>

\* One iteration of kill()'s scan.
kill(s) ==
  LET k == i[s] IN
  /\ Runs(s)
  /\ pc[s] = "kill_scan"
  /\ LockFree(k)
  /\ \/ /\ pid[k] = arg[s]
        /\ killed' = [killed EXCEPT ![k] = TRUE]
        /\ state' = IF Woken(k) THEN [state EXCEPT ![k] = "RUNNABLE"] ELSE state
        /\ Return(s)
     \/ /\ pid[k] # arg[s]
        /\ IF LastSlot(k) THEN Return(s)
           ELSE i' = [i EXCEPT ![s] = k + 1] /\ UNCHANGED <<pc, havekids, arg>>
        /\ UNCHANGED <<state, killed>>
  /\ UNCHANGED <<parent, pid, chan, nextpid, plock, waitlock, cpu, j>>
-----------------------------------------------------------------------------
(* The scheduler and the switch.                                           *)

\* scheduler() picks s and switches to it, holding its lock.
scheduler(c, s) ==
  /\ cpu[c] = NoProc
  /\ state[s] = "RUNNABLE"
  /\ LockFree(s)
  /\ state' = [state EXCEPT ![s] = "RUNNING"]
  /\ cpu' = [cpu EXCEPT ![c] = s]
  /\ plock' = [plock EXCEPT ![s] = TRUE]
  /\ UNCHANGED <<parent, pid, killed, chan, nextpid, waitlock, pc, locals>>

\* The process resumes after swtch(), in sleep(), yield() or forkret().
swtch_in(s) ==
  /\ OnCpu(s) /\ state[s] = "RUNNING" /\ plock[s]
  /\ chan' = [chan EXCEPT ![s] = NoProc]
  /\ plock' = [plock EXCEPT ![s] = FALSE]
  /\ UNCHANGED <<state, parent, pid, killed, nextpid, waitlock, cpu, pc, locals>>

\* sched(): back in scheduler(), which forgets the process and unlocks it.
sched(c) ==
  LET s == cpu[c] IN
  /\ s # NoProc
  /\ state[s] # "RUNNING"
  /\ cpu' = [cpu EXCEPT ![c] = NoProc]
  /\ plock' = [plock EXCEPT ![s] = FALSE]
  /\ UNCHANGED <<table, waitlock, pc, locals>>

\* A timer interrupt; none is taken while a spinlock is held, nor by wait() or
\* exit() spinning for wait_lock (acquire() disables interrupts first).
yield(s) ==
  /\ Runs(s)
  /\ waitlock # s
  /\ pc[s] \notin {"wait", "exit"}
  /\ state' = [state EXCEPT ![s] = "RUNNABLE"]
  /\ plock' = [plock EXCEPT ![s] = TRUE]
  /\ UNCHANGED <<parent, pid, killed, chan, nextpid, waitlock, cpu, pc, locals>>
-----------------------------------------------------------------------------
\* userinit() has made init runnable.
Init ==
  /\ state = [s \in Slots |-> IF s = initproc THEN "RUNNABLE" ELSE "UNUSED"]
  /\ parent = [s \in Slots |-> NoProc]
  /\ pid = [s \in Slots |-> IF s = initproc THEN 1 ELSE 0]
  /\ killed = [s \in Slots |-> FALSE]
  /\ chan = [s \in Slots |-> NoProc]
  /\ plock = [s \in Slots |-> FALSE]
  /\ waitlock = NoProc
  /\ nextpid = 2
  /\ cpu = [c \in CPUs |-> NoProc]
  /\ pc = [s \in Slots |-> "user"]
  /\ i = [s \in Slots |-> 1]
  /\ j = [s \in Slots |-> 1]
  /\ havekids = [s \in Slots |-> FALSE]
  /\ arg = [s \in Slots |-> 0]

Thread(s) ==
  \/ usertrap(s) \/ syscall_return(s)
  \/ allocproc(s) \/ fork_parent(s) \/ fork_run(s)
  \/ exit(s) \/ reparent(s) \/ wakeup(s) \/ exit_zombie(s)
  \/ wait(s) \/ wait_scan(s) \/ sleep(s) \/ kill(s)

Next ==
  \/ \E s \in Slots : Thread(s) \/ swtch_in(s) \/ yield(s)
  \/ \E c \in CPUs : sched(c) \/ \E s \in Slots : scheduler(c, s)

Spec == Init /\ [][Next]_vars
-----------------------------------------------------------------------------
(* Properties.                                                             *)

\* The type of every variable; the scans of fork() and kill() stay inside proc[].
TypeOK ==
  /\ state \in [Slots -> States]
  /\ parent \in [Slots -> Slots \cup {NoProc}]
  /\ pid \in [Slots -> Nat]
  /\ killed \in [Slots -> BOOLEAN]
  /\ chan \in [Slots -> Slots \cup {NoProc}]
  /\ plock \in [Slots -> BOOLEAN]
  /\ waitlock \in Slots \cup {NoProc}
  /\ nextpid \in Nat
  /\ cpu \in [CPUs -> Slots \cup {NoProc}]
  /\ pc \in [Slots -> PCs]
  /\ i \in [Slots -> 1..(NPROC + 1)]
  /\ \A s \in Slots : pc[s] \in InForkOrKill => i[s] \in Slots
  /\ j \in [Slots -> 1..(NPROC + 1)]
  /\ havekids \in [Slots -> BOOLEAN]
  /\ arg \in [Slots -> Nat]

\* A kernel stack is in use on at most one CPU: a process woken or killed
\* between its going to sleep and its swtch() is not picked before it has
\* left its stack, because scheduler() needs its p->lock.
OneCpuPerStack ==
  \A c, d \in CPUs : cpu[c] = cpu[d] /\ cpu[c] # NoProc => c = d

\* wait() never frees, and fork() never reuses, a process that is still on
\* its way out of exit() through swtch().
NoFreedStack ==
  \A c \in CPUs : cpu[c] # NoProc => state[cpu[c]] \notin {"UNUSED", "USED"}

\* exit()'s reparent() leaves no orphan: the parent of every process that has
\* been started is alive and can still wait() for it.
LiveParent ==
  TypeOK /\ \A s \in Slots \ {initproc} : state[s] \notin {"UNUSED", "USED"} =>
    parent[s] # NoProc /\ state[parent[s]] \notin {"UNUSED", "USED", "ZOMBIE"}

\* No wakeup is lost between exit() or reparent() and wait(): whenever wait_lock
\* is free, no process sleeps in wait() although it has a zombie child.
NoMissedZombie ==
  waitlock = NoProc =>
    \A k \in Slots : state[k] = "ZOMBIE" /\ parent[k] # NoProc =>
      state[parent[k]] # "SLEEPING"
=============================================================================
