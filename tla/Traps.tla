-------------------------------- MODULE Traps --------------------------------
(***************************************************************************)
(* Interrupts, spin locks and context switches: kernel/trap.c,             *)
(* kernel/spinlock.c, sched(), yield(), sleep(), wakeup() and scheduler()  *)
(* of kernel/proc.c, and sys_sleep(), which ties them together.            *)
(*                                                                         *)
(* A thread (a process in the kernel, or the scheduler of a CPU, named     *)
(* after the CPU) is the list of what it still has to do, code[t]; a trap  *)
(* puts its handler in front of that list.  Each entry is <<what, on       *)
(* what>>.  A step touches memory that other CPUs can see at most once, or *)
(* only memory that a lock it holds protects.                              *)
(***************************************************************************)
EXTENDS Integers, Sequences, SequencesExt

CONSTANTS NPROC,
          CPUs, Boot,  \* the CPUs; the one whose timer advances ticks
          tickslock,
          WRAP,        \* 2^32, for ticks
          Durations,   \* the n of sleep(n)
          Killable,    \* the processes that may be killed
          None

Procs == 1..NPROC
Locks == Procs \cup {tickslock}  \* process p stands for its p->lock
Threads == Procs \cup CPUs

ASSUME TrapsAssumption ==
  /\ NPROC \in Nat /\ Boot \in CPUs /\ WRAP \in Nat \ {0} /\ Durations \subseteq 0..WRAP - 1
  /\ Procs \cap CPUs = {} /\ tickslock \notin Procs /\ None \notin Threads
  /\ Killable \subseteq Procs

VARIABLES
  cpu,     \* struct cpu and sstatus.SIE: intr, noff, intena, and the running thread
  lk,      \* the spin locks: locked, and lk->cpu
  code,    \* what each thread still has to do
  state,   \* p->state
  saved,   \* sched()'s local intena
  hart,    \* trapframe->kernel_hartid
  ticks, ticks0, n,  \* and the locals of sys_sleep()
  killed,  \* the processes with p->killed set
  panicked

vars == <<cpu, lk, code, state, saved, hart, ticks, ticks0, n, killed, panicked>>
sleeping == <<ticks, ticks0, n>>

Me(c) == cpu[c].cur
Ins(c) == Head(code[Me(c)])
At(c, what) == Ins(c)[1] = what
On(c) == Ins(c)[2]
Do(what) == <<what, None>>

\* The running thread of c goes on with s in place of its first entry.
Go(c, s) == code' = [code EXCEPT ![Me(c)] = s \o Tail(@)]
-----------------------------------------------------------------------------
(* What the kernel does, as code.  A definition with the name of another   *)
(* one and a suffix is a wrong version of it that no specification uses.   *)

yield(p) == << <<"acquire", p>>, <<"sched", "RUNNABLE">>, <<"release", p>> >>

exit(p) == << <<"acquire", p>>, <<"sched", "ZOMBIE">> >>

sleep_ReleaseFirst(p) ==
  << <<"release", tickslock>>, <<"acquire", p>>, <<"sched", "SLEEPING">>, <<"release", p>>,
     <<"acquire", tickslock>> >>

\* sleep(&ticks, &tickslock): p->lock is taken before tickslock is released.
sleep(p) ==
  << <<"acquire", p>>, <<"release", tickslock>>, <<"sched", "SLEEPING">>, <<"release", p>>,
     <<"acquire", tickslock>> >>

\* wakeup(&ticks), called by process or scheduler me.
wakeup(me) ==
  FlattenSeq([p \in Procs |-> IF p = me THEN <<>>
                              ELSE << <<"acquire", p>>, <<"wake", p>>, <<"release", p>> >>])

\* devintr() for a timer interrupt: clockintr(), on one CPU.
devintr(c) == IF c = Boot THEN << <<"acquire", tickslock>>, Do("tick"), <<"release", tickslock>> >>
              ELSE <<>>

\* usertrap() for a timer interrupt and for the system call sleep(n).
usertrap(c, p) == devintr(c) \o <<Do("check_killed")>> \o yield(p) \o << <<"usertrapret", "timer">> >>

syscall == <<Do("check_killed"), Do("intr_on"), <<"acquire", tickslock>>, Do("sys_sleep"),
             Do("check_killed"), <<"usertrapret", "ecall">> >>

\* One round of scheduler() over the process table.
round == FlattenSeq([p \in Procs |-> << <<"acquire", p>>, <<"run", p>>, <<"release", p>> >>])
-----------------------------------------------------------------------------
(* Spin locks.                                                             *)

\* The effects on struct cpu.  intena means nothing while noff is 0.
PushOff(x) == [x EXCEPT !.intr = FALSE, !.noff = @ + 1,
                        !.intena = IF x.noff = 0 THEN x.intr ELSE @]
PopOff(x) == [x EXCEPT !.noff = @ - 1, !.intr = x.noff = 1 /\ x.intena,
                       !.intena = x.noff > 1 /\ @]

holding(c, l) == lk[l].locked /\ lk[l].cpu = c

\* acquire(): push_off(), and a panic if this CPU has the lock already.
acquire(c) ==
  /\ At(c, "acquire")
  /\ cpu' = [cpu EXCEPT ![c] = PushOff(@)]
  /\ panicked' = (panicked \/ holding(c, On(c)))
  /\ Go(c, << <<"spin", On(c)>> >>)
  /\ UNCHANGED <<lk, state, saved, hart, sleeping, killed>>

\* ... the atomic swap that succeeds, and lk->cpu = mycpu().
spin(c) ==
  /\ At(c, "spin") /\ ~lk[On(c)].locked
  /\ lk' = [lk EXCEPT ![On(c)] = [locked |-> TRUE, cpu |-> c]]
  /\ Go(c, <<>>)
  /\ UNCHANGED <<cpu, state, saved, hart, sleeping, killed, panicked>>

\* release(): lk->cpu = 0 while the lock is still held,
release(c) ==
  /\ At(c, "release")
  /\ panicked' = (panicked \/ ~holding(c, On(c)))
  /\ lk' = [lk EXCEPT ![On(c)].cpu = None]
  /\ Go(c, << <<"unlock", On(c)>> >>)
  /\ UNCHANGED <<cpu, state, saved, hart, sleeping, killed>>

\* ... the swap that gives it up, and pop_off().
unlock(c) ==
  /\ At(c, "unlock")
  /\ lk' = [lk EXCEPT ![On(c)].locked = FALSE]
  /\ panicked' = (panicked \/ cpu[c].intr \/ cpu[c].noff < 1)
  /\ cpu' = [cpu EXCEPT ![c] = PopOff(@)]
  /\ Go(c, <<>>)
  /\ UNCHANGED <<state, saved, hart, sleeping, killed>>
-----------------------------------------------------------------------------
(* Switching between threads.                                              *)

\* p->state = s and sched(), up to and including swtch().
sched(c) ==
  LET p == Me(c) IN
  /\ At(c, "sched")
  /\ panicked' = (panicked \/ ~holding(c, p) \/ cpu[c].noff # 1 \/ cpu[c].intr)
  /\ state' = [state EXCEPT ![p] = On(c)]
  /\ saved' = [saved EXCEPT ![p] = cpu[c].intena]
  /\ cpu' = [cpu EXCEPT ![c].cur = c]
  /\ Go(c, <<Do("resume")>>)
  /\ UNCHANGED <<lk, hart, sleeping, killed>>

Resumed_KeepIntena(x, i) == x

\* mycpu()->intena = intena.
Resumed(x, i) == [x EXCEPT !.intena = i]

\* swtch() returns, possibly on another CPU.
resume(c) ==
  /\ At(c, "resume")
  /\ cpu' = [cpu EXCEPT ![c] = Resumed(@, saved[Me(c)])]
  /\ saved' = [saved EXCEPT ![Me(c)] = FALSE]
  /\ Go(c, <<>>)
  /\ UNCHANGED <<lk, state, hart, sleeping, killed, panicked>>

\* The scheduler starts over with interrupts on,
scheduler(c) ==
  /\ At(c, "scheduler")
  /\ cpu' = [cpu EXCEPT ![c].intr = TRUE]
  /\ Go(c, round \o <<Do("scheduler")>>)
  /\ UNCHANGED <<lk, state, saved, hart, sleeping, killed, panicked>>

\* ... and switches to a process that is RUNNABLE.
run(c) ==
  /\ At(c, "run")
  /\ IF state[On(c)] = "RUNNABLE"
     THEN /\ state' = [state EXCEPT ![On(c)] = "RUNNING"]
          /\ cpu' = [cpu EXCEPT ![c].cur = On(c)]
     ELSE UNCHANGED <<state, cpu>>
  /\ Go(c, <<>>)
  /\ UNCHANGED <<lk, saved, hart, sleeping, killed, panicked>>
-----------------------------------------------------------------------------
(* Traps.                                                                  *)

\* A timer interrupt in the kernel: kernelvec, kerneltrap().
kerneltrap(c) ==
  /\ cpu[c].intr /\ ~At(c, "user")
  /\ cpu' = [cpu EXCEPT ![c].intr = FALSE]
  /\ code' = [code EXCEPT ![Me(c)] = devintr(c) \o <<Do("yield"), Do("sret")>> \o @]
  /\ UNCHANGED <<lk, state, saved, hart, sleeping, killed, panicked>>

\* kerneltrap() yields if the timer interrupted a running process.
kerneltrap_yield(c) ==
  /\ At(c, "yield")
  /\ Go(c, IF Me(c) \in Procs /\ state[Me(c)] = "RUNNING" THEN yield(Me(c)) ELSE <<>>)
  /\ UNCHANGED <<cpu, lk, state, saved, hart, sleeping, killed, panicked>>

\* Back to what was interrupted.
sret(c) ==
  /\ At(c, "sret")
  /\ cpu' = [cpu EXCEPT ![c].intr = TRUE]
  /\ Go(c, <<>>)
  /\ UNCHANGED <<lk, state, saved, hart, sleeping, killed, panicked>>

\* uservec takes the CPU's number from the trapframe: it must be this one.
trap(c, s) ==
  /\ At(c, "user")
  /\ cpu' = [cpu EXCEPT ![c].intr = FALSE]
  /\ panicked' = (panicked \/ hart[Me(c)] # c)
  /\ hart' = [hart EXCEPT ![Me(c)] = None]
  /\ Go(c, s)
  /\ UNCHANGED <<lk, state, saved, ticks, ticks0, killed>>

timer(c) == Me(c) \in Procs /\ trap(c, usertrap(c, Me(c))) /\ UNCHANGED n

ecall(c) == trap(c, syscall) /\ \E k \in Durations : n' = [n EXCEPT ![Me(c)] = k]

check_killed(c) ==
  /\ At(c, "check_killed")
  /\ IF Me(c) \in killed THEN code' = [code EXCEPT ![Me(c)] = exit(Me(c))] ELSE Go(c, <<>>)
  /\ UNCHANGED <<cpu, lk, state, saved, hart, sleeping, killed, panicked>>

intr_on(c) ==
  /\ At(c, "intr_on")
  /\ cpu' = [cpu EXCEPT ![c].intr = TRUE]
  /\ Go(c, <<>>)
  /\ UNCHANGED <<lk, state, saved, hart, sleeping, killed, panicked>>

\* usertrapret() turns interrupts off and notes which CPU this is,
usertrapret(c) ==
  /\ At(c, "usertrapret")
  /\ cpu' = [cpu EXCEPT ![c].intr = FALSE]
  /\ hart' = [hart EXCEPT ![Me(c)] = c]
  /\ Go(c, <<Do("userret")>>)
  /\ UNCHANGED <<lk, state, saved, sleeping, killed, panicked>>

\* ... and userret goes to user mode, where interrupts are always taken.
userret(c) ==
  /\ At(c, "userret")
  /\ cpu' = [cpu EXCEPT ![c].intr = TRUE]
  /\ Go(c, <<Do("user")>>)
  /\ UNCHANGED <<lk, state, saved, hart, sleeping, killed, panicked>>
-----------------------------------------------------------------------------
(* Time, with tickslock held.                                              *)

\* clockintr(): ticks++ and wakeup(&ticks).
tick(c) ==
  /\ At(c, "tick")
  /\ ticks' = (ticks + 1) % WRAP
  /\ Go(c, wakeup(Me(c)))
  /\ UNCHANGED <<cpu, lk, state, saved, hart, ticks0, n, killed, panicked>>

wake(c) ==
  /\ At(c, "wake")
  /\ state' = [state EXCEPT ![On(c)] = IF @ = "SLEEPING" THEN "RUNNABLE" ELSE @]
  /\ Go(c, <<>>)
  /\ UNCHANGED <<cpu, lk, saved, hart, sleeping, killed, panicked>>

sys_sleep(c) ==
  /\ At(c, "sys_sleep")
  /\ ticks0' = [ticks0 EXCEPT ![Me(c)] = ticks]
  /\ Go(c, <<Do("while")>>)
  /\ UNCHANGED <<cpu, lk, state, saved, hart, ticks, n, killed, panicked>>

\* ticks - ticks0 < n, unsigned.
MustSleep(p) == (ticks - ticks0[p]) % WRAP < n[p]

\* The loop's test; when it is over, its locals do not matter any more.
while(c) ==
  LET p == Me(c) IN
  /\ At(c, "while")
  /\ IF MustSleep(p) /\ p \notin killed
     THEN Go(c, sleep(p) \o <<Do("while")>>) /\ UNCHANGED sleeping
     ELSE /\ Go(c, << <<"release", tickslock>> >>)
          /\ ticks0' = [ticks0 EXCEPT ![p] = 0] /\ n' = [n EXCEPT ![p] = 0] /\ UNCHANGED ticks
  /\ UNCHANGED <<cpu, lk, state, saved, hart, killed, panicked>>

\* kill(), by somebody else, under p->lock.
kill(p) ==
  /\ p \in Killable \ killed /\ ~lk[p].locked
  /\ killed' = killed \cup {p}
  /\ state' = [state EXCEPT ![p] = IF @ = "SLEEPING" THEN "RUNNABLE" ELSE @]
  /\ UNCHANGED <<cpu, lk, code, saved, hart, sleeping, panicked>>
-----------------------------------------------------------------------------
\* The processes are new: they start in forkret() with their lock held.
Init ==
  /\ cpu = [c \in CPUs |-> [intr |-> FALSE, noff |-> 0, intena |-> FALSE, cur |-> c]]
  /\ lk = [l \in Locks |-> [locked |-> FALSE, cpu |-> None]]
  /\ code = [t \in Threads |-> IF t \in Procs THEN << <<"release", t>>, <<"usertrapret", "forkret">> >>
                               ELSE <<Do("scheduler")>>]
  /\ state = [p \in Procs |-> "RUNNABLE"]
  /\ saved = [p \in Procs |-> FALSE]
  /\ hart = [p \in Procs |-> None]
  /\ ticks = 0 /\ ticks0 = [p \in Procs |-> 0] /\ n = [p \in Procs |-> 0]
  /\ killed = {} /\ panicked = FALSE

Step(c) ==
  \/ acquire(c) \/ spin(c) \/ release(c) \/ unlock(c)
  \/ sched(c) \/ resume(c) \/ scheduler(c) \/ run(c)
  \/ kerneltrap_yield(c) \/ sret(c)
  \/ check_killed(c) \/ intr_on(c) \/ usertrapret(c) \/ userret(c)
  \/ tick(c) \/ wake(c) \/ sys_sleep(c) \/ while(c)

Next == (\E c \in CPUs : Step(c) \/ kerneltrap(c) \/ timer(c) \/ ecall(c)) \/ \E p \in Procs : kill(p)

Spec == Init /\ [][Next]_vars
-----------------------------------------------------------------------------
(* Properties.                                                             *)

\* The type of every variable; locks are nested at most two deep.
TypeOK ==
  /\ cpu \in [CPUs -> [intr : BOOLEAN, noff : 0..2, intena : BOOLEAN, cur : Threads]]
  /\ lk \in [Locks -> [locked : BOOLEAN, cpu : CPUs \cup {None}]]
  /\ state \in [Procs -> {"RUNNABLE", "RUNNING", "SLEEPING", "ZOMBIE"}] /\ saved \in [Procs -> BOOLEAN]
  /\ hart \in [Procs -> CPUs \cup {None}] /\ ticks \in 0..WRAP - 1
  /\ ticks0 \in [Procs -> 0..WRAP - 1] /\ n \in [Procs -> 0..WRAP - 1] /\ killed \subseteq Procs

\* Thread t is inside the handler of an interrupt, or has entered the kernel
\* and not yet enabled interrupts, or is about to leave it.
InTrap(t) ==
  \E i \in DOMAIN code[t] : \/ code[t][i][1] \in {"sret", "intr_on", "userret"}
                           \/ code[t][i] = <<"usertrapret", "timer">>

\* Interrupts are on only where they are harmless, with no lock held and
\* outside of handlers; and in a system call they are on wherever they can
\* be: intena follows the thread through sched() and from CPU to CPU.  No
\* panic() of spinlock.c or sched() is reached, and no process enters the
\* kernel with the number of another CPU.
InterruptsMasked ==
  /\ TypeOK /\ ~panicked
  /\ \A c \in CPUs :
       LET quiet == cpu[c].noff = 0 /\ ~InTrap(Me(c)) IN
       /\ cpu[c].intr => quiet /\ \A l \in Locks : lk[l].cpu # c
       /\ Last(code[Me(c)]) = <<"usertrapret", "ecall">> /\ quiet => cpu[c].intr

\* While tickslock is free a process sleeps only if its time has not come:
\* a tick between the test and the sleep is not lost.
NoLostTick == ~lk[tickslock].locked => \A p \in Procs : state[p] = "SLEEPING" => MustSleep(p)
=============================================================================
