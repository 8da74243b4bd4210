----------------------------- MODULE ProcProofs -----------------------------
(***************************************************************************)
(* Proofs about Proc, for every number of process slots and CPUs and every *)
(* set of pids that kill() is called with: IInv is inductive, and implies  *)
(* the four invariants of Proc.                                            *)
(***************************************************************************)
EXTENDS Proc, TLAPS

-----------------------------------------------------------------------------
(* The inductive invariant.                                                *)

Absent == {"UNUSED", "USED"}
Alive(s) == state[s] \notin Absent \cup {"ZOMBIE"}

\* Where a thread holds wait_lock, and where it has no loop index.
Holding == {"reparent", "reparent_wake", "exit_wake", "exit_zombie", "wait_scan", "wait_sleep"}
NoIndex == {"user", "trap", "wait", "exit", "exit_zombie", "zombie"}
Forking == {"fork_parent", "fork_run"}

\* A process is on at most one CPU; one that no longer runs there holds its
\* lock until scheduler() has it back; and running or switching is on a CPU.
CpuInv ==
  /\ OneCpuPerStack
  /\ \A c \in CPUs : cpu[c] # NoProc =>
       state[cpu[c]] \notin Absent /\ (state[cpu[c]] # "RUNNING" => plock[cpu[c]])
  /\ \A s \in Slots : plock[s] \/ state[s] = "RUNNING" => OnCpu(s)

\* What p->state says about where the thread is.
PcInv ==
  \A s \in Slots :
    /\ state[s] \in Absent => pc[s] \in {"user", "zombie"}
    /\ pc[s] = "zombie" => state[s] \in {"UNUSED", "ZOMBIE"}
    /\ state[s] = "ZOMBIE" => pc[s] = "zombie"
    /\ state[s] = "SLEEPING" => pc[s] = "wait" /\ chan[s] = s
    /\ pc[s] \in NoIndex => i[s] = 1
    /\ pc[s] = "reparent_wake" => i[s] \in Slots

\* wait_lock is held by the thread that is in a section of it, and that one runs.
WaitLockInv ==
  \A s \in Slots :
    /\ waitlock = s <=> pc[s] \in Holding
    /\ pc[s] \in Holding => state[s] = "RUNNING" /\ ~plock[s]

\* fork() has a new process to itself.
ForkInv ==
  /\ \A s \in Slots : pc[s] \in Forking => state[i[s]] = "USED"
  /\ \A s \in Slots : pc[s] = "fork_run" => parent[i[s]] = s
  /\ \A s, t \in Slots : pc[s] \in Forking /\ pc[t] \in Forking /\ i[s] = i[t] => s = t

\* exit() of s has handed on proc[k], if that was its child.
HandedOn(s, k) ==
  \/ pc[s] \in {"reparent", "reparent_wake"} /\ k < i[s]
  \/ pc[s] = "reparent_wake" /\ k = i[s]
  \/ pc[s] \in {"exit_wake", "exit_zombie"}

\* Parents are alive; a process that exits has handed on the children that
\* reparent() has passed.
FamilyInv ==
  /\ Alive(initproc) /\ pc[initproc] \notin Holding \ {"wait_scan", "wait_sleep"}
  /\ \A k \in Slots : parent[k] # NoProc => Alive(parent[k])
  /\ \A k \in Slots \ {initproc} : state[k] \notin Absent => parent[k] # NoProc
  /\ \A s, k \in Slots : HandedOn(s, k) => parent[k] # s

\* A child that is a zombie while its parent sleeps.
Missed(k) == state[k] = "ZOMBIE" /\ parent[k] # NoProc /\ state[parent[k]] = "SLEEPING"

\* wait() of s has looked at proc[k].
Scanned(s, k) == (pc[s] = "wait_scan" /\ k < i[s]) \/ pc[s] = "wait_sleep"

\* exit() of s has woken its parent.
Woke(s) == (pc[s] = "exit_wake" /\ parent[s] < j[s]) \/ pc[s] = "exit_zombie"

\* wait() has passed no zombie child; exit() has woken the parent it has
\* passed; and only reparent() leaves a zombie with a sleeping parent, until
\* its wakeup() gets to init.
ZombieInv ==
  /\ \A s, k \in Slots : Scanned(s, k) => ~(parent[k] = s /\ state[k] = "ZOMBIE")
  /\ \A s \in Slots : Woke(s) /\ parent[s] # NoProc => state[parent[s]] # "SLEEPING"
  /\ \A k \in Slots : Missed(k) =>
       /\ waitlock # NoProc /\ pc[waitlock] = "reparent_wake" /\ j[waitlock] <= initproc
       /\ parent[k] = initproc

IInv == TypeOK /\ CpuInv /\ PcInv /\ WaitLockInv /\ ForkInv /\ FamilyInv /\ ZombieInv
-----------------------------------------------------------------------------
(* IInv is inductive: one lemma per action.                                *)

\* The slots are positive, so NoProc is none of them and init has the first.
LEMMA SlotFacts ==
  /\ initproc \in Slots /\ NoProc \notin Slots /\ initproc # NoProc
  /\ \A s \in Slots : s \in Nat /\ 1 <= s /\ s <= NPROC
  BY ProcAssumption DEF Slots, NoProc, initproc

\* userinit() establishes the invariant.
LEMMA InitInv == Init => IInv
  <1> SUFFICES ASSUME Init PROVE IInv
    BY Zenon
  <1>1. TypeOK
    BY SlotFacts, ProcAssumption DEF Init, TypeOK, Slots, States, PCs, InForkOrKill, InWait, InExit, NoProc, initproc
  <1>2. CpuInv
    BY SlotFacts, Zenon DEF Init, CpuInv, OneCpuPerStack, Absent
  <1>3. PcInv /\ WaitLockInv
    BY SlotFacts, Zenon DEF Init, PcInv, WaitLockInv, Absent, Holding, NoIndex
  <1>4. ForkInv /\ FamilyInv
    BY SlotFacts, Zenon DEF Init, ForkInv, FamilyInv, HandedOn, Forking, Holding, Alive, Absent
  <1>5. ZombieInv
    BY SlotFacts, Zenon DEF Init, ZombieInv, Scanned, Woke, Missed
  <1>6. QED
    BY <1>1, <1>2, <1>3, <1>4, <1>5, Zenon DEF IInv

\* What the proofs below use of TypeOK.
LEMMA Ranges ==
  ASSUME IInv
  PROVE  /\ \A k \in Slots : parent[k] = NoProc \/ parent[k] \in Slots
         /\ waitlock = NoProc \/ waitlock \in Slots
         /\ \A k \in Slots : pc[k] \in InForkOrKill => i[k] \in Slots
  BY Zenon DEF IInv, TypeOK

\* A thread that runs outside of all sections goes on outside of them.
LEMMA MoveInv ==
  ASSUME IInv, NEW s \in Slots, NEW l \in {"user", "exit", "fork_scan", "wait", "kill_scan"},
         state[s] = "RUNNING", pc[s] \in {"user", "trap"}, pc' = [pc EXCEPT ![s] = l],
         arg' \in [Slots -> Nat],
         UNCHANGED <<table, plock, waitlock, cpu, i, j, havekids>>
  PROVE  IInv'
  <1>0. UNCHANGED <<state, parent, pid, killed, chan, nextpid, plock, waitlock, cpu, i, j, havekids>>
    BY Zenon DEF table
  <1>1. /\ pc' \in [Slots -> PCs] /\ pc'[s] = l /\ i[s] = 1
        /\ \A t \in Slots : t # s => pc'[t] = pc[t]
    BY Zenon DEF IInv, TypeOK, PcInv, NoIndex, PCs, InForkOrKill, InWait, InExit
  <1>2. TypeOK'
    BY <1>0, <1>1, SlotFacts DEF IInv, TypeOK, initproc
  <1>3. CpuInv'
    BY <1>0 DEF IInv, CpuInv, OneCpuPerStack, OnCpu
  <1>4. PcInv' /\ WaitLockInv'
    BY <1>0, <1>1 DEF IInv, PcInv, WaitLockInv, Absent, Holding, NoIndex
  <1>5. ForkInv' /\ FamilyInv'
    BY <1>0, <1>1 DEF IInv, ForkInv, FamilyInv, HandedOn, Forking, Holding, Alive
  <1>6. ZombieInv'
    BY <1>0, <1>1, SlotFacts DEF IInv, WaitLockInv, Holding, TypeOK, ZombieInv, Scanned, Woke, Missed
  <1>7. QED
    BY <1>2, <1>3, <1>4, <1>5, <1>6, Zenon DEF IInv

\* usertrap() goes on to exit() or into a system call.
LEMMA UsertrapInv ==
  ASSUME IInv, NEW s \in Slots, usertrap(s)
  PROVE  IInv'
  <1>1. PICK l \in {"exit", "fork_scan", "wait", "kill_scan"} : pc' = [pc EXCEPT ![s] = l]
    BY Zenon DEF usertrap, Goto
  <1>2. arg' \in [Slots -> Nat]
    BY ProcAssumption, Zenon DEF usertrap, IInv, TypeOK
  <1>3. QED
    BY <1>1, <1>2, MoveInv, Zenon DEF usertrap, Runs

\* After a system call the process goes back to user space, or to exit().
LEMMA SyscallReturnInv ==
  ASSUME IInv, NEW s \in Slots, syscall_return(s)
  PROVE  IInv'
  <1>1. PICK l \in {"user", "exit"} : pc' = [pc EXCEPT ![s] = l]
    BY Zenon DEF syscall_return, Goto
  <1>2. arg' \in [Slots -> Nat]
    BY Zenon DEF syscall_return, locals, IInv, TypeOK
  <1>3. QED
    BY <1>1, <1>2, MoveInv, Zenon DEF syscall_return, Runs, locals

\* A scan of fork() or kill() is over; it may have woken proc[k], or freed
\* what it had found.
LEMMA ScanEndsInv ==
  ASSUME IInv, NEW s \in Slots, NEW k \in Slots, state[s] = "RUNNING", ~plock[s],
         pc[s] \in {"fork_scan", "kill_scan"}, Return(s),
         \/ UNCHANGED <<state, parent, chan>>
         \/ /\ state[k] = "SLEEPING" /\ ~plock[k] /\ state' = [state EXCEPT ![k] = "RUNNABLE"]
            /\ UNCHANGED <<parent, chan>>
         \/ /\ state[k] = "UNUSED" /\ UNCHANGED state
            /\ parent' = [parent EXCEPT ![k] = NoProc] /\ chan' = [chan EXCEPT ![k] = NoProc],
         pid' \in [Slots -> Nat], killed' \in [Slots -> BOOLEAN], nextpid' \in Nat,
         UNCHANGED <<plock, waitlock, cpu, j>>
  PROVE  IInv'
  <1>0. /\ pc' \in [Slots -> PCs] /\ pc'[s] = "trap" /\ i'[s] = 1
        /\ \A t \in Slots : t # s => pc'[t] = pc[t] /\ i'[t] = i[t]
    BY ZenonT(60) DEF Return, Goto, IInv, TypeOK, PCs, InForkOrKill, InWait, InExit
  <1>1. /\ \A t \in Slots : \/ state'[t] = state[t]
                            \/ state[t] = "SLEEPING" /\ ~plock[t] /\ state'[t] = "RUNNABLE"
        /\ \A t \in Slots : \/ parent'[t] = parent[t] /\ chan'[t] = chan[t]
                            \/ state[t] = "UNUSED" /\ parent'[t] = NoProc
    BY Zenon DEF IInv, TypeOK
  <1>2. TypeOK'
    <2>1. state' \in [Slots -> States]
      BY DEF IInv, TypeOK, States
    <2>2. parent' \in [Slots -> Slots \cup {NoProc}] /\ chan' \in [Slots -> Slots \cup {NoProc}]
      BY Zenon DEF IInv, TypeOK
    <2>3. /\ i' \in [Slots -> 1..NPROC + 1] /\ arg' \in [Slots -> Nat]
          /\ havekids' \in [Slots -> BOOLEAN]
      BY SlotFacts, ProcAssumption DEF IInv, TypeOK, Return
    <2>4. QED
      BY <1>0, <2>1, <2>2, <2>3, Zenon DEF IInv, TypeOK, InForkOrKill
  <1>3. CpuInv'
    BY <1>1, SlotFacts DEF IInv, TypeOK, CpuInv, OneCpuPerStack, OnCpu, Absent
  <1>4. PcInv' /\ WaitLockInv'
    BY <1>0, <1>1 DEF IInv, PcInv, WaitLockInv, Absent, Holding, NoIndex
  <1>5. ForkInv'
    <2>1. \A t \in Slots : pc[t] \in Forking => i[t] \in Slots /\ state[i[t]] = "USED"
      BY Ranges DEF IInv, ForkInv, Forking, InForkOrKill
    <2>2. \A t \in Slots : pc'[t] \in Forking => t # s /\ pc[t] \in Forking /\ i'[t] = i[t]
      BY <1>0 DEF Forking
    <2>3. \A t \in Slots : pc[t] \in Forking => state'[i[t]] = "USED" /\ parent'[i[t]] = parent[i[t]]
      BY <1>1, <2>1
    <2>4. \A t \in Slots : pc'[t] = "fork_run" => pc[t] = "fork_run"
      BY <1>0
    <2>5. QED
      BY <2>2, <2>3, <2>4 DEF IInv, ForkInv, Forking
  <1>6. FamilyInv'
    <2>1. \A t \in Slots : Alive(t) => Alive(t)'
      BY <1>1, Zenon DEF Alive, Absent
    <2>2. \A t, m \in Slots : HandedOn(t, m)' => HandedOn(t, m)
      BY <1>0, Zenon DEF HandedOn
    <2>3. \A m \in Slots : state'[m] \notin Absent => state[m] \notin Absent /\ parent'[m] = parent[m]
      BY <1>1, Zenon DEF Absent
    <2>4. /\ \A m \in Slots : parent'[m] = parent[m] \/ parent'[m] = NoProc
          /\ \A m \in Slots : parent[m] = NoProc \/ parent[m] \in Slots
      BY <1>1, Ranges, Zenon
    <2>5. pc'[initproc] \in Holding => pc'[initproc] = pc[initproc]
      BY <1>0, SlotFacts, Zenon DEF Holding
    <2>6. FamilyInv
      BY Zenon DEF IInv
    <2>7. /\ Alive(initproc)' /\ pc'[initproc] \notin Holding \ {"wait_scan", "wait_sleep"}
          /\ \A m \in Slots : parent'[m] # NoProc => Alive(parent[m])' /\ parent'[m] = parent[m]
      BY <2>1, <2>4, <2>5, <2>6, SlotFacts, Zenon DEF FamilyInv
    <2>8. QED
      BY <2>2, <2>3, <2>4, <2>6, <2>7, SlotFacts DEF FamilyInv, Alive
  <1>7. ZombieInv'
    <2>1. \A t, m \in Slots : Scanned(t, m)' => Scanned(t, m)
      BY <1>0, Zenon DEF Scanned
    <2>2. /\ \A m \in Slots : state'[m] = "ZOMBIE" => state[m] = "ZOMBIE" /\ parent'[m] = parent[m]
          /\ \A t \in Slots : state'[t] = "SLEEPING" => state[t] = "SLEEPING"
          /\ \A m \in Slots : parent[m] = NoProc \/ parent[m] \in Slots
      BY <1>1, Ranges, Zenon
    <2>3. \A t \in Slots : Woke(t)' => Woke(t) /\ parent'[t] = parent[t]
      <3>1. \A t \in Slots : pc'[t] \in {"exit_wake", "exit_zombie"} => pc[t] = pc'[t] /\ parent'[t] = parent[t]
        BY <1>0, <1>1, ZenonT(60) DEF IInv, WaitLockInv, Holding
      <3>2. QED
        BY <3>1, Zenon DEF Woke
    <2>4. \A m \in Slots : Missed(m)' => Missed(m) /\ parent'[m] = parent[m]
      BY <2>2, ZenonT(60) DEF Missed
    <2>5. waitlock # NoProc => waitlock \in Slots /\ pc'[waitlock] = pc[waitlock]
      BY <1>0, Ranges, Zenon DEF IInv, WaitLockInv, Holding
    <2>6. ZombieInv
      BY Zenon DEF IInv
    <2>7. \A t, m \in Slots : Scanned(t, m)' => ~(parent'[m] = t /\ state'[m] = "ZOMBIE")
      BY <2>1, <2>2, <2>6 DEF ZombieInv
    <2>8. \A t \in Slots : Woke(t)' /\ parent'[t] # NoProc => state'[parent'[t]] # "SLEEPING"
      BY <2>2, <2>3, <2>6 DEF ZombieInv
    <2>9. \A m \in Slots : Missed(m)' =>
            /\ waitlock # NoProc /\ pc'[waitlock] = "reparent_wake" /\ j[waitlock] <= initproc
            /\ parent'[m] = initproc
      BY <2>4, <2>5, <2>6, Zenon DEF ZombieInv
    <2>10. QED
      BY <2>7, <2>8, <2>9, Zenon DEF ZombieInv
  <1>8. QED
    BY <1>2, <1>3, <1>4, <1>5, <1>6, <1>7, Zenon DEF IInv

\* A scan of fork() or kill() goes on with the next slot.
LEMMA ScanNextInv ==
  ASSUME IInv, NEW s \in Slots, pc[s] \in {"fork_scan", "kill_scan"}, ~LastSlot(i[s]),
         i' = [i EXCEPT ![s] = i[s] + 1],
         UNCHANGED <<state, parent, pid, killed, chan, nextpid, plock, waitlock, cpu, pc, j, havekids, arg>>
  PROVE  IInv'
  <1>1. /\ i'[s] \in Slots /\ i' \in [Slots -> 1..NPROC + 1]
        /\ \A t \in Slots : t # s => i'[t] = i[t]
    <2>1. i[s] \in Slots /\ i[s] # NPROC /\ i \in [Slots -> 1..NPROC + 1]
      BY Zenon DEF IInv, TypeOK, InForkOrKill, LastSlot
    <2>2. i[s] + 1 \in Slots /\ i[s] + 1 \in 1..NPROC + 1
      BY <2>1, ProcAssumption DEF Slots
    <2>3. QED
      BY <2>1, <2>2, Zenon
  <1>2. TypeOK'
    BY <1>1, Zenon DEF IInv, TypeOK
  <1>3. CpuInv'
    BY Zenon DEF IInv, CpuInv, OneCpuPerStack, OnCpu
  <1>4. PcInv' /\ WaitLockInv'
    BY <1>1 DEF IInv, PcInv, WaitLockInv, NoIndex
  <1>5. ForkInv' /\ FamilyInv'
    BY <1>1 DEF IInv, ForkInv, FamilyInv, HandedOn, Forking, Alive
  <1>6. ZombieInv'
    BY <1>1 DEF IInv, ZombieInv, Scanned, Woke, Missed
  <1>7. QED
    BY <1>2, <1>3, <1>4, <1>5, <1>6, Zenon DEF IInv

\* allocproc() found a free slot and could fill it in.
LEMMA FoundInv ==
  ASSUME IInv, NEW s \in Slots, NEW np \in Slots, np = i[s], state[s] = "RUNNING",
         pc[s] = "fork_scan", state[np] = "UNUSED",
         state' \in [Slots -> States], pid' \in [Slots -> Nat], nextpid' \in Nat,
         pc' \in [Slots -> PCs], state'[np] = "USED", pc'[np] = "user", pc'[s] = "fork_parent",
         \A t \in Slots : t # np => state'[t] = state[t] /\ (t # s => pc'[t] = pc[t]),
         UNCHANGED <<parent, killed, chan, plock, waitlock, cpu, i, j, havekids, arg>>
  PROVE  IInv'
  <1>0. np # s /\ i[np] = 1 /\ pc[np] \in {"user", "zombie"}
    BY Zenon DEF IInv, TypeOK, PcInv, Absent, NoIndex
  <1>1. TypeOK'
    BY <1>0, Zenon DEF IInv, TypeOK, InForkOrKill
  <1>2. CpuInv'
    BY <1>0, SlotFacts DEF IInv, TypeOK, CpuInv, OneCpuPerStack, OnCpu, Absent
  <1>3. PcInv'
    BY <1>0 DEF IInv, PcInv, Absent, NoIndex
  <1>4. WaitLockInv'
    BY <1>0, ZenonT(60) DEF IInv, WaitLockInv, Holding
  <1>5. ForkInv'
    <2>1. \A t \in Slots : pc[t] \in Forking => i[t] \in Slots /\ i[t] # np
      BY Ranges, Zenon DEF IInv, ForkInv, Forking, InForkOrKill
    <2>2. QED
      BY <1>0, <2>1 DEF IInv, ForkInv, Forking
  <1>6. FamilyInv'
    <2>1. \A t \in Slots : Alive(t) => Alive(t)'
      BY Zenon DEF Alive, Absent
    <2>2. \A t, m \in Slots : HandedOn(t, m)' => HandedOn(t, m)
      BY <1>0, Zenon DEF HandedOn
    <2>3. \A m \in Slots : state'[m] \notin Absent => state[m] \notin Absent
      BY Zenon DEF Absent
    <2>4. \A m \in Slots : parent[m] = NoProc \/ parent[m] \in Slots
      BY Ranges, Zenon
    <2>5. pc'[initproc] \in Holding => pc'[initproc] = pc[initproc]
      BY <1>0, SlotFacts, Zenon DEF Holding
    <2>6. FamilyInv
      BY Zenon DEF IInv
    <2>7. /\ Alive(initproc)' /\ pc'[initproc] \notin Holding \ {"wait_scan", "wait_sleep"}
          /\ \A m \in Slots : parent[m] # NoProc => Alive(parent[m])'
      BY <2>1, <2>4, <2>5, <2>6, SlotFacts, Zenon DEF FamilyInv, Alive
    <2>8. QED
      BY <2>2, <2>3, <2>6, <2>7, SlotFacts, ZenonT(60) DEF FamilyInv, Alive
  <1>7. ZombieInv'
    <2>1. waitlock # s /\ waitlock # np /\ (waitlock # NoProc => waitlock \in Slots)
      BY <1>0, Ranges, Zenon DEF IInv, WaitLockInv, Holding
    <2>2. \A k \in Slots : Missed(k)' => Missed(k)
      BY <1>0, Ranges, ZenonT(60) DEF Missed
    <2>3. QED
      BY <1>0, <2>1, <2>2, Ranges DEF IInv, ZombieInv, Scanned, Woke
  <1>8. QED
    BY <1>1, <1>2, <1>3, <1>4, <1>5, <1>6, <1>7, Zenon DEF IInv

\* One turn of allocproc()'s scan, in fork().
LEMMA AllocprocInv ==
  ASSUME IInv, NEW s \in Slots, allocproc(s)
  PROVE  IInv'
  <1>0. /\ state[s] = "RUNNING" /\ ~plock[s] /\ pc[s] = "fork_scan" /\ i[s] \in Slots
        /\ UNCHANGED <<plock, waitlock, cpu, j>>
    BY Zenon DEF allocproc, Runs, IInv, TypeOK, InForkOrKill
  <1>1. CASE state[i[s]] = "UNUSED"
    <2>1. CASE Free(i[s]) /\ Return(s)
      <3>1. /\ UNCHANGED state /\ parent' = [parent EXCEPT ![i[s]] = NoProc]
            /\ chan' = [chan EXCEPT ![i[s]] = NoProc]
            /\ pid' \in [Slots -> Nat] /\ killed' \in [Slots -> BOOLEAN]
        BY <1>1, <2>1, Zenon DEF Free, IInv, TypeOK
      <3>2. nextpid' \in Nat
        BY <1>1 DEF allocproc, IInv, TypeOK
      <3>3. QED
        BY <1>0, <1>1, <2>1, <3>1, <3>2, ScanEndsInv, Zenon
    <2>2. CASE ~(Free(i[s]) /\ Return(s))
      <3>1. /\ state' = [state EXCEPT ![i[s]] = "USED"] /\ pid' = [pid EXCEPT ![i[s]] = nextpid]
            /\ pc' = [pc EXCEPT ![i[s]] = "user", ![s] = "fork_parent"]
            /\ UNCHANGED <<parent, killed, chan, i, havekids, arg>>
        BY <1>1, <2>2, Zenon DEF allocproc
      <3>2. nextpid \in Nat /\ nextpid' \in Nat /\ i[s] # s
        BY <1>0, <1>1 DEF allocproc, IInv, TypeOK
      <3>3. /\ state' \in [Slots -> States] /\ state'[i[s]] = "USED" /\ pid' \in [Slots -> Nat]
            /\ \A t \in Slots : t # i[s] => state'[t] = state[t]
        BY <1>0, <3>1, <3>2, Zenon DEF IInv, TypeOK, States
      <3>4. /\ pc' \in [Slots -> PCs] /\ pc'[i[s]] = "user" /\ pc'[s] = "fork_parent"
            /\ \A t \in Slots : t # i[s] /\ t # s => pc'[t] = pc[t]
        BY <1>0, <3>1, <3>2, Zenon DEF IInv, TypeOK, PCs, InForkOrKill
      <3>5. QED
        BY <1>0, <1>1, <3>1, <3>2, <3>3, <3>4, FoundInv
    <2>3. QED
      BY <2>1, <2>2, Zenon
  <1>2. CASE state[i[s]] # "UNUSED"
    <2>1. UNCHANGED <<state, parent, pid, killed, chan, nextpid>>
      BY <1>2, Zenon DEF allocproc, table
    <2>2. CASE LastSlot(i[s])
      BY <1>0, <1>2, <2>1, <2>2, ScanEndsInv, Zenon DEF allocproc, IInv, TypeOK
    <2>3. CASE ~LastSlot(i[s])
      BY <1>0, <1>2, <2>1, <2>3, ScanNextInv, Zenon DEF allocproc
    <2>4. QED
      BY <2>2, <2>3, Zenon
  <1>3. QED
    BY <1>1, <1>2, Zenon

\* fork() makes itself the parent of the new process.
LEMMA ForkParentInv ==
  ASSUME IInv, NEW s \in Slots, fork_parent(s)
  PROVE  IInv'
  <1>0. /\ state[s] = "RUNNING" /\ pc[s] = "fork_parent" /\ waitlock = NoProc /\ i[s] \in Slots
        /\ UNCHANGED <<state, pid, killed, chan, nextpid, plock, waitlock, cpu, i, j, havekids, arg>>
    BY Ranges, Zenon DEF fork_parent, Runs, locals, InForkOrKill
  <1>1. /\ pc' \in [Slots -> PCs] /\ pc'[s] = "fork_run"
        /\ \A t \in Slots : t # s => pc'[t] = pc[t]
    BY Zenon DEF fork_parent, Goto, IInv, TypeOK, PCs, InForkOrKill
  <1>2. /\ parent' \in [Slots -> Slots \cup {NoProc}] /\ parent'[i[s]] = s
        /\ \A k \in Slots : k # i[s] => parent'[k] = parent[k]
    BY <1>0, Zenon DEF fork_parent, IInv, TypeOK
  <1>3. TypeOK'
    BY <1>0, <1>1, <1>2, Zenon DEF IInv, TypeOK, InForkOrKill
  <1>4. CpuInv'
    BY <1>0, Zenon DEF IInv, CpuInv, OneCpuPerStack, OnCpu
  <1>5. PcInv' /\ WaitLockInv'
    BY <1>0, <1>1 DEF IInv, PcInv, WaitLockInv, Absent, Holding, NoIndex
  <1>6. ForkInv'
    <2>1. \A t \in Slots : t # s /\ pc[t] \in Forking => i[t] # i[s]
      BY <1>0, Zenon DEF IInv, ForkInv, Forking
    <2>2. \A t \in Slots : pc[t] \in Forking => i[t] \in Slots
      BY Ranges, Zenon DEF Forking, InForkOrKill
    <2>3. QED
      BY <1>0, <1>1, <1>2, <2>1, <2>2 DEF IInv, ForkInv, Forking
  <1>7. \A t \in Slots : pc'[t] \notin Holding
    BY <1>0, <1>1, SlotFacts, Zenon DEF IInv, WaitLockInv, Holding
  <1>8. FamilyInv'
    <2>1. \A t, k \in Slots : ~HandedOn(t, k)'
      BY <1>7, Zenon DEF HandedOn, Holding
    <2>2. pc'[initproc] \notin Holding /\ initproc \in Slots
      BY <1>7, SlotFacts, Zenon
    <2>3. QED
      BY <1>0, <1>2, <2>1, <2>2, SlotFacts DEF IInv, FamilyInv, Alive, Absent
  <1>9. ZombieInv'
    <2>1. \A t, k \in Slots : ~Scanned(t, k)' /\ ~Woke(t)'
      BY <1>7, Zenon DEF Scanned, Woke, Holding
    <2>2. state[i[s]] = "USED"
      BY <1>0, Zenon DEF IInv, ForkInv, Forking
    <2>3. \A k \in Slots : Missed(k)' => Missed(k)
      BY <1>0, <1>2, <2>2, Zenon DEF Missed
    <2>4. QED
      BY <1>0, <2>1, <2>3, Zenon DEF IInv, ZombieInv
  <1>10. QED
    BY <1>3, <1>4, <1>5, <1>6, <1>8, <1>9, Zenon DEF IInv

\* fork() makes the new process RUNNABLE.
LEMMA ForkRunInv ==
  ASSUME IInv, NEW s \in Slots, fork_run(s)
  PROVE  IInv'
  <1>0. /\ state[s] = "RUNNING" /\ pc[s] = "fork_run" /\ i[s] \in Slots
        /\ UNCHANGED <<parent, pid, killed, chan, nextpid, plock, waitlock, cpu, j>>
    BY Ranges, Zenon DEF fork_run, Runs, InForkOrKill
  <1>1. PICK np \in Slots : np = i[s] /\ state[np] = "USED" /\ parent[np] = s
    BY <1>0, Zenon DEF IInv, ForkInv, Forking
  <1>2. /\ pc' \in [Slots -> PCs] /\ pc'[s] = "trap" /\ i'[s] = 1
        /\ \A t \in Slots : t # s => pc'[t] = pc[t] /\ i'[t] = i[t]
    BY Zenon DEF fork_run, Return, Goto, IInv, TypeOK, PCs
  <1>3. /\ state' \in [Slots -> States] /\ state'[np] = "RUNNABLE"
        /\ \A t \in Slots : t # np => state'[t] = state[t]
    BY <1>1, Zenon DEF fork_run, IInv, TypeOK, States
  <1>4. np # s /\ pc[np] = "user" /\ i[np] = 1
    BY <1>0, <1>1, Zenon DEF IInv, PcInv, Absent, NoIndex
  <1>5. TypeOK'
    <2>1. /\ i' \in [Slots -> 1..NPROC + 1] /\ arg' \in [Slots -> Nat]
          /\ havekids' \in [Slots -> BOOLEAN]
      BY SlotFacts, ProcAssumption DEF fork_run, IInv, TypeOK, Return
    <2>2. QED
      BY <1>0, <1>2, <1>3, <2>1, Zenon DEF IInv, TypeOK, InForkOrKill
  <1>6. CpuInv'
    BY <1>0, <1>1, <1>3, SlotFacts DEF IInv, TypeOK, CpuInv, OneCpuPerStack, OnCpu, Absent
  <1>7. PcInv'
    BY <1>2, <1>3, <1>4, <1>0 DEF IInv, PcInv, Absent, NoIndex
  <1>8. WaitLockInv'
    BY <1>0, <1>2, <1>3, <1>4, ZenonT(60) DEF IInv, WaitLockInv, Holding
  <1>9. ForkInv'
    <2>1. \A t \in Slots : pc'[t] \in Forking => t # s /\ pc[t] \in Forking
      BY <1>2, Zenon DEF Forking
    <2>2. \A t \in Slots : t # s /\ pc[t] \in Forking => i[t] \in Slots /\ i[t] # np
      BY <1>0, <1>1, Ranges, Zenon DEF IInv, ForkInv, Forking, InForkOrKill
    <2>3. QED
      BY <1>0, <1>2, <1>3, <2>1, <2>2 DEF IInv, ForkInv, Forking
  <1>10. FamilyInv'
    <2>1. \A t, k \in Slots : HandedOn(t, k)' => HandedOn(t, k)
      BY <1>2, Zenon DEF HandedOn
    <2>2. pc'[initproc] \notin Holding \ {"wait_scan", "wait_sleep"}
      BY <1>2, SlotFacts, Zenon DEF IInv, FamilyInv, Holding
    <2>3. \A t \in Slots : Alive(t) => Alive(t)'
      BY <1>3, Zenon DEF Alive, Absent
    <2>4. \A t \in Slots : t # np => state'[t] = state[t]
      BY <1>3, Zenon
    <2>5. QED
      BY <1>0, <1>1, <2>1, <2>2, <2>3, <2>4, SlotFacts, Ranges DEF IInv, FamilyInv
  <1>11. ZombieInv'
    <2>1. \A t, k \in Slots : (Scanned(t, k)' => Scanned(t, k)) /\ (Woke(t)' => Woke(t))
      BY <1>0, <1>2, Zenon DEF Scanned, Woke
    <2>2. \A t \in Slots : /\ state'[t] = "ZOMBIE" => state[t] = "ZOMBIE"
                           /\ state'[t] = "SLEEPING" => state[t] = "SLEEPING"
      BY <1>3, Zenon
    <2>3. \A k \in Slots : Missed(k)' => Missed(k)
      BY <1>0, <2>2, Ranges, Zenon DEF Missed
    <2>4. waitlock # s /\ (waitlock # NoProc => pc'[waitlock] = pc[waitlock])
      BY <1>0, <1>2, Ranges, Zenon DEF IInv, WaitLockInv, Holding
    <2>5. QED
      BY <1>0, <2>1, <2>2, <2>3, <2>4, Ranges, Zenon DEF IInv, ZombieInv
  <1>12. QED
    BY <1>5, <1>6, <1>7, <1>8, <1>9, <1>10, <1>11, Zenon DEF IInv

\* exit() and wait() take wait_lock.
LEMMA AcquireInv ==
  ASSUME IInv, NEW s \in Slots, state[s] = "RUNNING", ~plock[s], waitlock = NoProc, waitlock' = s,
         \/ pc[s] = "exit" /\ s # initproc /\ pc' = [pc EXCEPT ![s] = "reparent"]
         \/ pc[s] = "wait" /\ pc' = [pc EXCEPT ![s] = "wait_scan"],
         UNCHANGED <<state, parent, pid, killed, chan, nextpid, plock, cpu, i, j, havekids, arg>>
  PROVE  IInv'
  <1>1. /\ pc' \in [Slots -> PCs] /\ pc'[s] \in {"reparent", "wait_scan"} /\ i[s] = 1
        /\ pc'[s] = "reparent" => s # initproc
        /\ \A t \in Slots : t # s => pc'[t] = pc[t]
    BY DEF IInv, TypeOK, PcInv, NoIndex, PCs, InExit, InWait
  <1>2. \A t \in Slots : pc[t] \notin Holding
    BY SlotFacts, Zenon DEF IInv, WaitLockInv
  <1>3. TypeOK'
    BY <1>1, Zenon DEF IInv, TypeOK, InForkOrKill
  <1>4. CpuInv'
    BY Zenon DEF IInv, CpuInv, OneCpuPerStack, OnCpu
  <1>5. PcInv'
    BY <1>1 DEF IInv, PcInv, Absent, NoIndex
  <1>6. WaitLockInv'
    BY <1>1, <1>2, Zenon DEF WaitLockInv, Holding
  <1>7. ForkInv'
    BY <1>1, ZenonT(60) DEF IInv, ForkInv, Forking
  <1>8. FamilyInv'
    <2>1. \A t, k \in Slots : ~HandedOn(t, k)'
      BY <1>1, <1>2, SlotFacts DEF HandedOn, Holding
    <2>2. pc'[initproc] \notin Holding \ {"wait_scan", "wait_sleep"}
      BY <1>1, <1>2, SlotFacts, Zenon DEF Holding
    <2>3. QED
      BY <2>1, <2>2, Zenon DEF IInv, FamilyInv, Alive
  <1>9. ZombieInv'
    <2>1. \A t, k \in Slots : ~Scanned(t, k)' /\ ~Woke(t)'
      BY <1>1, <1>2, SlotFacts DEF Scanned, Woke, Holding
    <2>2. \A k \in Slots : ~Missed(k)'
      BY Zenon DEF IInv, ZombieInv, Missed
    <2>3. QED
      BY <2>1, <2>2, Zenon DEF ZombieInv
  <1>10. QED
    BY <1>3, <1>4, <1>5, <1>6, <1>7, <1>8, <1>9, ZenonT(60) DEF IInv

\* exit() takes wait_lock.
LEMMA ExitInv ==
  ASSUME IInv, NEW s \in Slots, exit(s)
  PROVE  IInv'
  BY AcquireInv, Zenon DEF exit, Runs, Goto, table, locals

\* wait() takes wait_lock.
LEMMA WaitInv ==
  ASSUME IInv, NEW s \in Slots, wait(s)
  PROVE  IInv'
  BY AcquireInv, Zenon DEF wait, Runs, Goto, table, locals

\* Only one thread is in a section of wait_lock.
LEMMA OneHolder ==
  ASSUME IInv, NEW s \in Slots, pc[s] \in Holding
  PROVE  /\ waitlock = s /\ s # NoProc /\ state[s] = "RUNNING" /\ ~plock[s]
         /\ \A t \in Slots : t # s => pc[t] \notin Holding
  BY SlotFacts, Zenon DEF IInv, WaitLockInv

\* reparent() gives a child to init.
LEMMA AdoptInv ==
  ASSUME IInv, NEW s \in Slots, NEW k \in Slots, k = i[s], pc[s] = "reparent", parent[k] = s,
         parent' \in [Slots -> Slots \cup {NoProc}], parent'[k] = initproc,
         \A m \in Slots : m # k => parent'[m] = parent[m],
         pc' \in [Slots -> PCs], pc'[s] = "reparent_wake", \A t \in Slots : t # s => pc'[t] = pc[t],
         j' \in [Slots -> 1..NPROC + 1], j'[s] = 1,
         UNCHANGED <<state, pid, killed, chan, nextpid, plock, waitlock, cpu, i, havekids, arg>>
  PROVE  IInv'
  <1>0. /\ waitlock = s /\ s # initproc /\ s # NoProc /\ state[s] = "RUNNING"
        /\ \A t \in Slots : t # s => pc[t] \notin Holding
    BY OneHolder, Zenon DEF Holding, IInv, FamilyInv
  <1>1. TypeOK'
    BY Zenon DEF IInv, TypeOK, InForkOrKill
  <1>2. CpuInv'
    BY ZenonT(60) DEF IInv, CpuInv, OneCpuPerStack, OnCpu
  <1>3. PcInv' /\ WaitLockInv'
    BY DEF IInv, PcInv, WaitLockInv, Absent, Holding, NoIndex
  <1>4. ForkInv'
    <2>1. \A t \in Slots : pc[t] \in Forking => i[t] \in Slots
      BY Ranges, Zenon DEF Forking, InForkOrKill
    <2>2. QED
      BY <2>1 DEF IInv, ForkInv, Forking
  <1>5. FamilyInv'
    <2>1. \A t, m \in Slots : HandedOn(t, m)' => t = s /\ (HandedOn(s, m) \/ m = k)
      BY <1>0, ZenonT(60) DEF HandedOn, Holding
    <2>2. \A t, m \in Slots : HandedOn(t, m)' => parent'[m] # t
      BY <1>0, <2>1 DEF IInv, FamilyInv
    <2>3. Alive(initproc)' /\ pc'[initproc] \notin Holding \ {"wait_scan", "wait_sleep"}
      BY <1>0, SlotFacts, Zenon DEF IInv, FamilyInv, Alive, Absent
    <2>4. \A m \in Slots : parent'[m] # NoProc => Alive(parent[m])' \/ parent'[m] = initproc
      BY Ranges, Zenon DEF IInv, FamilyInv, Alive
    <2>5. QED
      BY <2>2, <2>3, <2>4, SlotFacts DEF IInv, FamilyInv, Alive, Absent
  <1>6. ZombieInv'
    <2>1. \A t, m \in Slots : ~Scanned(t, m)' /\ ~Woke(t)'
      BY <1>0, Zenon DEF Scanned, Woke, Holding
    <2>2. \A m \in Slots : ~Missed(m)
      BY <1>0, Zenon DEF IInv, ZombieInv
    <2>3. \A m \in Slots : Missed(m)' => m = k
      BY <2>2, ZenonT(60) DEF Missed
    <2>4. QED
      BY <1>0, <2>1, <2>3 DEF ZombieInv, initproc
  <1>7. QED
    BY <1>1, <1>2, <1>3, <1>4, <1>5, <1>6, Zenon DEF IInv

\* reparent() goes to the next slot, or is done.
LEMMA ReparentNextInv ==
  ASSUME IInv, NEW s \in Slots, pc[s] = "reparent",
         \/ /\ i[s] <= NPROC /\ parent[i[s]] # s /\ i'[s] = i[s] + 1
            /\ pc'[s] = pc[s] /\ j'[s] = j[s]
         \/ i[s] > NPROC /\ i'[s] = i[s] /\ pc'[s] = "exit_wake" /\ j'[s] = 1,
         i' \in [Slots -> 1..NPROC + 1], j' \in [Slots -> 1..NPROC + 1], pc' \in [Slots -> PCs],
         \A t \in Slots : t # s => pc'[t] = pc[t] /\ i'[t] = i[t] /\ j'[t] = j[t],
         UNCHANGED <<state, parent, pid, killed, chan, nextpid, plock, waitlock, cpu, havekids, arg>>
  PROVE  IInv'
  <1>0. /\ waitlock = s /\ s # initproc /\ s # NoProc /\ state[s] = "RUNNING"
        /\ \A t \in Slots : t # s => pc[t] \notin Holding
    BY OneHolder, Zenon DEF Holding, IInv, FamilyInv
  <1>1. TypeOK'
    BY Zenon DEF IInv, TypeOK, InForkOrKill
  <1>2. CpuInv'
    BY Zenon DEF IInv, CpuInv, OneCpuPerStack, OnCpu
  <1>3. PcInv' /\ WaitLockInv'
    BY DEF IInv, PcInv, WaitLockInv, Absent, Holding, NoIndex
  <1>4. ForkInv'
    BY DEF IInv, ForkInv, Forking
  <1>5. FamilyInv'
    <2>1. i[s] \in 1..NPROC + 1 /\ NPROC \in Nat
      BY ProcAssumption, Zenon DEF IInv, TypeOK
    <2>2. \A t, m \in Slots : HandedOn(t, m)' => t = s /\ (HandedOn(s, m) \/ (m = i[s] /\ parent[i[s]] # s))
      BY <1>0, <2>1, SlotFacts DEF HandedOn, Holding
    <2>3. \A t, m \in Slots : HandedOn(t, m)' => parent[m] # t
      BY <2>2 DEF IInv, FamilyInv
    <2>4. pc'[initproc] = pc[initproc]
      BY <1>0, SlotFacts, Zenon
    <2>5. QED
      BY <2>3, <2>4, Zenon DEF IInv, FamilyInv, Alive
  <1>6. ZombieInv'
    <2>1. \A t, m \in Slots : ~Scanned(t, m)'
      BY <1>0, Zenon DEF Scanned, Holding
    <2>2. \A t \in Slots : Woke(t)' => parent[t] = NoProc
      BY <1>0, Ranges, SlotFacts DEF Woke, Holding
    <2>3. \A m \in Slots : ~Missed(m)'
      BY <1>0, Zenon DEF IInv, ZombieInv, Missed
    <2>4. QED
      BY <2>1, <2>2, <2>3, Zenon DEF ZombieInv
  <1>7. QED
    BY <1>1, <1>2, <1>3, <1>4, <1>5, <1>6, Zenon DEF IInv

\* One turn of reparent().
LEMMA ReparentInv ==
  ASSUME IInv, NEW s \in Slots, reparent(s)
  PROVE  IInv'
  <1>0. /\ pc[s] = "reparent" /\ i[s] \in 1..NPROC + 1 /\ i[s] \in Nat /\ NPROC \in Nat
        /\ i[s] <= NPROC => i[s] \in Slots
        /\ UNCHANGED <<state, pid, killed, chan, nextpid, plock, waitlock, cpu, havekids, arg>>
    <2>1. pc[s] = "reparent" /\ i[s] \in 1..NPROC + 1
      BY Zenon DEF reparent, IInv, TypeOK
    <2>2. QED
      BY <2>1, ProcAssumption DEF reparent, Slots
  <1>1. /\ parent \in [Slots -> Slots \cup {NoProc}] /\ pc \in [Slots -> PCs]
        /\ i \in [Slots -> 1..NPROC + 1] /\ j \in [Slots -> 1..NPROC + 1]
        /\ {"reparent_wake", "exit_wake"} \subseteq PCs /\ 1 \in 1..NPROC + 1
    BY <1>0 DEF IInv, TypeOK, PCs, InExit
  <1>2. CASE i[s] <= NPROC /\ parent[i[s]] = s
    <2>1. /\ parent' = [parent EXCEPT ![i[s]] = initproc] /\ pc' = [pc EXCEPT ![s] = "reparent_wake"]
          /\ j' = [j EXCEPT ![s] = 1] /\ UNCHANGED i
      BY <1>0, <1>2 DEF reparent, Adopted, Goto
    <2>2. /\ parent' \in [Slots -> Slots \cup {NoProc}] /\ parent'[i[s]] = initproc
          /\ \A m \in Slots : m # i[s] => parent'[m] = parent[m]
      BY <1>0, <1>1, <1>2, <2>1, SlotFacts, Zenon
    <2>3. /\ pc' \in [Slots -> PCs] /\ pc'[s] = "reparent_wake"
          /\ \A t \in Slots : t # s => pc'[t] = pc[t]
          /\ j' \in [Slots -> 1..NPROC + 1] /\ j'[s] = 1
      BY <1>1, <2>1, Zenon
    <2>4. QED
      BY <1>0, <1>2, <2>1, <2>2, <2>3, AdoptInv, SMTT(60)
  <1>3. CASE i[s] <= NPROC /\ parent[i[s]] # s
    <2>1. i' = [i EXCEPT ![s] = i[s] + 1] /\ UNCHANGED <<parent, pc, j>>
      BY <1>0, <1>3 DEF reparent, Adopted
    <2>2. i[s] + 1 \in 1..NPROC + 1
      BY <1>0, <1>3
    <2>3. i' \in [Slots -> 1..NPROC + 1] /\ i'[s] = i[s] + 1 /\ \A t \in Slots : t # s => i'[t] = i[t]
      BY <1>1, <2>1, <2>2, Zenon
    <2>4. QED
      BY <1>0, <1>1, <1>3, <2>1, <2>3, ReparentNextInv, ZenonT(60)
  <1>4. CASE i[s] > NPROC
    <2>1. pc' = [pc EXCEPT ![s] = "exit_wake"] /\ j' = [j EXCEPT ![s] = 1] /\ UNCHANGED <<parent, i>>
      BY <1>0, <1>4 DEF reparent, Goto
    <2>2. /\ pc' \in [Slots -> PCs] /\ pc'[s] = "exit_wake" /\ j' \in [Slots -> 1..NPROC + 1] /\ j'[s] = 1
          /\ \A t \in Slots : t # s => pc'[t] = pc[t] /\ j'[t] = j[t]
      BY <1>1, <2>1, Zenon
    <2>3. QED
      BY <1>0, <1>1, <1>4, <2>1, <2>2, ReparentNextInv, Zenon
  <1>5. QED
    BY <1>0, <1>2, <1>3, <1>4

\* One turn of wakeup() by exit(), which may wake proc[k].
LEMMA WakeTurnInv ==
  ASSUME IInv, NEW s \in Slots, NEW k \in Slots, k = j[s], pc[s] \in {"reparent_wake", "exit_wake"},
         k # s => ~plock[k],
         state' \in [Slots -> States], \A t \in Slots : t # k => state'[t] = state[t],
         state'[k] = IF /\ k # s /\ state[k] = "SLEEPING"
                        /\ chan[k] = IF pc[s] = "exit_wake" THEN parent[s] ELSE initproc
                     THEN "RUNNABLE" ELSE state[k],
         j' \in [Slots -> 1..NPROC + 1], j'[s] = k + 1, \A t \in Slots : t # s => j'[t] = j[t],
         UNCHANGED <<parent, pid, killed, chan, nextpid, plock, waitlock, cpu, pc, i, havekids, arg>>
  PROVE  IInv'
  <1>0. /\ waitlock = s /\ s # initproc /\ s # NoProc /\ state[s] = "RUNNING"
        /\ \A t \in Slots : t # s => pc[t] \notin Holding
    BY OneHolder, ZenonT(60) DEF Holding, IInv, FamilyInv
  <1>1. \A t \in Slots : \/ state'[t] = state[t]
                         \/ t # s /\ state[t] = "SLEEPING" /\ ~plock[t] /\ state'[t] = "RUNNABLE"
    BY Zenon
  <1>2. TypeOK'
    BY Zenon DEF IInv, TypeOK
  <1>3. CpuInv'
    BY <1>1, SlotFacts, SMTT(60) DEF IInv, TypeOK, CpuInv, OneCpuPerStack, OnCpu, Absent
  <1>4. PcInv' /\ WaitLockInv'
    BY <1>0, <1>1 DEF IInv, PcInv, WaitLockInv, Absent, Holding
  <1>5. ForkInv'
    <2>1. \A t \in Slots : pc[t] \in Forking => i[t] \in Slots
      BY Ranges, Zenon DEF Forking, InForkOrKill
    <2>2. QED
      BY <1>1, <2>1 DEF IInv, ForkInv, Forking
  <1>6. FamilyInv'
    <2>1. \A t, m \in Slots : HandedOn(t, m)' <=> HandedOn(t, m)
      BY Zenon DEF HandedOn
    <2>2. \A t \in Slots : (Alive(t) => Alive(t)') /\ (state'[t] \notin Absent => state[t] \notin Absent)
      BY <1>1, Zenon DEF Alive, Absent
    <2>3. QED
      BY <2>1, <2>2, SlotFacts, Ranges, Zenon DEF IInv, FamilyInv
  <1>7. ZombieInv'
    <2>1. \A t, m \in Slots : ~Scanned(t, m)'
      BY <1>0, Zenon DEF Scanned, Holding
    <2>2. state[k] = "SLEEPING" => chan[k] = k
      BY Zenon DEF IInv, PcInv
    <2>3. \A t \in Slots : Woke(t)' /\ parent[t] # NoProc => state'[parent[t]] # "SLEEPING"
      <3> SUFFICES ASSUME NEW t \in Slots, Woke(t)', parent[t] # NoProc PROVE state'[parent[t]] # "SLEEPING"
        BY Zenon
      <3>1. t = s /\ pc[s] = "exit_wake" /\ parent[s] \in Slots /\ parent[s] < k + 1
        BY <1>0, Ranges DEF Woke, Holding
      <3>2. CASE parent[s] = k
        BY <1>0, <2>2, <3>1, <3>2, ZenonT(60)
      <3>3. CASE parent[s] # k
        <4>1. parent[s] < k
          BY <3>1, <3>3, SlotFacts
        <4>2. state[parent[s]] # "SLEEPING"
          BY <3>1, <4>1, SlotFacts, Zenon DEF IInv, ZombieInv, Woke
        <4>3. QED
          BY <1>1, <3>1, <4>2, Zenon
      <3>4. QED
        BY <3>2, <3>3, Zenon
    <2>4. \A m \in Slots : ~Missed(m)'
      <3> SUFFICES ASSUME NEW m \in Slots, Missed(m)' PROVE FALSE
        BY Zenon
      <3>1. Missed(m)
        BY <1>1, Ranges, Zenon DEF Missed
      <3>2. pc[s] = "reparent_wake" /\ j[s] <= initproc /\ parent[m] = initproc
        BY <1>0, <3>1, ZenonT(60) DEF IInv, ZombieInv
      <3>3. k = initproc
        BY <3>2, SlotFacts DEF initproc
      <3>4. state'[k] # "SLEEPING"
        BY <1>0, <2>2, <3>2, <3>3, Zenon
      <3>5. QED
        BY <3>2, <3>3, <3>4, Zenon DEF Missed
    <2>5. QED
      BY <2>1, <2>3, <2>4, Zenon DEF ZombieInv
  <1>8. QED
    BY <1>2, <1>3, <1>4, <1>5, <1>6, <1>7, Zenon DEF IInv

\* wakeup() has been over all slots.
LEMMA WakeEndsInv ==
  ASSUME IInv, NEW s \in Slots, pc[s] \in {"reparent_wake", "exit_wake"}, j[s] > NPROC,
         pc' \in [Slots -> PCs], pc'[s] = IF pc[s] = "exit_wake" THEN "exit_zombie" ELSE "reparent",
         i' \in [Slots -> 1..NPROC + 1], i'[s] = IF pc[s] = "exit_wake" THEN 1 ELSE i[s] + 1,
         j' \in [Slots -> 1..NPROC + 1],
         \A t \in Slots : t # s => pc'[t] = pc[t] /\ i'[t] = i[t] /\ j'[t] = j[t],
         UNCHANGED <<state, parent, pid, killed, chan, nextpid, plock, waitlock, cpu, havekids, arg>>
  PROVE  IInv'
  <1>0. /\ waitlock = s /\ s # initproc /\ s # NoProc /\ state[s] = "RUNNING"
        /\ \A t \in Slots : t # s => pc[t] \notin Holding
    BY OneHolder, Zenon DEF Holding, IInv, FamilyInv
  <1>1. TypeOK'
    BY Zenon DEF IInv, TypeOK, InForkOrKill
  <1>2. CpuInv'
    BY Zenon DEF IInv, CpuInv, OneCpuPerStack, OnCpu
  <1>3. PcInv' /\ WaitLockInv'
    BY SMTT(60) DEF IInv, PcInv, WaitLockInv, Absent, Holding, NoIndex
  <1>4. ForkInv'
    BY DEF IInv, ForkInv, Forking
  <1>5. FamilyInv'
    <2>1. pc[s] = "reparent_wake" => i[s] \in Nat
      BY SlotFacts, Zenon DEF IInv, PcInv
    <2>2. \A t, m \in Slots : HandedOn(t, m)' => HandedOn(t, m)
      BY <1>0, <2>1, SlotFacts DEF HandedOn, Holding
    <2>3. pc'[initproc] = pc[initproc]
      BY <1>0, SlotFacts, Zenon
    <2>4. QED
      BY <2>2, <2>3, Zenon DEF IInv, FamilyInv, Alive
  <1>6. ZombieInv'
    <2>1. \A t, m \in Slots : ~Scanned(t, m)'
      BY <1>0, Zenon DEF Scanned, Holding
    <2>2. j[s] \in Nat /\ NPROC \in Nat
      BY ProcAssumption DEF IInv, TypeOK
    <2>3. \A t \in Slots : Woke(t)' /\ parent[t] # NoProc => Woke(t)
      BY <1>0, <2>2, Ranges, SlotFacts DEF Woke, Holding
    <2>4. \A m \in Slots : ~Missed(m)'
      <3>1. ~(j[s] <= initproc)
        BY <2>2, SlotFacts DEF initproc
      <3>2. QED
        BY <1>0, <3>1, Zenon DEF IInv, ZombieInv, Missed
    <2>5. QED
      BY <2>1, <2>3, <2>4, Zenon DEF IInv, ZombieInv
  <1>7. QED
    BY <1>1, <1>2, <1>3, <1>4, <1>5, <1>6, Zenon DEF IInv

\* One turn of wakeup(), or its end.
LEMMA WakeupInv ==
  ASSUME IInv, NEW s \in Slots, wakeup(s)
  PROVE  IInv'
  <1>0. /\ pc[s] \in {"reparent_wake", "exit_wake"} /\ j[s] \in 1..NPROC + 1 /\ NPROC \in Nat
        /\ j[s] <= NPROC => j[s] \in Slots
        /\ UNCHANGED <<parent, pid, killed, chan, nextpid, plock, waitlock, cpu, havekids, arg>>
    <2>1. pc[s] \in {"reparent_wake", "exit_wake"} /\ j[s] \in 1..NPROC + 1
      BY Zenon DEF wakeup, IInv, TypeOK
    <2>2. QED
      BY <2>1, ProcAssumption DEF wakeup, Slots
  <1>1. /\ state \in [Slots -> States] /\ pc \in [Slots -> PCs] /\ "RUNNABLE" \in States
        /\ i \in [Slots -> 1..NPROC + 1] /\ j \in [Slots -> 1..NPROC + 1]
        /\ {"exit_zombie", "reparent"} \subseteq PCs /\ 1 \in 1..NPROC + 1
    BY <1>0 DEF IInv, TypeOK, PCs, InExit, States
  <1>2. CASE j[s] <= NPROC
    <2>1. /\ j[s] # s => ~plock[j[s]]
          /\ state' = IF /\ j[s] # s /\ state[j[s]] = "SLEEPING"
                         /\ chan[j[s]] = IF pc[s] = "exit_wake" THEN parent[s] ELSE initproc
                      THEN [state EXCEPT ![j[s]] = "RUNNABLE"] ELSE state
          /\ j' = [j EXCEPT ![s] = j[s] + 1] /\ UNCHANGED <<pc, i>>
      BY <1>0, <1>2 DEF wakeup, LockFree, ExitWakes, ReparentWakes
    <2>2. j[s] + 1 \in 1..NPROC + 1
      BY <1>0, <1>2
    <2>3. j' \in [Slots -> 1..NPROC + 1] /\ j'[s] = j[s] + 1 /\ \A t \in Slots : t # s => j'[t] = j[t]
      BY <1>1, <2>1, <2>2, Zenon
    <2>4. /\ state' \in [Slots -> States] /\ \A t \in Slots : t # j[s] => state'[t] = state[t]
          /\ state'[j[s]] = IF /\ j[s] # s /\ state[j[s]] = "SLEEPING"
                               /\ chan[j[s]] = IF pc[s] = "exit_wake" THEN parent[s] ELSE initproc
                            THEN "RUNNABLE" ELSE state[j[s]]
      BY <1>0, <1>1, <1>2, <2>1, Zenon
    <2>5. QED
      BY <1>0, <1>2, <2>1, <2>3, <2>4, WakeTurnInv, ZenonT(60)
  <1>3. CASE j[s] > NPROC
    <2>1. /\ pc' = [pc EXCEPT ![s] = IF pc[s] = "exit_wake" THEN "exit_zombie" ELSE "reparent"]
          /\ i' = [i EXCEPT ![s] = IF pc[s] = "exit_wake" THEN 1 ELSE i[s] + 1]
          /\ j' = [j EXCEPT ![s] = 1] /\ UNCHANGED state
      BY <1>0, <1>1, <1>3 DEF wakeup, Goto
    <2>2. pc[s] # "exit_wake" => i[s] + 1 \in 1..NPROC + 1
      BY <1>0, SlotFacts DEF IInv, PcInv
    <2>3. /\ pc' \in [Slots -> PCs] /\ pc'[s] = IF pc[s] = "exit_wake" THEN "exit_zombie" ELSE "reparent"
          /\ \A t \in Slots : t # s => pc'[t] = pc[t]
      BY <1>1, <2>1, Zenon
    <2>4. /\ i' \in [Slots -> 1..NPROC + 1] /\ i'[s] = IF pc[s] = "exit_wake" THEN 1 ELSE i[s] + 1
          /\ j' \in [Slots -> 1..NPROC + 1] /\ \A t \in Slots : t # s => i'[t] = i[t] /\ j'[t] = j[t]
      BY <1>1, <2>1, <2>2, Zenon
    <2>5. QED
      BY <1>0, <1>3, <2>1, <2>3, <2>4, WakeEndsInv, ZenonT(60)
  <1>4. QED
    BY <1>0, <1>2, <1>3

\* exit() becomes a zombie and leaves for scheduler().
LEMMA ExitZombieInv ==
  ASSUME IInv, NEW s \in Slots, exit_zombie(s)
  PROVE  IInv'
  <1>0. /\ pc[s] = "exit_zombie" /\ OnCpu(s) /\ waitlock' = NoProc
        /\ UNCHANGED <<parent, pid, killed, chan, nextpid, cpu, i, j, havekids, arg>>
    BY Zenon DEF exit_zombie, Runs, locals
  <1>1. /\ waitlock = s /\ s # initproc /\ s # NoProc /\ state[s] = "RUNNING"
        /\ \A t \in Slots : t # s => pc[t] \notin Holding
    BY <1>0, OneHolder, Zenon DEF Holding, IInv, FamilyInv
  <1>2. /\ state' \in [Slots -> States] /\ state'[s] = "ZOMBIE"
        /\ plock' \in [Slots -> BOOLEAN] /\ plock'[s]
        /\ pc' \in [Slots -> PCs] /\ pc'[s] = "zombie"
        /\ \A t \in Slots : t # s => state'[t] = state[t] /\ plock'[t] = plock[t] /\ pc'[t] = pc[t]
    BY Zenon DEF exit_zombie, Goto, IInv, TypeOK, States, PCs
  <1>3. TypeOK'
    BY <1>0, <1>2, ZenonT(60) DEF IInv, TypeOK, InForkOrKill
  <1>4. CpuInv'
    BY <1>0, <1>2 DEF IInv, TypeOK, CpuInv, OneCpuPerStack, OnCpu, Absent
  <1>5. PcInv'
    BY <1>0, <1>2 DEF IInv, PcInv, Absent, NoIndex
  <1>6. WaitLockInv'
    BY <1>0, <1>1, <1>2, SlotFacts, Zenon DEF WaitLockInv, Holding
  <1>7. ForkInv'
    <2>1. \A t \in Slots : pc[t] \in Forking => i[t] \in Slots /\ state[i[t]] # "RUNNING"
      BY Ranges, Zenon DEF IInv, ForkInv, Forking, InForkOrKill
    <2>2. \A t \in Slots : pc'[t] \in Forking => pc[t] \in Forking /\ pc'[t] = pc[t]
      BY <1>2, Zenon DEF Forking
    <2>3. \A t \in Slots : pc[t] \in Forking => state'[i[t]] = state[i[t]]
      BY <1>1, <1>2, <2>1, Zenon
    <2>4. \A t \in Slots : pc'[t] = "fork_run" => pc[t] = "fork_run"
      BY <1>2, Zenon
    <2>5. ForkInv
      BY Zenon DEF IInv
    <2>6. QED
      BY <1>0, <2>2, <2>3, <2>4, <2>5, ZenonT(60) DEF ForkInv
  <1>8. FamilyInv'
    <2>1. \A t, m \in Slots : ~HandedOn(t, m)'
      BY <1>1, <1>2, ZenonT(60) DEF HandedOn, Holding
    <2>2. pc'[initproc] \notin Holding /\ Alive(initproc)'
      BY <1>1, <1>2, SlotFacts, Zenon DEF IInv, FamilyInv, Alive
    <2>3. \A m \in Slots : parent[m] # s
      BY <1>0, Zenon DEF IInv, FamilyInv, HandedOn
    <2>4. \A m \in Slots : parent[m] # NoProc => Alive(parent[m])'
      BY <1>0, <1>2, <2>3, Ranges, Zenon DEF IInv, FamilyInv, Alive
    <2>5. \A m \in Slots : state'[m] \notin Absent => state[m] \notin Absent
      BY <1>1, <1>2, Zenon DEF Absent
    <2>6. QED
      BY <1>0, <2>1, <2>2, <2>4, <2>5, SlotFacts, Zenon DEF IInv, FamilyInv, Alive
  <1>9. ZombieInv'
    <2>1. \A t, m \in Slots : ~Scanned(t, m)' /\ ~Woke(t)'
      BY <1>1, <1>2, Zenon DEF Scanned, Woke, Holding
    <2>2. parent[s] # NoProc => state[parent[s]] # "SLEEPING"
      BY <1>0, Zenon DEF IInv, ZombieInv, Woke
    <2>3. \A m \in Slots : ~Missed(m)
      BY <1>0, <1>1, Zenon DEF IInv, ZombieInv
    <2>4. \A m \in Slots : ~Missed(m)'
      BY <1>0, <1>1, <1>2, <2>2, <2>3, Ranges, ZenonT(30), ZenonT(60) DEF Missed
    <2>5. QED
      BY <2>1, <2>4, Zenon DEF ZombieInv
  <1>10. QED
    BY <1>3, <1>4, <1>5, <1>6, <1>7, <1>8, <1>9, Zenon DEF IInv

\* A scan of wait() is over; it may have freed a zombie child.
LEMMA WaitEndsInv ==
  ASSUME IInv, NEW s \in Slots, NEW k \in Slots, OnCpu(s), pc[s] = "wait_scan",
         pc' \in [Slots -> PCs], pc'[s] = "trap", i' \in [Slots -> 1..NPROC + 1], i'[s] = 1,
         \A t \in Slots : t # s => pc'[t] = pc[t] /\ i'[t] = i[t],
         havekids' \in [Slots -> BOOLEAN], arg' \in [Slots -> Nat],
         state' \in [Slots -> States], parent' \in [Slots -> Slots \cup {NoProc}],
         pid' \in [Slots -> Nat], killed' \in [Slots -> BOOLEAN], chan' \in [Slots -> Slots \cup {NoProc}],
         \A t \in Slots : t # k => state'[t] = state[t] /\ parent'[t] = parent[t] /\ chan'[t] = chan[t],
         \/ state'[k] = state[k] /\ parent'[k] = parent[k] /\ chan'[k] = chan[k]
         \/ state[k] = "ZOMBIE" /\ ~plock[k] /\ state'[k] = "UNUSED" /\ parent'[k] = NoProc,
         waitlock' = NoProc, UNCHANGED <<plock, nextpid, cpu, j>>
  PROVE  IInv'
  <1>0. /\ waitlock = s /\ s # NoProc /\ state[s] = "RUNNING"
        /\ \A t \in Slots : t # s => pc[t] \notin Holding
    BY OneHolder, Zenon DEF Holding
  <1>1. \A t \in Slots : \/ state'[t] = state[t] /\ parent'[t] = parent[t] /\ chan'[t] = chan[t]
                         \/ state[t] = "ZOMBIE" /\ ~plock[t] /\ state'[t] = "UNUSED" /\ parent'[t] = NoProc
    BY Zenon
  <1>2. TypeOK'
    BY Zenon DEF IInv, TypeOK, InForkOrKill
  <1>3. CpuInv'
    BY <1>1, SlotFacts DEF IInv, TypeOK, CpuInv, OneCpuPerStack, OnCpu, Absent
  <1>4. PcInv'
    BY <1>0, <1>1 DEF IInv, PcInv, Absent, NoIndex
  <1>5. WaitLockInv'
    BY <1>0, SlotFacts, Zenon DEF WaitLockInv, Holding
  <1>6. ForkInv'
    <2>1. \A t \in Slots : pc[t] \in Forking => i[t] \in Slots /\ state[i[t]] = "USED"
      BY Ranges, Zenon DEF IInv, ForkInv, Forking, InForkOrKill
    <2>2. \A t \in Slots : pc'[t] \in Forking => t # s /\ pc[t] \in Forking /\ i'[t] = i[t]
      BY Zenon DEF Forking
    <2>3. \A t \in Slots : pc[t] \in Forking => state'[i[t]] = "USED" /\ parent'[i[t]] = parent[i[t]]
      BY <1>1, <2>1
    <2>4. \A t \in Slots : pc'[t] = "fork_run" => pc[t] = "fork_run"
      BY Zenon
    <2>5. ForkInv
      BY Zenon DEF IInv
    <2>6. \A t \in Slots : pc'[t] \in Forking => state'[i'[t]] = "USED"
      BY <2>2, <2>3, ZenonT(60)
    <2>7. \A t \in Slots : pc'[t] = "fork_run" => parent'[i'[t]] = t
      <3>1. \A t \in Slots : pc[t] = "fork_run" => pc[t] \in Forking /\ parent[i[t]] = t
        BY <2>5, Zenon DEF ForkInv, Forking
      <3>2. \A t \in Slots : pc'[t] = "fork_run" => i'[t] = i[t]
        BY <2>2, Zenon DEF Forking
      <3>3. QED
        BY <2>3, <2>4, <3>1, <3>2
    <2>8. \A t, q \in Slots : pc'[t] \in Forking /\ pc'[q] \in Forking /\ i'[t] = i'[q] => t = q
      BY <2>2, <2>5, ZenonT(60) DEF ForkInv
    <2>9. QED
      BY <2>6, <2>7, <2>8, Zenon DEF ForkInv
  <1>7. FamilyInv'
    <2>1. \A t, m \in Slots : ~HandedOn(t, m)'
      BY <1>0 DEF HandedOn, Holding
    <2>2. \A t \in Slots : (Alive(t) => Alive(t)') /\ (state'[t] \notin Absent => state'[t] = state[t] /\ parent'[t] = parent[t])
      BY <1>1, Zenon DEF Alive, Absent
    <2>3. \A m \in Slots : parent'[m] # NoProc => parent'[m] = parent[m] /\ parent[m] \in Slots
      BY <1>1, Ranges, Zenon
    <2>4. pc'[initproc] \notin Holding
      BY <1>0, SlotFacts, Zenon DEF Holding
    <2>5. QED
      BY <2>1, <2>2, <2>3, <2>4, SlotFacts DEF IInv, FamilyInv
  <1>8. ZombieInv'
    <2>1. \A t, m \in Slots : ~Scanned(t, m)' /\ ~Woke(t)'
      BY <1>0, ZenonT(60) DEF Scanned, Woke, Holding
    <2>2. \A m \in Slots : ~Missed(m)
      BY <1>0, Zenon DEF IInv, ZombieInv
    <2>3. \A m \in Slots : ~Missed(m)'
      BY <1>1, <2>2, Ranges DEF Missed
    <2>4. QED
      BY <2>1, <2>3, Zenon DEF ZombieInv
  <1>9. QED
    BY <1>2, <1>3, <1>4, <1>5, <1>6, <1>7, <1>8, Zenon DEF IInv

\* wait() goes on: past a slot that is no zombie child, or to sleep after all.
LEMMA WaitOnInv ==
  ASSUME IInv, NEW s \in Slots, pc[s] = "wait_scan", i[s] \in Nat,
         pc' \in [Slots -> PCs], i' \in [Slots -> 1..NPROC + 1],
         \/ /\ pc'[s] = "wait_scan" /\ i'[s] = i[s] + 1
            /\ ~(parent[i[s]] = s /\ state[i[s]] = "ZOMBIE")
         \/ pc'[s] = "wait_sleep" /\ i'[s] = i[s] /\ \A k \in Slots : k < i[s],
         \A t \in Slots : t # s => pc'[t] = pc[t] /\ i'[t] = i[t],
         havekids' \in [Slots -> BOOLEAN],
         UNCHANGED <<state, parent, pid, killed, chan, nextpid, plock, waitlock, cpu, j, arg>>
  PROVE  IInv'
  <1>0. /\ waitlock = s /\ s # NoProc /\ state[s] = "RUNNING"
        /\ \A t \in Slots : t # s => pc[t] \notin Holding
    BY OneHolder, Zenon DEF Holding
  <1>1. TypeOK'
    BY Zenon DEF IInv, TypeOK, InForkOrKill
  <1>2. CpuInv'
    BY ZenonT(60) DEF IInv, CpuInv, OneCpuPerStack, OnCpu
  <1>3. PcInv' /\ WaitLockInv'
    BY <1>0 DEF IInv, PcInv, WaitLockInv, Absent, Holding, NoIndex
  <1>4. ForkInv'
    BY DEF IInv, ForkInv, Forking
  <1>5. FamilyInv'
    <2>1. \A t, m \in Slots : ~HandedOn(t, m)'
      BY <1>0, Zenon DEF HandedOn, Holding
    <2>2. pc'[initproc] \notin Holding \ {"wait_scan", "wait_sleep"}
      BY <1>0, SlotFacts, Zenon DEF Holding
    <2>3. QED
      BY <2>1, <2>2, Zenon DEF IInv, FamilyInv, Alive
  <1>6. ZombieInv'
    <2>1. \A t \in Slots : ~Woke(t)'
      BY <1>0, Zenon DEF Woke, Holding
    <2>2. \A m \in Slots : ~Missed(m)'
      BY <1>0, Zenon DEF IInv, ZombieInv, Missed
    <2>3. \A t, m \in Slots : Scanned(t, m)' => ~(parent[m] = t /\ state[m] = "ZOMBIE")
      <3> SUFFICES ASSUME NEW t \in Slots, NEW m \in Slots, Scanned(t, m)' PROVE ~(parent[m] = t /\ state[m] = "ZOMBIE")
        BY Zenon
      <3>1. t = s
        BY <1>0, Zenon DEF Scanned, Holding
      <3>2. m < i[s] \/ (m = i[s] /\ ~(parent[i[s]] = s /\ state[i[s]] = "ZOMBIE"))
        BY <3>1, SlotFacts DEF Scanned
      <3>3. QED
        BY <3>1, <3>2, Zenon DEF IInv, ZombieInv, Scanned
    <2>4. QED
      BY <2>1, <2>2, <2>3, Zenon DEF ZombieInv
  <1>7. QED
    BY <1>1, <1>2, <1>3, <1>4, <1>5, <1>6, Zenon DEF IInv

\* One turn of wait()'s scan.
LEMMA WaitScanInv ==
  ASSUME IInv, NEW s \in Slots, wait_scan(s)
  PROVE  IInv'
  <1>0. /\ OnCpu(s) /\ pc[s] = "wait_scan" /\ i[s] \in 1..NPROC + 1 /\ NPROC \in Nat
        /\ i[s] <= NPROC => i[s] \in Slots
        /\ UNCHANGED <<plock, nextpid, cpu, j>>
    <2>1. OnCpu(s) /\ pc[s] = "wait_scan" /\ i[s] \in 1..NPROC + 1
      BY Zenon DEF wait_scan, Runs, IInv, TypeOK
    <2>2. QED
      BY <2>1, ProcAssumption DEF wait_scan, Slots
  <1>1. /\ pc \in [Slots -> PCs] /\ i \in [Slots -> 1..NPROC + 1] /\ havekids \in [Slots -> BOOLEAN]
        /\ arg \in [Slots -> Nat] /\ {"trap", "wait_sleep"} \subseteq PCs /\ 1 \in 1..NPROC + 1
    BY <1>0 DEF IInv, TypeOK, PCs, InWait
  <1>2. ASSUME Return(s)
        PROVE  /\ pc' \in [Slots -> PCs] /\ pc'[s] = "trap" /\ i' \in [Slots -> 1..NPROC + 1] /\ i'[s] = 1
               /\ \A t \in Slots : t # s => pc'[t] = pc[t] /\ i'[t] = i[t]
               /\ havekids' \in [Slots -> BOOLEAN] /\ arg' \in [Slots -> Nat]
    BY <1>1, <1>2, Zenon DEF Return, Goto
  <1>3. ASSUME UNCHANGED <<state, parent, pid, killed, chan>>
        PROVE  /\ state' \in [Slots -> States] /\ parent' \in [Slots -> Slots \cup {NoProc}]
               /\ pid' \in [Slots -> Nat] /\ killed' \in [Slots -> BOOLEAN]
               /\ chan' \in [Slots -> Slots \cup {NoProc}]
    BY <1>3, Zenon DEF IInv, TypeOK
  <1>4. CASE i[s] <= NPROC /\ parent[i[s]] = s /\ state[i[s]] = "ZOMBIE"
    <2>1. /\ ~plock[i[s]] /\ waitlock' = NoProc /\ Return(s)
          /\ Free(i[s]) \/ UNCHANGED <<state, parent, pid, killed, chan>>
      BY <1>0, <1>4 DEF wait_scan, LockFree
    <2>2. CASE UNCHANGED <<state, parent, pid, killed, chan>>
      BY <1>0, <1>2, <1>3, <1>4, <2>1, <2>2, WaitEndsInv, Zenon
    <2>3. CASE Free(i[s])
      <3>1. /\ state' \in [Slots -> States] /\ state'[i[s]] = "UNUSED"
            /\ parent' \in [Slots -> Slots \cup {NoProc}] /\ parent'[i[s]] = NoProc
            /\ chan' \in [Slots -> Slots \cup {NoProc}]
            /\ \A t \in Slots : t # i[s] => state'[t] = state[t] /\ parent'[t] = parent[t] /\ chan'[t] = chan[t]
        BY <1>0, <1>4, <2>3, Zenon DEF Free, IInv, TypeOK, States
      <3>2. pid' \in [Slots -> Nat] /\ killed' \in [Slots -> BOOLEAN]
        BY <2>3, Zenon DEF Free, IInv, TypeOK
      <3>3. QED
        BY <1>0, <1>2, <1>4, <2>1, <3>1, <3>2, WaitEndsInv, Zenon
    <2>4. QED
      BY <2>1, <2>2, <2>3, Zenon
  <1>5. CASE i[s] <= NPROC /\ ~(parent[i[s]] = s /\ state[i[s]] = "ZOMBIE")
    <2>1. /\ i' = [i EXCEPT ![s] = i[s] + 1]
          /\ havekids' = [havekids EXCEPT ![s] = havekids[s] \/ parent[i[s]] = s]
          /\ UNCHANGED <<state, parent, pid, killed, chan, waitlock, pc, arg>>
      BY <1>0, <1>5 DEF wait_scan
    <2>2. i[s] \in Nat /\ i[s] + 1 \in 1..NPROC + 1
      BY <1>0, <1>5
    <2>3. i' \in [Slots -> 1..NPROC + 1] /\ i'[s] = i[s] + 1 /\ \A t \in Slots : t # s => i'[t] = i[t]
      BY <1>1, <2>1, <2>2, Zenon
    <2>4. havekids' \in [Slots -> BOOLEAN]
      BY <1>1, <2>1, Zenon
    <2>5. QED
      BY <1>0, <1>1, <1>5, <2>1, <2>2, <2>3, <2>4, WaitOnInv, ZenonT(60)
  <1>6. CASE i[s] > NPROC
    <2>1. UNCHANGED <<state, parent, pid, killed, chan>>
      BY <1>0, <1>6 DEF wait_scan
    <2>2. CASE waitlock' = NoProc /\ Return(s)
      BY <1>0, <1>2, <1>3, <2>1, <2>2, SlotFacts, WaitEndsInv, Zenon
    <2>3. CASE ~(waitlock' = NoProc /\ Return(s))
      <3>1. pc' = [pc EXCEPT ![s] = "wait_sleep"] /\ UNCHANGED <<waitlock, i, havekids, arg>>
        BY <1>0, <1>6, <2>3 DEF wait_scan, Goto
      <3>2. /\ pc' \in [Slots -> PCs] /\ pc'[s] = "wait_sleep" /\ i' \in [Slots -> 1..NPROC + 1]
            /\ i'[s] = i[s] /\ i[s] \in Nat /\ \A t \in Slots : t # s => pc'[t] = pc[t] /\ i'[t] = i[t]
            /\ havekids' \in [Slots -> BOOLEAN]
        BY <1>0, <1>1, <3>1
      <3>3. \A k \in Slots : k < i[s]
        BY <1>0, <1>6, SlotFacts
      <3>4. QED
        BY <1>0, <2>1, <3>1, <3>2, <3>3, WaitOnInv, ZenonT(60)
    <2>4. QED
      BY <2>2, <2>3, Zenon
  <1>7. QED
    BY <1>0, <1>4, <1>5, <1>6

\* sleep() lets go of wait_lock and leaves for scheduler(), asleep.
LEMMA SleepInv ==
  ASSUME IInv, NEW s \in Slots, sleep(s)
  PROVE  IInv'
  <1>0. /\ pc[s] = "wait_sleep" /\ OnCpu(s) /\ waitlock' = NoProc
        /\ UNCHANGED <<parent, pid, killed, nextpid, cpu, j, arg>>
    BY Zenon DEF sleep, Runs
  <1>1. /\ waitlock = s /\ s # NoProc /\ state[s] = "RUNNING"
        /\ \A t \in Slots : t # s => pc[t] \notin Holding
    BY <1>0, OneHolder, Zenon DEF Holding
  <1>2. /\ state' \in [Slots -> States] /\ state'[s] = "SLEEPING"
        /\ plock' \in [Slots -> BOOLEAN] /\ plock'[s]
        /\ chan' \in [Slots -> Slots \cup {NoProc}] /\ chan'[s] = s
        /\ \A t \in Slots : t # s => state'[t] = state[t] /\ plock'[t] = plock[t] /\ chan'[t] = chan[t]
    BY Zenon DEF sleep, IInv, TypeOK, States
  <1>3. /\ pc' \in [Slots -> PCs] /\ pc'[s] = "wait"
        /\ i' \in [Slots -> 1..NPROC + 1] /\ i'[s] = 1 /\ havekids' \in [Slots -> BOOLEAN]
        /\ \A t \in Slots : t # s => pc'[t] = pc[t] /\ i'[t] = i[t]
    BY ProcAssumption DEF sleep, Goto, IInv, TypeOK, PCs, InWait
  <1>4. TypeOK'
    BY <1>0, <1>2, <1>3, ZenonT(60) DEF IInv, TypeOK, InForkOrKill
  <1>5. CpuInv'
    BY <1>0, <1>2 DEF IInv, TypeOK, CpuInv, OneCpuPerStack, OnCpu, Absent
  <1>6. PcInv'
    BY <1>0, <1>2, <1>3 DEF IInv, PcInv, Absent, NoIndex
  <1>7. WaitLockInv'
    BY <1>0, <1>1, <1>3, SlotFacts, Zenon DEF WaitLockInv, Holding
  <1>8. ForkInv'
    <2>1. \A t \in Slots : pc[t] \in Forking => i[t] \in Slots /\ state[i[t]] # "RUNNING"
      BY Ranges, Zenon DEF IInv, ForkInv, Forking, InForkOrKill
    <2>2. QED
      BY <1>0, <1>1, <1>2, <1>3, <2>1 DEF IInv, ForkInv, Forking
  <1>9. FamilyInv'
    <2>1. \A t, m \in Slots : ~HandedOn(t, m)'
      BY <1>1, <1>3, Zenon DEF HandedOn, Holding
    <2>2. \A t \in Slots : (Alive(t) => Alive(t)') /\ (state'[t] \notin Absent => state[t] \notin Absent)
      BY <1>1, <1>2, Zenon DEF Alive, Absent
    <2>3. pc'[initproc] \notin Holding
      BY <1>1, <1>3, SlotFacts, Zenon DEF Holding
    <2>4. QED
      BY <1>0, <2>1, <2>2, <2>3, SlotFacts, Ranges, Zenon DEF IInv, FamilyInv
  <1>10. ZombieInv'
    <2>1. \A t, m \in Slots : ~Scanned(t, m)' /\ ~Woke(t)'
      BY <1>1, <1>3, ZenonT(60) DEF Scanned, Woke, Holding
    <2>2. \A m \in Slots : ~(parent[m] = s /\ state[m] = "ZOMBIE") /\ ~Missed(m)
      BY <1>0, <1>1, Zenon DEF IInv, ZombieInv, Scanned
    <2>3. \A m \in Slots : ~Missed(m)'
      BY <1>0, <1>2, <2>2, Ranges DEF Missed
    <2>4. QED
      BY <2>1, <2>3, Zenon DEF ZombieInv
  <1>11. QED
    BY <1>4, <1>5, <1>6, <1>7, <1>8, <1>9, <1>10, Zenon DEF IInv

\* One turn of kill()'s scan.
LEMMA KillInv ==
  ASSUME IInv, NEW s \in Slots, kill(s)
  PROVE  IInv'
  <1>0. /\ state[s] = "RUNNING" /\ ~plock[s] /\ pc[s] = "kill_scan" /\ i[s] \in Slots /\ ~plock[i[s]]
        /\ UNCHANGED <<parent, pid, chan, nextpid, plock, waitlock, cpu, j>>
    BY Ranges, Zenon DEF kill, Runs, LockFree, InForkOrKill
  <1>1. pid' \in [Slots -> Nat] /\ nextpid' \in Nat
    BY <1>0, Zenon DEF IInv, TypeOK
  <1>2. CASE pid[i[s]] = arg[s]
    <2>1. /\ killed' = [killed EXCEPT ![i[s]] = TRUE] /\ Return(s)
          /\ state' = IF state[i[s]] = "SLEEPING" THEN [state EXCEPT ![i[s]] = "RUNNABLE"] ELSE state
      BY <1>2, Zenon DEF kill, Woken
    <2>2. killed' \in [Slots -> BOOLEAN]
      BY <2>1, Zenon DEF IInv, TypeOK
    <2>3. QED
      BY <1>0, <1>1, <2>1, <2>2, ScanEndsInv, Zenon
  <1>3. CASE pid[i[s]] # arg[s]
    <2>1. UNCHANGED <<state, killed>>
      BY <1>3, Zenon DEF kill
    <2>2. CASE LastSlot(i[s])
      BY <1>0, <1>1, <1>3, <2>1, <2>2, ScanEndsInv, Zenon DEF kill, IInv, TypeOK
    <2>3. CASE ~LastSlot(i[s])
      BY <1>0, <1>3, <2>1, <2>3, ScanNextInv, Zenon DEF kill
    <2>4. QED
      BY <2>2, <2>3, Zenon
  <1>4. QED
    BY <1>2, <1>3, Zenon

\* A process that is not at work changes between running and not running, in
\* scheduler(), yield() or on return from swtch(), or leaves its CPU.
LEMMA SwitchInv ==
  ASSUME IInv, NEW s \in Slots, CpuInv',
         state' \in [Slots -> States], plock' \in [Slots -> BOOLEAN],
         chan' \in [Slots -> Slots \cup {NoProc}], cpu' \in [CPUs -> Slots \cup {NoProc}],
         \/ state'[s] = state[s] /\ chan'[s] = chan[s] /\ pc[s] \notin Holding
         \/ state'[s] = state[s] /\ chan'[s] = NoProc /\ state[s] = "RUNNING" /\ ~plock'[s]
         \/ {state[s], state'[s]} = {"RUNNABLE", "RUNNING"} /\ chan'[s] = chan[s] /\ pc[s] \notin Holding,
         \A t \in Slots : t # s => state'[t] = state[t] /\ plock'[t] = plock[t] /\ chan'[t] = chan[t],
         UNCHANGED <<parent, pid, killed, nextpid, waitlock, pc, i, j, havekids, arg>>
  PROVE  IInv'
  <1>1. \A t \in Slots : \/ state'[t] = state[t]
                         \/ {state[t], state'[t]} = {"RUNNABLE", "RUNNING"}
    BY Zenon
  <1>2. TypeOK'
    BY Zenon DEF IInv, TypeOK
  <1>3. PcInv'
    BY DEF IInv, PcInv, Absent
  <1>4. WaitLockInv'
    BY Zenon DEF IInv, WaitLockInv
  <1>5. ForkInv'
    <2>1. \A t \in Slots : pc[t] \in Forking => i[t] \in Slots
      BY Ranges, Zenon DEF Forking, InForkOrKill
    <2>2. QED
      BY <1>1, <2>1, ZenonT(60) DEF IInv, ForkInv
  <1>6. FamilyInv'
    <2>1. \A t, m \in Slots : HandedOn(t, m)' <=> HandedOn(t, m)
      BY Zenon DEF HandedOn
    <2>2. \A t \in Slots : (Alive(t) => Alive(t)') /\ (state'[t] \notin Absent => state[t] \notin Absent)
      BY <1>1, Zenon DEF Alive, Absent
    <2>3. QED
      BY <2>1, <2>2, SlotFacts, Ranges, Zenon DEF IInv, FamilyInv
  <1>7. ZombieInv'
    <2>1. \A t, m \in Slots : (Scanned(t, m)' <=> Scanned(t, m)) /\ (Woke(t)' <=> Woke(t))
      BY Zenon DEF Scanned, Woke
    <2>2. \A t \in Slots : (state'[t] = "ZOMBIE" => state[t] = "ZOMBIE") /\ (state'[t] = "SLEEPING" => state[t] = "SLEEPING")
      BY <1>1, Zenon
    <2>3. \A m \in Slots : Missed(m)' => Missed(m)
      BY <2>2, Ranges, Zenon DEF Missed
    <2>4. QED
      BY <2>1, <2>2, <2>3, Ranges, ZenonT(60) DEF IInv, ZombieInv
  <1>8. QED
    BY <1>2, <1>3, <1>4, <1>5, <1>6, <1>7, Zenon DEF IInv

\* scheduler() takes a runnable process, which no CPU has: its lock is free.
LEMMA SchedulerInv ==
  ASSUME IInv, NEW c \in CPUs, NEW s \in Slots, scheduler(c, s)
  PROVE  IInv'
  <1>0. /\ cpu[c] = NoProc /\ state[s] = "RUNNABLE" /\ ~plock[s] /\ s # NoProc
        /\ UNCHANGED <<parent, pid, killed, chan, nextpid, waitlock, pc, i, j, havekids, arg>>
    BY SlotFacts, Zenon DEF scheduler, LockFree, locals
  <1>1. /\ state' \in [Slots -> States] /\ state'[s] = "RUNNING"
        /\ plock' \in [Slots -> BOOLEAN] /\ plock'[s]
        /\ \A t \in Slots : t # s => state'[t] = state[t] /\ plock'[t] = plock[t]
    BY Zenon DEF scheduler, IInv, TypeOK, States
  <1>2. /\ cpu' \in [CPUs -> Slots \cup {NoProc}] /\ cpu'[c] = s
        /\ \A d \in CPUs : d # c => cpu'[d] = cpu[d]
    BY Zenon DEF scheduler, IInv, TypeOK
  <1>3. ~OnCpu(s)
    BY <1>0, ZenonT(60) DEF IInv, CpuInv, OnCpu
  <1>4. CpuInv'
    <2>1. OneCpuPerStack'
      BY <1>2, <1>3 DEF IInv, CpuInv, OneCpuPerStack, OnCpu
    <2>2. \A d \in CPUs : cpu[d] = NoProc \/ cpu[d] \in Slots
      BY Zenon DEF IInv, TypeOK
    <2>3. \A d \in CPUs : cpu'[d] # NoProc => state'[cpu'[d]] \notin Absent /\ (state'[cpu'[d]] # "RUNNING" => plock'[cpu'[d]])
      <3> TAKE d \in CPUs
      <3>1. CASE d = c
        BY <1>1, <1>2, <3>1, ZenonT(60) DEF Absent
      <3>2. CASE d # c
        BY <1>1, <1>2, <1>3, <2>2, <3>2 DEF IInv, CpuInv, OnCpu
      <3>3. QED
        BY <3>1, <3>2, ZenonT(60)
    <2>4. \A t \in Slots : plock'[t] \/ state'[t] = "RUNNING" => \E d \in CPUs : cpu'[d] = t
      <3> SUFFICES ASSUME NEW t \in Slots, plock'[t] \/ state'[t] = "RUNNING" PROVE \E d \in CPUs : cpu'[d] = t
        BY Zenon
      <3>1. CASE t = s
        BY <1>2, <3>1, Zenon
      <3>2. CASE t # s
        <4>1. PICK d \in CPUs : cpu[d] = t
          BY <1>1, <3>2, Zenon DEF IInv, CpuInv, OnCpu
        <4>2. d # c
          BY <1>0, <4>1, SlotFacts, Zenon
        <4>3. QED
          BY <1>2, <4>1, <4>2, Zenon
      <3>3. QED
        BY <3>1, <3>2, Zenon
    <2>5. QED
      BY <2>1, <2>3, <2>4, Zenon DEF CpuInv, OnCpu
  <1>5. pc[s] \notin Holding
    BY <1>0, Zenon DEF IInv, WaitLockInv
  <1>6. chan' \in [Slots -> Slots \cup {NoProc}]
    BY <1>0, Zenon DEF IInv, TypeOK
  <1>7. QED
    BY <1>0, <1>1, <1>2, <1>4, <1>5, <1>6, SwitchInv, ZenonT(60)

\* The process that was switched to lets go of its lock.
LEMMA SwtchInInv ==
  ASSUME IInv, NEW s \in Slots, swtch_in(s)
  PROVE  IInv'
  <1>0. /\ OnCpu(s) /\ state[s] = "RUNNING"
        /\ UNCHANGED <<state, parent, pid, killed, nextpid, waitlock, cpu, pc, i, j, havekids, arg>>
    BY Zenon DEF swtch_in, locals
  <1>1. /\ chan' \in [Slots -> Slots \cup {NoProc}] /\ chan'[s] = NoProc
        /\ plock' \in [Slots -> BOOLEAN] /\ ~plock'[s]
        /\ \A t \in Slots : t # s => chan'[t] = chan[t] /\ plock'[t] = plock[t]
    BY Zenon DEF swtch_in, IInv, TypeOK
  <1>2. /\ state' \in [Slots -> States] /\ cpu' \in [CPUs -> Slots \cup {NoProc}]
        /\ \A d \in CPUs : cpu[d] = NoProc \/ cpu[d] \in Slots
    BY <1>0, ZenonT(60) DEF IInv, TypeOK
  <1>3. CpuInv'
    BY <1>0, <1>1, <1>2 DEF IInv, CpuInv, OneCpuPerStack, OnCpu
  <1>4. QED
    BY <1>0, <1>1, <1>2, <1>3, SwitchInv, Zenon

\* scheduler() has the CPU back and unlocks the process that left it.
LEMMA SchedInv ==
  ASSUME IInv, NEW c \in CPUs, sched(c)
  PROVE  IInv'
  <1>0. /\ cpu[c] # NoProc /\ state[cpu[c]] # "RUNNING"
        /\ UNCHANGED <<state, parent, pid, killed, chan, nextpid, waitlock, pc, i, j, havekids, arg>>
    BY Zenon DEF sched, table, locals
  <1>1. /\ \A d \in CPUs : cpu[d] = NoProc \/ cpu[d] \in Slots
        /\ state' \in [Slots -> States] /\ chan' \in [Slots -> Slots \cup {NoProc}]
    BY <1>0, Zenon DEF IInv, TypeOK
  <1>2. /\ cpu' \in [CPUs -> Slots \cup {NoProc}] /\ cpu'[c] = NoProc
        /\ \A d \in CPUs : d # c => cpu'[d] = cpu[d]
    BY Zenon DEF sched, IInv, TypeOK
  <1>3. /\ plock' \in [Slots -> BOOLEAN] /\ ~plock'[cpu[c]]
        /\ \A t \in Slots : t # cpu[c] => plock'[t] = plock[t]
    BY <1>0, <1>1, ZenonT(60) DEF sched, IInv, TypeOK
  <1>4. CpuInv'
    <2>1. OneCpuPerStack' /\ \A d \in CPUs : d # c => cpu[d] # cpu[c]
      BY <1>0, <1>2 DEF IInv, CpuInv, OneCpuPerStack
    <2>2. QED
      BY <1>0, <1>1, <1>2, <1>3, <2>1, SMTT(60) DEF IInv, CpuInv, OnCpu
  <1>5. cpu[c] \in Slots /\ pc[cpu[c]] \notin Holding
    BY <1>0, <1>1, ZenonT(60) DEF IInv, WaitLockInv
  <1>6. QED
    BY <1>0, <1>1, <1>2, <1>3, <1>4, <1>5, SwitchInv, Zenon

\* yield() gives up the CPU, outside of every section of wait_lock.
LEMMA YieldInv ==
  ASSUME IInv, NEW s \in Slots, yield(s)
  PROVE  IInv'
  <1>0. /\ OnCpu(s) /\ state[s] = "RUNNING" /\ waitlock # s
        /\ UNCHANGED <<parent, pid, killed, chan, nextpid, waitlock, cpu, pc, i, j, havekids, arg>>
    BY Zenon DEF yield, Runs, locals
  <1>1. /\ state' \in [Slots -> States] /\ state'[s] = "RUNNABLE"
        /\ plock' \in [Slots -> BOOLEAN] /\ plock'[s]
        /\ \A t \in Slots : t # s => state'[t] = state[t] /\ plock'[t] = plock[t]
    BY Zenon DEF yield, IInv, TypeOK, States
  <1>2. /\ chan' \in [Slots -> Slots \cup {NoProc}] /\ cpu' \in [CPUs -> Slots \cup {NoProc}]
        /\ \A d \in CPUs : cpu[d] = NoProc \/ cpu[d] \in Slots
    BY <1>0, ZenonT(60) DEF IInv, TypeOK
  <1>3. CpuInv'
    BY <1>0, <1>1, <1>2 DEF IInv, CpuInv, OneCpuPerStack, OnCpu, Absent
  <1>4. pc[s] \notin Holding
    BY <1>0, Zenon DEF IInv, WaitLockInv
  <1>5. QED
    BY <1>0, <1>1, <1>2, <1>3, <1>4, SwitchInv

\* Every step of Proc preserves the invariant.
LEMMA NextInv == IInv /\ [Next]_vars => IInv'
  <1> SUFFICES ASSUME IInv, [Next]_vars PROVE IInv'
    BY Zenon
  <1>1. ASSUME NEW s \in Slots, Thread(s) PROVE IInv'
    BY <1>1, UsertrapInv, SyscallReturnInv, AllocprocInv, ForkParentInv, ForkRunInv, ExitInv, ReparentInv,
       WakeupInv, ExitZombieInv, WaitInv, WaitScanInv, SleepInv, KillInv, Zenon DEF Thread
  <1>2. ASSUME NEW s \in Slots, swtch_in(s) \/ yield(s) PROVE IInv'
    BY <1>2, SwtchInInv, YieldInv, Zenon
  <1>3. ASSUME NEW c \in CPUs, sched(c) \/ \E s \in Slots : scheduler(c, s) PROVE IInv'
    BY <1>3, SchedInv, SchedulerInv, ZenonT(60)
  <1>4. CASE UNCHANGED vars
    BY <1>4 DEF vars, IInv, TypeOK, CpuInv, OneCpuPerStack, OnCpu, PcInv, WaitLockInv, ForkInv, FamilyInv,
       HandedOn, Alive, ZombieInv, Scanned, Woke, Missed
  <1>5. QED
    BY <1>1, <1>2, <1>3, <1>4, Zenon DEF Next

\* The invariant holds for every number of process slots and of CPUs.
THEOREM InvariantHolds == Spec => []IInv
  <1>1. QED
    BY InitInv, NextInv, PTL DEF Spec

\* A kernel stack is in use on at most one CPU: what hands p->lock over from
\* sleep(), yield() and exit() to scheduler() and back is enough for that.
THEOREM StacksExclusive == Spec => []OneCpuPerStack
  <1>1. IInv => OneCpuPerStack
    BY Zenon DEF IInv, CpuInv
  <1>2. QED
    BY <1>1, InvariantHolds, PTL

\* wait() frees no process that is still on its way out of exit().
THEOREM StacksNotFreed == Spec => []NoFreedStack
  <1>1. IInv => NoFreedStack
    BY Zenon DEF IInv, CpuInv, NoFreedStack, Absent
  <1>2. QED
    BY <1>1, InvariantHolds, PTL

\* exit() leaves no orphan.
THEOREM ParentsLive == Spec => []LiveParent
  <1>1. IInv => LiveParent
    BY Zenon DEF IInv, FamilyInv, LiveParent, Alive, Absent
  <1>2. QED
    BY <1>1, InvariantHolds, PTL

\* No wakeup is lost between exit() or reparent() and wait().
THEOREM ZombiesNoticed == Spec => []NoMissedZombie
  <1>1. IInv => NoMissedZombie
    BY Zenon DEF IInv, ZombieInv, NoMissedZombie, Missed
  <1>2. QED
    BY <1>1, InvariantHolds, PTL
=============================================================================
