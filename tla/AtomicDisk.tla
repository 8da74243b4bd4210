----------------------------- MODULE AtomicDisk -----------------------------
(***************************************************************************)
(* What the logging layer of kernel/log.c promises the file system: a      *)
(* system call brackets its block writes with begin_op() and end_op(), and *)
(* a crash finds on the disk all the writes of an operation or none.       *)
(*                                                                         *)
(* Nothing here mentions the log, the buffer cache or recovery: Log.tla is *)
(* the detailed specification and implements this one.                     *)
(***************************************************************************)
CONSTANTS Procs,   \* processes that make file-system calls
          Blocks,  \* home block numbers
          Vals     \* block contents

VARIABLES durable, \* what a reboot would find in every home block
          mem,     \* what bread() returns for every home block
          active   \* processes between begin_op() and end_op()

avars == <<durable, mem, active>>

ATypeOK ==
  /\ durable \in [Blocks -> Vals]
  /\ mem \in [Blocks -> Vals]
  /\ active \in SUBSET Procs

AInit ==
  /\ durable \in [Blocks -> Vals]
  /\ mem = durable
  /\ active = {}

ABegin(p) ==
  /\ p \notin active
  /\ active' = active \cup {p}
  /\ UNCHANGED <<durable, mem>>

AWrite(p, b, v) ==
  /\ p \in active
  /\ mem' = [mem EXCEPT ![b] = v]
  /\ UNCHANGED <<durable, active>>

AEnd(p) ==
  /\ p \in active
  /\ active' = active \ {p}
  /\ UNCHANGED <<durable, mem>>

\* Group commit: everything written so far becomes durable in one step, and
\* only when no operation is half done.
ACommit ==
  /\ active = {}
  /\ durable' = mem
  /\ UNCHANGED <<mem, active>>

\* A crash forgets whatever was not committed, and every running operation.
ACrash ==
  /\ mem' = durable
  /\ active' = {}
  /\ UNCHANGED durable

ANext ==
  \/ \E p \in Procs : ABegin(p) \/ AEnd(p)
  \/ \E p \in Procs, b \in Blocks, v \in Vals : AWrite(p, b, v)
  \/ ACommit
  \/ ACrash

ASpec == AInit /\ [][ANext]_avars
=============================================================================
