-------------------------------- MODULE Files --------------------------------
(***************************************************************************)
(* The open file table of kernel/file.c, the descriptors of processes, and *)
(* the system calls of kernel/sysfile.c that make, share and drop them.    *)
(*                                                                         *)
(* A step is a section under ftable.lock or pi->lock.  A process works on  *)
(* its own descriptors alone, so code between two such sections that only  *)
(* touches those belongs to the step before it.  An inode is a count of    *)
(* references here (Inodes has its life), a pipe its two open flags (Pipe  *)
(* has its bytes).                                                         *)
(***************************************************************************)
EXTENDS Integers, Sequences, FiniteSets, FiniteSetsExt, SequencesExt

CONSTANTS Procs, InitProc, NFILE, NOFILE, Pages, Inodes,
          NoPage       \* not a page

ASSUME FilesAssumption ==
  /\ InitProc \in Procs /\ NFILE \in Nat /\ NOFILE \in Nat \ {0}
  /\ NoPage \notin Pages \cup Inodes /\ Pages \cap Inodes = {}

VARIABLES
  file,    \* ftable.file
  ofile,   \* p->ofile
  pipe,    \* for each page: is it a pipe, and which ends are open
  iref,    \* references to each inode
  me,      \* where each process is, and its local variables
  bad      \* a panic

vars == <<file, ofile, pipe, iref, me, bad>>

Files == 1..NFILE
Fds == 0..NOFILE - 1
NoFile == [ref |-> 0, type |-> "none", obj |-> NoPage, w |-> FALSE]
NoPipe == [live |-> FALSE, r |-> FALSE, w |-> FALSE]
Idle == [pc |-> "idle", ip |-> NoPage, rf |-> 0, wf |-> 0, closing |-> <<>>, ff |-> NoFile]
Gone == [Idle EXCEPT !.pc = "gone"]
-----------------------------------------------------------------------------
(* Helpers.  A definition with the name of another one and a suffix is a   *)
(* wrong version of it that no specification uses.                         *)

Go(p, r) == me' = [me EXCEPT ![p] = r]

\* filealloc() takes the first free entry.
FreeFiles == {f \in Files : file[f].ref = 0}
filealloc == [file EXCEPT ![Min(FreeFiles)].ref = 1]

\* fdalloc() takes the lowest free descriptors.
FreeFds(p) == {d \in Fds : ofile[p][d] = 0}

\* p goes on to fileclose() every file of the sequence s.
Closing(s) == [Idle EXCEPT !.pc = "close", !.closing = s]

InodeFile(i) == [ref |-> 1, type |-> "inode", obj |-> i, w |-> TRUE]
PipeFile(k, w) == [ref |-> 1, type |-> "pipe", obj |-> k, w |-> w]

\* filedup().
filedup(f) == [file EXCEPT ![f].ref = @ + 1]

\* iunlockput() when sys_open fails, iput() when a file is closed.
PutInode(i) == [iref EXCEPT ![i] = @ - 1]

Dropped_KeepFirst(p) ==
  IF FreeFds(p) = {} THEN ofile ELSE [ofile EXCEPT ![p][Min(FreeFds(p))] = me[p].rf]

\* When sys_pipe fails, neither file is left in a descriptor.
Dropped(p) == ofile
-----------------------------------------------------------------------------
(* sys_open: the inode, a file, a descriptor.                              *)

sys_open(p, i) ==
  /\ me[p].pc = "idle"
  /\ iref' = [iref EXCEPT ![i] = @ + 1]
  /\ Go(p, [Idle EXCEPT !.pc = "open", !.ip = i])
  /\ UNCHANGED <<file, ofile, pipe, bad>>

\* The file is given its type once it has a descriptor.
open_file(p) ==
  LET f == Min(FreeFiles)
      d == Min(FreeFds(p))
  IN  /\ me[p].pc = "open"
      /\ \/ /\ FreeFiles = {}
            /\ iref' = PutInode(me[p].ip)
            /\ Go(p, Idle)
            /\ UNCHANGED <<file, ofile>>
         \/ /\ FreeFiles # {} /\ FreeFds(p) = {}
            /\ file' = filealloc
            /\ Go(p, [Closing(<<f>>) EXCEPT !.ip = me[p].ip])
            /\ UNCHANGED <<ofile, iref>>
         \/ /\ FreeFiles # {} /\ FreeFds(p) # {}
            /\ file' = [filealloc EXCEPT ![f] = InodeFile(me[p].ip)]
            /\ ofile' = [ofile EXCEPT ![p][d] = f]
            /\ Go(p, Idle)
            /\ UNCHANGED iref
      /\ UNCHANGED <<pipe, bad>>

\* The end of a failed sys_open, after fileclose().
open_put(p) ==
  /\ me[p].pc = "put"
  /\ iref' = PutInode(me[p].ip)
  /\ Go(p, Idle)
  /\ UNCHANGED <<file, ofile, pipe, bad>>
-----------------------------------------------------------------------------
(* sys_pipe: two files, a page, two descriptors.                           *)

pipe_rf(p) ==
  /\ me[p].pc = "idle" /\ FreeFiles # {}
  /\ file' = filealloc
  /\ Go(p, [Idle EXCEPT !.pc = "pipe", !.rf = Min(FreeFiles)])
  /\ UNCHANGED <<ofile, pipe, iref, bad>>

pipe_wf(p) ==
  /\ me[p].pc = "pipe" /\ me[p].wf = 0
  /\ \/ /\ FreeFiles = {}
        /\ Go(p, Closing(<<me[p].rf>>))
        /\ UNCHANGED file
     \/ /\ FreeFiles # {}
        /\ file' = filealloc
        /\ Go(p, [me[p] EXCEPT !.wf = Min(FreeFiles)])
  /\ UNCHANGED <<ofile, pipe, iref, bad>>

\* kalloc() fails,
pipe_nopage(p) ==
  /\ me[p].pc = "pipe" /\ me[p].wf # 0
  /\ Go(p, Closing(<<me[p].rf, me[p].wf>>))
  /\ UNCHANGED <<file, ofile, pipe, iref, bad>>

\* ... or the pipe is made, and sys_pipe succeeds, or fails for want of a
\* descriptor or because copyout() does.
pipe_page(p, k) ==
  LET rf == me[p].rf
      wf == me[p].wf
      d0 == Min(FreeFds(p))
      d1 == Min(FreeFds(p) \ {d0})
  IN  /\ me[p].pc = "pipe" /\ wf # 0 /\ ~pipe[k].live
      /\ pipe' = [pipe EXCEPT ![k] = [live |-> TRUE, r |-> TRUE, w |-> TRUE]]
      /\ file' = [file EXCEPT ![rf] = PipeFile(k, FALSE), ![wf] = PipeFile(k, TRUE)]
      /\ \/ /\ Cardinality(FreeFds(p)) >= 2
            /\ ofile' = [ofile EXCEPT ![p][d0] = rf, ![p][d1] = wf]
            /\ Go(p, Idle)
         \/ /\ ofile' = Dropped(p)
            /\ Go(p, Closing(<<rf, wf>>))
      /\ UNCHANGED <<iref, bad>>
-----------------------------------------------------------------------------
(* Sharing and dropping.                                                   *)

sys_dup(p, d) ==
  LET f == ofile[p][d] IN
  /\ me[p].pc = "idle" /\ f # 0 /\ FreeFds(p) # {}
  /\ ofile' = [ofile EXCEPT ![p][Min(FreeFds(p))] = f]
  /\ file' = filedup(f)
  /\ bad' = (bad \/ file[f].ref < 1)
  /\ UNCHANGED <<pipe, iref, me>>

sys_close(p, d) ==
  /\ me[p].pc = "idle" /\ ofile[p][d] # 0
  /\ ofile' = [ofile EXCEPT ![p][d] = 0]
  /\ Go(p, Closing(<<ofile[p][d]>>))
  /\ UNCHANGED <<file, pipe, iref, bad>>

\* fork() calls filedup() for each descriptor.
fork(p, c) ==
  LET copies(f) == Cardinality({d \in Fds : ofile[p][d] = f}) IN
  /\ me[p].pc = "idle" /\ me[c].pc = "gone"
  /\ file' = [f \in Files |-> [file[f] EXCEPT !.ref = @ + copies(f)]]
  /\ bad' = (bad \/ \E f \in Files : copies(f) > 0 /\ file[f].ref < 1)
  /\ ofile' = [ofile EXCEPT ![c] = ofile[p]]
  /\ Go(c, Idle)
  /\ UNCHANGED <<pipe, iref>>

\* exit() closes every descriptor, in order.
exit(p) ==
  LET open == SelectSeq([d \in 1..NOFILE |-> ofile[p][d - 1]], LAMBDA f : f # 0) IN
  /\ me[p].pc = "idle" /\ p # InitProc
  /\ ofile' = [ofile EXCEPT ![p] = [d \in Fds |-> 0]]
  /\ Go(p, IF open = <<>> THEN Gone ELSE [Closing(open) EXCEPT !.ip = NoPage, !.rf = -1])
  /\ UNCHANGED <<file, pipe, iref, bad>>

\* What p does after its last fileclose(): sys_open has an inode to put, exit
\* (rf = -1) ends.
After(p) ==
  CASE me[p].ip # NoPage -> [Idle EXCEPT !.pc = "put", !.ip = me[p].ip]
    [] me[p].rf = -1 -> Gone
    [] OTHER -> Idle

Advance(p) ==
  IF Len(me[p].closing) = 1 THEN After(p)
  ELSE [me[p] EXCEPT !.pc = "close", !.closing = Tail(@), !.ff = NoFile]

\* --f->ref > 0.
LastClose(f) == file[f].ref = 1

Forget_Not(f) == [file EXCEPT ![f].ref = @ - 1]

\* The entry is free again.
Forget(f) == [file EXCEPT ![f] = NoFile]

\* fileclose(): under ftable.lock,
fileclose(p) ==
  LET f == Head(me[p].closing) IN
  /\ me[p].pc = "close"
  /\ bad' = (bad \/ file[f].ref < 1)
  /\ \/ /\ ~LastClose(f)
        /\ file' = [file EXCEPT ![f].ref = @ - 1]
        /\ Go(p, Advance(p))
     \/ /\ LastClose(f)
        /\ file' = Forget(f)
        /\ Go(p, [me[p] EXCEPT !.pc = "drop", !.ff = file[f]])
  /\ UNCHANGED <<ofile, pipe, iref>>

\* ... and, after the last reference, without it: pipeclose() or iput().
fileclose_drop(p) ==
  LET ff == me[p].ff
      k == ff.obj
      left == [pipe[k] EXCEPT !.w = @ /\ ~ff.w, !.r = @ /\ ff.w]
  IN  /\ me[p].pc = "drop"
      /\ \/ /\ ff.type = "pipe"
            /\ pipe' = [pipe EXCEPT ![k] = IF left.r \/ left.w THEN left ELSE NoPipe]
            /\ bad' = (bad \/ ~pipe[k].live)
            /\ UNCHANGED iref
         \/ /\ ff.type = "inode"
            /\ iref' = PutInode(k)
            /\ UNCHANGED <<pipe, bad>>
         \/ /\ ff.type = "none"
            /\ UNCHANGED <<pipe, iref, bad>>
      /\ Go(p, Advance(p))
      /\ UNCHANGED <<file, ofile>>
-----------------------------------------------------------------------------
Init ==
  /\ file = [f \in Files |-> NoFile]
  /\ ofile = [p \in Procs |-> [d \in Fds |-> 0]]
  /\ pipe = [k \in Pages |-> NoPipe]
  /\ iref = [i \in Inodes |-> 0]
  /\ me = [p \in Procs |-> IF p = InitProc THEN Idle ELSE Gone]
  /\ bad = FALSE

Step(p) ==
  \/ \E i \in Inodes : sys_open(p, i)
  \/ open_file(p) \/ open_put(p)
  \/ pipe_rf(p) \/ pipe_wf(p) \/ pipe_nopage(p)
  \/ \E k \in Pages : pipe_page(p, k)
  \/ \E d \in Fds : sys_dup(p, d) \/ sys_close(p, d)
  \/ \E c \in Procs : fork(p, c)
  \/ exit(p) \/ fileclose(p) \/ fileclose_drop(p)

Next == ~bad /\ \E p \in Procs : Step(p)

Spec == Init /\ [][Next]_vars
-----------------------------------------------------------------------------
(* Properties.                                                             *)

\* The type of every variable.
TypeOK ==
  /\ \A f \in Files : file[f].ref \in Nat /\ file[f].type \in {"none", "pipe", "inode"}
  /\ ofile \in [Procs -> [Fds -> Files \cup {0}]]
  /\ pipe \in [Pages -> [live : BOOLEAN, r : BOOLEAN, w : BOOLEAN]]
  /\ iref \in [Inodes -> Nat] /\ bad \in BOOLEAN

InHand(p, f) == Cardinality({j \in DOMAIN me[p].closing : me[p].closing[j] = f})
                  + (IF me[p].pc = "pipe" /\ f \in {me[p].rf, me[p].wf} THEN 1 ELSE 0)
                  - (IF me[p].pc = "drop" /\ Head(me[p].closing) = f THEN 1 ELSE 0)

\* f->ref is the number of descriptors of all processes that mean f, plus the
\* references system calls under way hold; a free entry has no type, so that
\* closing a half-made file never closes what the entry was before; and each
\* inode has one reference for each file open on it and each call that is
\* about to open or close one.  Neither filedup() nor fileclose() panics, and
\* no pipe is freed twice.
FileRefs ==
  /\ TypeOK /\ ~bad
  /\ \A f \in Files :
       /\ file[f].ref = Cardinality({x \in Procs \X Fds : ofile[x[1]][x[2]] = f})
                        + MapThenSumSet(LAMBDA p : InHand(p, f), Procs)
       /\ file[f].ref = 0 => file[f].type = "none"
  /\ \A i \in Inodes :
       iref[i] = Cardinality({f \in Files : file[f].ref > 0 /\ file[f].obj = i})
                 + Cardinality({p \in Procs : me[p].ip = i})
                 + Cardinality({p \in Procs : me[p].pc = "drop" /\ me[p].ff.obj = i})

OpenAs(k, w) ==
  \/ \E f \in Files : file[f].ref > 0 /\ file[f].type = "pipe" /\ file[f].obj = k /\ file[f].w = w
  \/ \E p \in Procs : me[p].pc = "drop" /\ me[p].ff = PipeFile(k, w)

\* An end of a pipe is open as long as some process has it open or is just
\* closing it, and not longer: the other end sees end of file, or a broken
\* pipe, exactly when it should.  A page is a pipe while an end is open.
EndsMatch ==
  \A k \in Pages :
    /\ pipe[k].r = OpenAs(k, FALSE) /\ pipe[k].w = OpenAs(k, TRUE)
    /\ pipe[k].live = (pipe[k].r \/ pipe[k].w)
=============================================================================
