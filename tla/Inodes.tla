------------------------------- MODULE Inodes -------------------------------
(***************************************************************************)
(* The inode layer of kernel/fs.c (inode table, inode and block            *)
(* allocation, directories, path lookup) under the system calls of         *)
(* kernel/sysfile.c that use it: open, create, mkdir, link, unlink, write  *)
(* and close.  Paths have one or two elements and start at the root.       *)
(*                                                                         *)
(* A step is a section under a spinlock or the part of an operation        *)
(* between two points where it may wait.  Disk inodes, the bitmap and      *)
(* directory entries are changed through locked buffers (Bcache) in        *)
(* transactions (Log): a crash leaves the disk as it was at some moment    *)
(* when no operation was under way, so Crash acts in those states.         *)
(***************************************************************************)
EXTENDS Integers, FiniteSets

CONSTANTS Procs,
          NINODE,      \* entries of the inode table
          NINUM,       \* inodes on the disk; the root is number 1
          Names, Blocks,
          Here,        \* the path is a single name in the root directory
          Nobody, NoName,
          Kinds,       \* the calls with a path that processes make
          Crashes      \* whether the machine crashes

ASSUME InodesAssumption ==
  /\ NINODE \in Nat \ {0} /\ NINUM \in Nat \ {0} /\ Crashes \in BOOLEAN
  /\ Kinds \subseteq {"open", "create", "mkdir", "unlink", "link"}
  /\ Nobody \notin Procs /\ {Here, NoName} \cap Names = {}

Slots == 1..NINODE
Inums == 1..NINUM
Root == 1      \* the root's inode number, and its entry in the table

VARIABLES
  dino,     \* disk inodes: type, nlink and block addresses
  ents,     \* the entries of each directory
  bitmap,   \* blocks marked in use
  inum, ref, valid, lock,  \* itable.inode[]
  mem,      \* the fields of an inode table entry that copy the disk inode
  me,       \* each process: where it is and its local variables
  fd,       \* the table entry of the file a process has open, or 0
  panicked

ondisk == <<dino, ents, bitmap>>
itable == <<inum, ref, valid, lock, mem>>
vars == <<ondisk, itable, me, fd, panicked>>

Free == [type |-> "none", nlink |-> 0, addrs |-> {}]
Empty == [n \in Names |-> 0]
Idle == [pc |-> "idle", kind |-> "none", pre |-> Here, nm |-> NoName, new |-> 0,
         dp |-> 0, ip |-> 0, vic |-> 0, ret |-> "idle"]
-----------------------------------------------------------------------------
(* Helpers.  A definition with the name of another one and a suffix is a   *)
(* wrong version of it that no specification uses.                         *)

Go(p, r) == me' = [me EXCEPT ![p] = r]

\* p calls iput(s) and goes on at l, where it looks at no name any more.
Put(p, s, l) ==
  [(IF l = "idle" THEN Idle ELSE me[p]) EXCEPT !.pc = "put", !.vic = s, !.ret = l,
                                               !.pre = Here, !.nm = NoName, !.new = 0]

\* Where p goes on when a path does not lead anywhere.
FailPc(p) == IF me[p].kind = "link2" THEN "undo" ELSE "idle"

Unlock(S) == lock' = [s \in Slots |-> IF s \in S THEN Nobody ELSE lock[s]]

\* The table entry s is in use for inode i.
Hit(i, s) == ref[s] > 0 /\ inum[s] = i

\* iget(): s is the entry for inode i; NoSlot and a panic if there is none.
\* v is the value of valid before it.
NoSlot == 0
iget(i, s, v) ==
  \/ /\ s \in Slots /\ Hit(i, s)
     /\ ref' = [ref EXCEPT ![s] = @ + 1]
     /\ valid' = v
     /\ UNCHANGED <<inum, panicked>>
  \/ /\ \A t \in Slots : ~Hit(i, t)
     /\ s \in Slots /\ ref[s] = 0 /\ \A t \in Slots : t < s => ref[t] > 0
     /\ inum' = [inum EXCEPT ![s] = i]
     /\ ref' = [ref EXCEPT ![s] = 1]
     /\ valid' = [v EXCEPT ![s] = FALSE]
     /\ UNCHANGED panicked
  \/ /\ \A t \in Slots : ~Hit(i, t) /\ ref[t] > 0
     /\ s = NoSlot
     /\ panicked' = "full" /\ valid' = v
     /\ UNCHANGED <<inum, ref>>

\* ilock() can take entry s (it panics if the disk inode is free: NoBugPanic),
\* what it reads or finds there,
CanLock(s) == lock[s] = Nobody /\ (valid[s] \/ dino[inum[s]].type # "none")
Load(s) == IF valid[s] THEN mem[s] ELSE dino[inum[s]]

\* ... and what it leaves in the entry.
Validate(s) == [valid EXCEPT ![s] = TRUE]
Locked(s) == /\ valid' = Validate(s)
             /\ mem' = [mem EXCEPT ![s] = Load(s)]

\* iupdate(): the inode r of entry s goes to memory and to disk.
iupdate(s, r) ==
  /\ mem' = [mem EXCEPT ![s] = r]
  /\ dino' = [dino EXCEPT ![inum[s]] = r]

\* ip->nlink++ and ip->nlink--.
AddLink(r, n) == [r EXCEPT !.nlink = @ + n]

LastRef_IgnoreOthers(s) == valid[s] /\ mem[s].nlink = 0

\* iput(): the last reference to an inode without links.
LastRef(s) == ref[s] = 1 /\ valid[s] /\ mem[s].nlink = 0

Invalidate_Not(s) == valid

\* iput(): ip->valid = 0 for an inode it has freed.
Invalidate(s) == [valid EXCEPT ![s] = FALSE]

\* itrunc(): bfree() every block.
Truncated(s) == bitmap \ Load(s).addrs

isdirempty(i) == ents[i] = Empty
-----------------------------------------------------------------------------
(* Path lookup.                                                            *)

\* namex() in the root directory, for the call r.
Walk(p, r) ==
  /\ lock[Root] = Nobody
  /\ \/ /\ r.pre = Here
        /\ ref' = [ref EXCEPT ![Root] = @ + 1]
        /\ Go(p, [r EXCEPT !.pc = "dlock", !.dp = Root])
        /\ UNCHANGED <<inum, valid, panicked>>
     \/ /\ r.pre # Here /\ ents[Root][r.pre] = 0
        /\ Go(p, IF r.kind = "link2" THEN [r EXCEPT !.pc = "undo", !.pre = Here, !.nm = NoName] ELSE Idle)
        /\ UNCHANGED <<inum, ref, valid, panicked>>
     \/ /\ r.pre # Here /\ ents[Root][r.pre] # 0
        /\ \E s \in Slots \cup {NoSlot} :
             /\ iget(ents[Root][r.pre], s, valid)
             /\ Go(p, [r EXCEPT !.pc = "wlock", !.dp = s])
  /\ UNCHANGED <<ondisk, lock, mem, fd>>

\* A system call begins.  A process has at most one file open.
start(p, k, m, n) ==
  /\ me[p].pc = "idle"
  /\ k \in {"open", "create"} => fd[p] = 0
  /\ Walk(p, [Idle EXCEPT !.kind = k, !.pre = m, !.nm = n])

\* The second path of sys_link().
walk(p) == me[p].pc = "walk" /\ Walk(p, me[p])

\* The entry whose lock p waits for.
Wanted(p) == CASE me[p].pc \in {"wlock", "dlock"} -> me[p].dp
               [] me[p].pc \in {"lock", "undo"} -> me[p].ip
               [] me[p].pc = "flock" -> fd[p]
               [] OTHER -> 0

Finds(p) == me[p].kind \in {"open", "link"}

\* namex() at the second element: fail on a file; nameiparent() gives up the
\* lock, namei() keeps it to look the name up.
walk2(p) ==
  LET s == me[p].dp IN
  /\ me[p].pc = "wlock" /\ CanLock(s)
  /\ \/ /\ Load(s).type # "dir"
        /\ Go(p, [Put(p, s, FailPc(p)) EXCEPT !.dp = 0])
     \/ /\ Load(s).type = "dir" /\ ~Finds(p)
        /\ Go(p, [me[p] EXCEPT !.pc = "dlock"])
  /\ Locked(s)
  /\ UNCHANGED <<ondisk, inum, ref, lock, fd, panicked>>

\* p has the directory locked and looks the name up in it.
AtDir(p) ==
  /\ me[p].pc \in {"dlock", "wlock"} /\ CanLock(me[p].dp)
  /\ me[p].pc = "wlock" => Finds(p) /\ Load(me[p].dp).type = "dir"

\* dirlookup() finds the name: open, link and create let go of the directory.
found(p) ==
  LET s == me[p].dp
      i == ents[inum[s]][me[p].nm]
  IN  /\ AtDir(p) /\ i # 0
      /\ me[p].kind # "link2"
      /\ \E t \in Slots \cup {NoSlot} :
           /\ iget(i, t, Validate(s))
           /\ IF me[p].kind = "unlink"
              THEN /\ Go(p, [me[p] EXCEPT !.pc = "lock", !.ip = t, !.pre = Here])
                   /\ lock' = [lock EXCEPT ![s] = p]
              ELSE /\ Go(p, [Put(p, s, "lock") EXCEPT !.ip = t, !.dp = 0])
                   /\ UNCHANGED lock
      /\ mem' = [mem EXCEPT ![s] = Load(s)]
      /\ UNCHANGED <<ondisk, fd>>

\* It does not: create goes on to ialloc(), link makes the entry, the others
\* fail.  Link fails if the name is there.
missing(p) ==
  LET s == me[p].dp
      d == inum[s]
  IN  /\ AtDir(p)
      /\ ents[d][me[p].nm] = 0 \/ me[p].kind = "link2"
      /\ \/ /\ me[p].kind \in {"create", "mkdir"}
            /\ Go(p, [me[p] EXCEPT !.pc = "ialloc", !.pre = Here])
            /\ lock' = [lock EXCEPT ![s] = p]
            /\ UNCHANGED ents
         \/ /\ me[p].kind = "link2" /\ ents[d][me[p].nm] = 0
            /\ ents' = [ents EXCEPT ![d][me[p].nm] = inum[me[p].ip]]
            /\ Go(p, [Put(p, s, "linked") EXCEPT !.dp = 0])
            /\ UNCHANGED lock
         \/ /\ me[p].kind \in {"open", "link", "unlink"} \/ ents[d][me[p].nm] # 0
            /\ Go(p, [Put(p, s, FailPc(p)) EXCEPT !.dp = 0])
            /\ UNCHANGED <<ents, lock>>
      /\ Locked(s)
      /\ UNCHANGED <<dino, bitmap, inum, ref, fd, panicked>>
-----------------------------------------------------------------------------
(* The system calls.                                                       *)

\* ialloc() marks a free disk inode allocated (the scan takes several steps
\* and may pass an inode that is freed behind it),
ialloc(p) ==
  LET free == {i \in Inums : dino[i].type = "none"}
      type == IF me[p].kind = "mkdir" THEN "dir" ELSE "file"
  IN  /\ me[p].pc = "ialloc"
      /\ \/ \E i \in free :
              /\ dino' = [dino EXCEPT ![i] = [Free EXCEPT !.type = type]]
              /\ Go(p, [me[p] EXCEPT !.pc = "iget", !.new = i])
              /\ UNCHANGED panicked
         \/ /\ free = {}
            /\ panicked' = "full"
            /\ UNCHANGED <<dino, me>>
      /\ UNCHANGED <<ents, bitmap, itable, fd>>

\* ... and then gets a table entry for it.
ialloc_iget(p) ==
  /\ me[p].pc = "iget"
  /\ \E s \in Slots \cup {NoSlot} :
       iget(me[p].new, s, valid) /\ Go(p, [me[p] EXCEPT !.pc = "lock", !.ip = s])
  /\ UNCHANGED <<ondisk, lock, mem, fd>>

ParentLink_Not(k) == 0

\* A new directory counts as a link to its parent, for "..".
ParentLink(k) == IF k = "mkdir" THEN 1 ELSE 0

\* create() locks the new inode and links it into the directory.
create(p) ==
  LET d == me[p].dp
      i == me[p].ip
      dir == AddLink(mem[d], ParentLink(me[p].kind))
      ino == [Load(i) EXCEPT !.nlink = 1]
  IN  /\ me[p].pc = "lock" /\ me[p].kind \in {"create", "mkdir"} /\ me[p].new # 0
      /\ CanLock(i)
      /\ mem' = [mem EXCEPT ![d] = dir, ![i] = ino]
      /\ valid' = Validate(i)
      /\ dino' = [dino EXCEPT ![inum[d]] = dir, ![inum[i]] = ino]
      /\ ents' = [ents EXCEPT ![inum[d]][me[p].nm] = inum[i]]
      /\ lock' = [lock EXCEPT ![d] = Nobody, ![i] = p]
      /\ Go(p, [Put(p, d, "opened") EXCEPT !.dp = 0])
      /\ UNCHANGED <<bitmap, inum, ref, fd, panicked>>

\* sys_open(), sys_mkdir(): p has the inode locked, found or created.
AtInode(p) ==
  /\ me[p].kind \in {"open", "create", "mkdir"}
  /\ \/ me[p].pc = "lock" /\ me[p].new = 0 /\ CanLock(me[p].ip)
     \/ me[p].pc = "opened"

\* sys_open(): truncate the file if asked to and keep the reference as an
\* open file,
open(p) ==
  LET i == me[p].ip IN
  /\ AtInode(p)
  /\ me[p].kind = "open" \/ (me[p].kind = "create" /\ Load(i).type = "file")
  /\ \/ /\ Load(i).type = "file"
        /\ iupdate(i, [Load(i) EXCEPT !.addrs = {}])
        /\ bitmap' = Truncated(i)
        /\ panicked' = IF Load(i).addrs \subseteq bitmap THEN panicked ELSE "bug"
     \/ /\ mem' = [mem EXCEPT ![i] = Load(i)]
        /\ UNCHANGED <<dino, bitmap, panicked>>
  /\ valid' = Validate(i)
  /\ fd' = [fd EXCEPT ![p] = i]
  /\ Unlock({i})
  /\ Go(p, Idle)
  /\ UNCHANGED <<ents, inum, ref>>

\* ... or fail (no file, wrong type), or be done (mkdir).
open_put(p) ==
  /\ AtInode(p)
  /\ Locked(me[p].ip)
  /\ Unlock({me[p].ip})
  /\ Go(p, [Put(p, me[p].ip, "idle") EXCEPT !.ip = 0])
  /\ UNCHANGED <<ondisk, inum, ref, fd, panicked>>

\* sys_unlink() locks the inode too: clear the entry, let go of the directory.
unlink(p) ==
  LET d == me[p].dp
      i == me[p].ip
      isdir == Load(i).type = "dir"
      dir == AddLink(mem[d], IF isdir THEN -1 ELSE 0)
  IN  /\ me[p].pc = "lock" /\ me[p].kind = "unlink" /\ CanLock(i)
      /\ panicked' = IF Load(i).nlink < 1 THEN "bug" ELSE panicked
      /\ IF isdir /\ ~isdirempty(inum[i])
         THEN /\ Go(p, [Put(p, i, "bad") EXCEPT !.ip = 0])
              /\ mem' = [mem EXCEPT ![i] = Load(i)]
              /\ UNCHANGED <<dino, ents, lock>>
         ELSE /\ ents' = [ents EXCEPT ![inum[d]][me[p].nm] = 0]
              /\ mem' = [mem EXCEPT ![d] = dir, ![i] = Load(i)]
              /\ dino' = [dino EXCEPT ![inum[d]] = dir]
              /\ lock' = [lock EXCEPT ![d] = Nobody, ![i] = p]
              /\ Go(p, [Put(p, d, "drop") EXCEPT !.dp = 0])
      /\ valid' = Validate(i)
      /\ UNCHANGED <<bitmap, inum, ref, fd>>

unlink_bad(p) ==
  /\ me[p].pc = "bad"
  /\ Unlock({me[p].dp})
  /\ Go(p, [Put(p, me[p].dp, "idle") EXCEPT !.dp = 0])
  /\ UNCHANGED <<ondisk, inum, ref, valid, mem, fd, panicked>>

\* The end of sys_unlink(), and of sys_link() when it fails: nlink--.
drop(p) ==
  LET i == me[p].ip IN
  /\ me[p].pc = "drop" \/ (me[p].pc = "undo" /\ CanLock(i))
  /\ iupdate(i, AddLink(Load(i), -1))
  /\ valid' = Validate(i)
  /\ Unlock({i})
  /\ Go(p, [Put(p, i, "idle") EXCEPT !.ip = 0])
  /\ UNCHANGED <<ents, bitmap, inum, ref, fd, panicked>>

\* sys_link() counts the new link before it makes the entry.
link(p, m, n) ==
  LET i == me[p].ip IN
  /\ me[p].pc = "lock" /\ me[p].kind = "link" /\ CanLock(i)
  /\ \/ /\ Load(i).type = "dir"
        /\ Go(p, [Put(p, i, "idle") EXCEPT !.ip = 0])
        /\ mem' = [mem EXCEPT ![i] = Load(i)]
        /\ UNCHANGED dino
     \/ /\ Load(i).type # "dir"
        /\ iupdate(i, AddLink(Load(i), 1))
        /\ Go(p, [me[p] EXCEPT !.pc = "walk", !.kind = "link2", !.pre = m, !.nm = n])
  /\ valid' = Validate(i)
  /\ UNCHANGED <<ents, bitmap, inum, ref, lock, fd, panicked>>

\* filewrite() to a file (a directory is open for reading only): lock it,
write(p) ==
  /\ me[p].pc = "idle" /\ fd[p] # 0 /\ mem[fd[p]].type = "file"
  /\ Go(p, [Idle EXCEPT !.pc = "flock"])
  /\ UNCHANGED <<ondisk, itable, fd, panicked>>

\* ... and let bmap() allocate a block.
writei(p) ==
  LET i == fd[p] IN
  /\ me[p].pc = "flock" /\ CanLock(i)
  /\ \/ \E k \in Blocks \ bitmap :
          /\ bitmap' = bitmap \cup {k}
          /\ iupdate(i, [Load(i) EXCEPT !.addrs = @ \cup {k}])
          /\ UNCHANGED panicked
     \/ /\ bitmap = Blocks
        /\ panicked' = "full"
        /\ mem' = [mem EXCEPT ![i] = Load(i)]
        /\ UNCHANGED <<bitmap, dino>>
  /\ valid' = Validate(i)
  /\ Go(p, Idle)
  /\ UNCHANGED <<ents, inum, ref, lock, fd>>

\* fileclose().
close(p) ==
  /\ me[p].pc = "idle" /\ fd[p] # 0
  /\ fd' = [fd EXCEPT ![p] = 0]
  /\ Go(p, Put(p, fd[p], "idle"))
  /\ UNCHANGED <<ondisk, itable, panicked>>
-----------------------------------------------------------------------------
(* iput().                                                                 *)

Unref_Not(s) == ref

\* ip->ref--.
Unref(s) == [ref EXCEPT ![s] = @ - 1]

\* The fields of an entry without references are dead: iget() sets them.
Release(s) ==
  /\ ref' = Unref(s)
  /\ inum' = [inum EXCEPT ![s] = IF ref'[s] = 0 THEN Root ELSE @]
  /\ valid' = [valid EXCEPT ![s] = @ /\ ref'[s] > 0]
  /\ mem' = [mem EXCEPT ![s] = IF ref'[s] = 0 THEN Free ELSE @]

\* Where p goes on after iput(); sys_link() puts the inode after its directory.
Back(p) == CASE me[p].ret = "idle" -> Idle
             [] me[p].ret = "linked" -> [Put(p, me[p].ip, "idle") EXCEPT !.ip = 0]
             [] OTHER -> [me[p] EXCEPT !.pc = me[p].ret, !.vic = 0]

\* Drop a reference, or lock an inode to be freed.  acquiresleep() is called
\* with itable.lock held: to wait there would be a panic in sched().
iput(p) ==
  LET s == me[p].vic IN
  /\ me[p].pc = "put"
  /\ IF LastRef(s)
     THEN /\ panicked' = IF lock[s] = Nobody THEN panicked ELSE "bug"
          /\ lock' = [lock EXCEPT ![s] = p]
          /\ Go(p, [me[p] EXCEPT !.pc = "itrunc"])
          /\ UNCHANGED <<inum, ref, valid, mem>>
     ELSE /\ Release(s)
          /\ Go(p, Back(p))
          /\ UNCHANGED <<lock, panicked>>
  /\ UNCHANGED <<ondisk, fd>>

itrunc(p) ==
  LET s == me[p].vic IN
  /\ me[p].pc = "itrunc"
  /\ panicked' = IF mem[s].addrs \subseteq bitmap THEN panicked ELSE "bug"
  /\ bitmap' = Truncated(s)
  /\ ents' = [ents EXCEPT ![inum[s]] = Empty]
  /\ iupdate(s, [mem[s] EXCEPT !.addrs = {}])
  /\ Go(p, [me[p] EXCEPT !.pc = "ifree"])
  /\ UNCHANGED <<inum, ref, valid, lock, fd>>

\* type = 0 on the disk: from here on ialloc() may give the inode away.
iput_free(p) ==
  /\ me[p].pc = "ifree"
  /\ iupdate(me[p].vic, [mem[me[p].vic] EXCEPT !.type = "none"])
  /\ Go(p, [me[p] EXCEPT !.pc = "invalidate"])
  /\ UNCHANGED <<ents, bitmap, inum, ref, valid, lock, fd, panicked>>

iput_unlock(p) ==
  /\ me[p].pc = "invalidate"
  /\ valid' = Invalidate(me[p].vic)
  /\ Unlock({me[p].vic})
  /\ Go(p, [me[p] EXCEPT !.pc = "unref"])
  /\ UNCHANGED <<ondisk, inum, ref, mem, fd, panicked>>

iput_unref(p) ==
  /\ me[p].pc = "unref"
  /\ Release(me[p].vic)
  /\ Go(p, Back(p))
  /\ UNCHANGED <<ondisk, lock, fd, panicked>>
-----------------------------------------------------------------------------
Quiescent == \A p \in Procs : me[p].pc = "idle"

\* Only the root directory is in the table.
Rebooted ==
  /\ inum' = [s \in Slots |-> Root]
  /\ ref' = [s \in Slots |-> IF s = Root THEN 1 ELSE 0]
  /\ valid' = [s \in Slots |-> FALSE]
  /\ mem' = [s \in Slots |-> Free]
  /\ lock' = [s \in Slots |-> Nobody]
  /\ fd' = [p \in Procs |-> 0]

Crash ==
  /\ Crashes /\ Quiescent
  /\ Rebooted
  /\ UNCHANGED <<ondisk, me, panicked>>

\* The disk mkfs makes, and init's current directory.
Init ==
  /\ dino = [i \in Inums |-> IF i = Root THEN [Free EXCEPT !.type = "dir", !.nlink = 1] ELSE Free]
  /\ ents = [i \in Inums |-> Empty]
  /\ bitmap = {}
  /\ inum = [s \in Slots |-> Root]
  /\ ref = [s \in Slots |-> IF s = Root THEN 1 ELSE 0]
  /\ valid = [s \in Slots |-> FALSE]
  /\ mem = [s \in Slots |-> Free]
  /\ lock = [s \in Slots |-> Nobody]
  /\ me = [p \in Procs |-> Idle]
  /\ fd = [p \in Procs |-> 0]
  /\ panicked = "no"

Call(p) ==
  \/ \E m \in Names \cup {Here}, n \in Names :
       \/ \E k \in Kinds : start(p, k, m, n)
       \/ link(p, m, n)
  \/ write(p) \/ close(p)

Step(p) ==
  \/ walk(p) \/ walk2(p) \/ found(p) \/ missing(p)
  \/ ialloc(p) \/ ialloc_iget(p) \/ create(p) \/ open(p) \/ open_put(p)
  \/ unlink(p) \/ unlink_bad(p) \/ drop(p) \/ writei(p)
  \/ iput(p) \/ itrunc(p) \/ iput_free(p) \/ iput_unlock(p) \/ iput_unref(p)

Halted == panicked # "no" /\ UNCHANGED vars

Next ==
  \/ panicked = "no" /\ (Crash \/ \E p \in Procs : Call(p) \/ Step(p))
  \/ Halted

Spec == Init /\ [][Next]_vars
-----------------------------------------------------------------------------
(* Properties.                                                             *)

\* The type of every variable.
TypeOK ==
  /\ \A i \in Inums : dino[i].type \in {"none", "file", "dir"} /\ dino[i].nlink \in Nat
                        /\ dino[i].addrs \subseteq Blocks
  /\ ents \in [Inums -> [Names -> Inums \cup {0}]] /\ bitmap \subseteq Blocks
  /\ inum \in [Slots -> Inums] /\ ref \in [Slots -> Nat] /\ valid \in [Slots -> BOOLEAN]
  /\ lock \in [Slots -> Procs \cup {Nobody}] /\ fd \in [Procs -> Slots \cup {0}]
  /\ panicked \in {"no", "full", "bug"}

\* ip->ref counts the pointers to a table entry: open files, local variables
\* and, for the root, a current directory.
RefsCounted ==
  panicked = "no" =>
    \A s \in Slots :
      ref[s] = Cardinality({p \in Procs : fd[p] = s}) + Cardinality({p \in Procs : me[p].dp = s})
               + Cardinality({p \in Procs : me[p].ip = s}) + Cardinality({p \in Procs : me[p].vic = s})
               + (IF s = Root THEN 1 ELSE 0)

\* No inode has two table entries, so its lock protects it; and an unlocked
\* valid entry agrees with the disk.
CopyFresh ==
  /\ \A s, t \in Slots : ref[s] > 0 /\ ref[t] > 0 /\ inum[s] = inum[t] => s = t
  /\ \A s \in Slots : ref[s] > 0 /\ valid[s] /\ lock[s] = Nobody => mem[s] = dino[inum[s]]

\* The kernel panics only when inodes, table entries or blocks run out: never
\* "ilock: no type", "unlink: nlink < 1" or "freeing free block", and iput()
\* never waits for a lock while it holds itable.lock.
NoBugPanic ==
  /\ TypeOK /\ panicked # "bug"
  /\ \A p \in Procs : Wanted(p) # 0 /\ lock[Wanted(p)] = Nobody => CanLock(Wanted(p))

\* The directory entries that name inode i, with "..".
Entries(i) == {e \in {j \in Inums : dino[j].type = "dir"} \X Names : ents[e[1]][e[2]] = i}
Subdirs(i) == {n \in Names : ents[i][n] # 0 /\ dino[ents[i][n]].type = "dir"}
Links(i) == Cardinality(Entries(i)) + Cardinality(Subdirs(i)) + (IF i = Root THEN 1 ELSE 0)

\* Between operations, and so after every crash: nlink counts at least the
\* links there are, so nothing is freed that has a name; every entry names an
\* allocated inode; every block in use belongs to one file.  (nlink is larger
\* for an inode that create() links into a directory removed meanwhile.)
DiskConsistent ==
  panicked = "no" /\ Quiescent =>
    /\ \A i \in Inums : dino[i].type # "none" => dino[i].nlink >= Links(i)
    /\ \A i \in Inums : dino[i].type = "none" => Entries(i) = {}
    /\ bitmap = UNION {dino[i].addrs : i \in Inums}
    /\ \A i, j \in Inums : i # j => dino[i].addrs \cap dino[j].addrs = {}

\* Between operations, as long as the machine does not crash, every allocated
\* inode has a link or is open: iput() frees those that have neither.
NothingLeaks ==
  panicked = "no" /\ Quiescent =>
    \A i \in Inums : dino[i].type # "none" =>
      dino[i].nlink > 0 \/ \E s \in Slots : ref[s] > 0 /\ inum[s] = i
=============================================================================
