------------------------------ MODULE FileData ------------------------------
(***************************************************************************)
(* The bytes of files: fileread() and filewrite() of kernel/file.c over    *)
(* readi(), writei(), itrunc(), bmap(), balloc() and bfree() of            *)
(* kernel/fs.c, from the image that mkfs leaves.                           *)
(*                                                                         *)
(* The inode's lock is held over each call of readi(), writei() and        *)
(* itrunc(), and the transaction around it is atomic, so each is one step; *)
(* filewrite() is one step for each of its pieces, and between two of them *)
(* other processes read, write and truncate the same file.  The in-memory  *)
(* inode and its copy on disk agree at the end of each step (iupdate).     *)
(***************************************************************************)
EXTENDS MkFs

CONSTANTS Procs, Opens, InodeOf,  \* InodeOf: of each open file
          CHUNK,                  \* max of filewrite
          Args,                   \* the contents of the files in the image
          SIZES, NCALLS           \* sizes of reads and writes; calls in all

VARIABLES
  disk,     \* inodes, blocks, bitmap
  off,      \* f->off
  todo,     \* the bytes left of each process's write(), those that copyin can read
  result,   \* of the step just made
  calls, panicked

vars == <<disk, off, todo, result, calls, panicked>>

MAXBYTES == MAXFILE * BSIZE
NoWrite == [f |-> 0, n |-> 0, rest |-> <<>>, valid |-> 0]
NoResult == <<>>
-----------------------------------------------------------------------------
(* Blocks.  An operator on the disk gives the disk it leaves and a block   *)
(* number; 0 is no block: balloc has panicked.                             *)

balloc(d) ==
  LET free == (0..FSSIZE - 1) \ d.map IN
  IF free = {} THEN [d |-> d, b |-> 0]
  ELSE [d |-> [d EXCEPT !.map = @ \cup {Min(free)}, !.blk[Min(free)] = Zeroes], b |-> Min(free)]

bfree(d, bs) == [d EXCEPT !.map = @ \ bs]

\* Slot k of addrs, filled if it is empty.
Slot(d, i, k) ==
  LET a == balloc(d) IN
  IF d.ino[i].addrs[k] # 0 THEN [d |-> d, b |-> d.ino[i].addrs[k]]
  ELSE [a EXCEPT !.d.ino[i].addrs[k] = a.b]

bmap(d, i, bn) ==
  LET x == Slot(d, i, NDIRECT)
      k == bn - NDIRECT
      a == balloc(x.d)
  IN  IF bn < NDIRECT THEN Slot(d, i, bn)
      ELSE IF x.b = 0 THEN x
      ELSE IF x.d.blk[x.b][k] # 0 THEN [x EXCEPT !.b = x.d.blk[x.b][k]]
      ELSE [a EXCEPT !.d.blk[x.b][k] = a.b]

\* The blocks that itrunc() frees.
Freed_NotIndirect(d, i) ==
  LET a == d.ino[i].addrs
      x == a[NDIRECT]
  IN  ({a[k] : k \in 0..NDIRECT - 1} \cup (IF x = 0 THEN {} ELSE Range(d.blk[x]))) \ {0}

Freed(d, i) ==
  LET a == d.ino[i].addrs
      x == a[NDIRECT]
  IN  ({a[k] : k \in 0..NDIRECT} \cup (IF x = 0 THEN {} ELSE Range(d.blk[x]))) \ {0}

itrunc(d, i) ==
  [bfree(d, Freed(d, i)) EXCEPT !.ino[i].addrs = NoInode.addrs, !.ino[i].size = 0]

\* m in readi() and writei(): what is left of n bytes in the block of o.
InBlock(o, n) == Min({n, BSIZE - (o % BSIZE)})


\* Cells of s into block b from o on.
Put(d, b, o, s) ==
  [d EXCEPT !.blk[b] = [k \in 0..BSIZE - 1 |-> IF k \in o % BSIZE..(o % BSIZE) + Len(s) - 1
                                                THEN s[k - (o % BSIZE) + 1] ELSE @[k]]]
-----------------------------------------------------------------------------
(* readi() and writei().  Of the user's n bytes, the first v are mapped.   *)

RECURSIVE ReadFrom(_, _, _, _, _)
ReadFrom(d, i, o, n, s) ==
  LET x == bmap(d, i, o \div BSIZE)
      m == InBlock(o, n)
  IN  IF n = 0 THEN [d |-> d, s |-> s, panic |-> FALSE]
      ELSE IF x.b = 0 THEN [d |-> d, s |-> s, panic |-> TRUE]
      ELSE ReadFrom(x.d, i, o + m, n - m, s \o [k \in 1..m |-> x.d.blk[x.b][(o % BSIZE) + k - 1]])

readi(d, i, o, n) ==
  IF o > d.ino[i].size THEN [d |-> d, s |-> <<>>, panic |-> FALSE]
  ELSE ReadFrom(d, i, o, Min({n, d.ino[i].size - o}), <<>>)

\* A piece whose copyin fails is not logged, but the part of it that was
\* copied, if any (part), is in the buffer.
RECURSIVE WriteFrom(_, _, _, _, _, _)
WriteFrom(d, i, o, s, v, part) ==
  LET x == bmap(d, i, o \div BSIZE)
      m == InBlock(o, Len(s))
  IN  IF s = <<>> THEN [d |-> d, o |-> o, panic |-> FALSE]
      ELSE IF x.b = 0 THEN [d |-> d, o |-> o, panic |-> TRUE]
      ELSE IF v < m THEN [d |-> IF part THEN Put(x.d, x.b, o, SubSeq(s, 1, v)) ELSE x.d,
                          o |-> o, panic |-> FALSE]
      ELSE WriteFrom(Put(x.d, x.b, o, SubSeq(s, 1, m)), i, o + m, SubSeq(s, m + 1, Len(s)), v - m, part)

writei(d, i, o, s, v, part) ==
  LET w == WriteFrom(d, i, o, s, v, part) IN
  IF o > d.ino[i].size \/ o + Len(s) > MAXBYTES THEN [d |-> d, r |-> -1, panic |-> FALSE]
  ELSE [d |-> [w.d EXCEPT !.ino[i].size = Max({@, w.o})], r |-> w.o - o, panic |-> w.panic]
-----------------------------------------------------------------------------
(* The system calls.                                                       *)

Stop == panicked' = TRUE /\ UNCHANGED <<disk, off, todo, result, calls>>

\* sys_write() enters filewrite(): n bytes, the first v of them mapped.
sys_write(p, f, n, v) ==
  /\ todo[p] = NoWrite /\ calls < NCALLS
  /\ todo' = [todo EXCEPT ![p] = [f |-> f, n |-> n, rest |-> [k \in 1..n |-> 10 * p + k], valid |-> v]]
  /\ calls' = calls + 1
  /\ result' = NoResult
  /\ UNCHANGED <<disk, off, panicked>>

\* One turn of the loop of filewrite(), and its return.
filewrite(p, part) ==
  LET t == todo[p]
      n1 == Min({Len(t.rest), CHUNK})
      w == writei(disk, InodeOf[t.f], off[t.f], SubSeq(t.rest, 1, n1), t.valid, part)
      left == SubSeq(t.rest, n1 + 1, Len(t.rest))
  IN  /\ t # NoWrite
      /\ \/ /\ w.panic
            /\ Stop
         \/ /\ ~w.panic
            /\ disk' = w.d
            /\ off' = IF w.r > 0 THEN [off EXCEPT ![t.f] = @ + w.r] ELSE off
            /\ todo' = [todo EXCEPT ![p] = IF w.r # n1 \/ left = <<>> THEN NoWrite
                                           ELSE [t EXCEPT !.rest = left, !.valid = @ - n1]]
            /\ result' = IF w.r # n1 THEN <<-1>> ELSE IF left = <<>> THEN <<t.n>> ELSE NoResult
            /\ UNCHANGED <<calls, panicked>>

\* fileread(), into a buffer of which copyout can write the first v bytes.
fileread(f, n, v) ==
  LET r == readi(disk, InodeOf[f], off[f], n) IN
  /\ calls < NCALLS
  /\ disk' = r.d /\ panicked' = r.panic
  /\ IF Len(r.s) > v THEN result' = <<-1>> /\ UNCHANGED off
     ELSE result' = r.s /\ off' = [off EXCEPT ![f] = @ + Len(r.s)]
  /\ calls' = calls + 1
  /\ UNCHANGED todo

\* open() with O_TRUNC of a file that is open already.
Truncate(i) ==
  /\ calls < NCALLS
  /\ disk' = itrunc(disk, i)
  /\ calls' = calls + 1
  /\ result' = NoResult
  /\ UNCHANGED <<off, todo, panicked>>
-----------------------------------------------------------------------------
Init ==
  /\ LET img == mkfs(Args) IN
     disk = [ino |-> [i \in 1..NINODES |-> img.ino[i]],
             blk |-> [b \in 0..FSSIZE - 1 |-> img.blk[b]], map |-> img.map]
  /\ off = [f \in Opens |-> 0]
  /\ todo = [p \in Procs |-> NoWrite]
  /\ result = NoResult /\ calls = 0 /\ panicked = FALSE

Next ==
  /\ ~panicked
  /\ \/ \E p \in Procs, f \in Opens, n \in SIZES : \E v \in {n, 1} : sys_write(p, f, n, v)
     \/ \E p \in Procs, part \in BOOLEAN : filewrite(p, part)
     \/ \E f \in Opens, n \in SIZES : \E v \in {n, 0} : fileread(f, n, v)
     \/ \E f \in Opens : Truncate(InodeOf[f])

Spec == Init /\ [][Next]_vars
-----------------------------------------------------------------------------
(* Properties.                                                             *)

\* The block numbers of inode i: direct, of the indirect block, indirect.
Named(i) ==
  LET a == disk.ino[i].addrs
      x == a[NDIRECT]
  IN  [k \in 0..MAXFILE |-> IF k <= NDIRECT THEN a[k]
                             ELSE IF x = 0 THEN 0 ELSE disk.blk[x][k - NDIRECT - 1]]

\* Where among them block bn of the file is.
Place(bn) == IF bn < NDIRECT THEN bn ELSE bn + 1

\* The disk is a file system after each step, and mkfs leaves one: the parts
\* of the metadata have blocks of their own; the bitmap has exactly the
\* metadata and the blocks that inodes name, each in one place only; and an
\* inode names a block for each of its bytes, no more than MAXFILE.
BlocksOwned ==
  LET named == [i \in 1..NINODES |-> Named(i)]
      places == {<<i, k>> \in (1..NINODES) \X (0..MAXFILE) : named[i][k] # 0}
      owned == {named[u[1]][u[2]] : u \in places}
  IN  /\ \A i \in 1..NINODES : IBLOCK(i) \in inodestart..bmapstart - 1
      /\ \A b \in 0..FSSIZE - 1 : BBLOCK(b) \in bmapstart..nmeta - 1
      /\ Cardinality(owned) = Cardinality(places)
      /\ owned \subseteq nmeta..FSSIZE - 1
      /\ disk.map = 0..nmeta - 1 \cup owned
      /\ \A i \in 1..NINODES :
           /\ disk.ino[i].size <= MAXBYTES
           /\ \A bn \in 0..MAXFILE - 1 : bn * BSIZE < disk.ino[i].size => named[i][Place(bn)] # 0

\* The bytes of inode i, by way of its block numbers.
Bytes(i) ==
  LET named == Named(i) IN
  [o \in 1..disk.ino[i].size |-> disk.blk[named[Place((o - 1) \div BSIZE)]][(o - 1) % BSIZE]]

B == INSTANCE ByteFile WITH contents <- [i \in 2..NINODES |-> Bytes(i)],
                            Initial <- [i \in 2..NINODES |-> Args[i - 1]]

=============================================================================
