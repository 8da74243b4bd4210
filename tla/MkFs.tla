-------------------------------- MODULE MkFs --------------------------------
(***************************************************************************)
(* mkfs/mkfs.c: the file system image the kernel starts with.              *)
(*                                                                         *)
(* A block is BSIZE cells; a byte of a file, a directory entry (its inode  *)
(* number) and a block number each take one.  An image has the inodes, the *)
(* blocks, the next free inode and block, and the blocks that the bitmap   *)
(* says are used.                                                          *)
(***************************************************************************)
EXTENDS Integers, Sequences, FiniteSets, SequencesExt, FiniteSetsExt

CONSTANTS BSIZE, NDIRECT,
          FSSIZE, NLOG, NINODES,
          IPB, BPB     \* inodes, and bits of the bitmap, per block

NINDIRECT == BSIZE
MAXFILE == NDIRECT + NINDIRECT
ROOTINO == 1
-----------------------------------------------------------------------------
(* The layout.                                                             *)

nbitmap == FSSIZE \div BPB + 1
ninodeblocks == NINODES \div IPB + 1
nmeta == 2 + NLOG + ninodeblocks + nbitmap
inodestart == 2 + NLOG
bmapstart == 2 + NLOG + ninodeblocks
IBLOCK(i) == i \div IPB + inodestart
BBLOCK(b) == b \div BPB + bmapstart
-----------------------------------------------------------------------------
Zeroes == [k \in 0..BSIZE - 1 |-> 0]
NoInode == [type |-> "none", size |-> 0, addrs |-> [k \in 0..NDIRECT |-> 0]]

Empty == [ino |-> [i \in 1..NINODES |-> NoInode], blk |-> [b \in 0..FSSIZE - 1 |-> Zeroes],
          freeinode |-> 1, freeblock |-> nmeta, map |-> {}]

\* ialloc() of inode img.freeinode.
ialloc(img, type) ==
  [img EXCEPT !.ino[img.freeinode].type = type, !.freeinode = @ + 1]

\* The first free block, at index k of the inode, or of its indirect block.
NewDirect(img, inum, k) ==
  IF img.ino[inum].addrs[k] # 0 THEN img
  ELSE [img EXCEPT !.ino[inum].addrs[k] = img.freeblock, !.freeblock = @ + 1]

NewIndirect(img, inum, k) ==
  LET d == NewDirect(img, inum, NDIRECT)
      x == d.ino[inum].addrs[NDIRECT]
  IN  IF d.blk[x][k] # 0 THEN d
      ELSE [d EXCEPT !.blk[x][k] = d.freeblock, !.freeblock = @ + 1]

\* The loop of iappend() from offset off on.
RECURSIVE AppendAt(_, _, _, _)
AppendAt(img, inum, off, s) ==
  LET fbn == off \div BSIZE
      d == IF fbn < NDIRECT THEN NewDirect(img, inum, fbn) ELSE NewIndirect(img, inum, fbn - NDIRECT)
      x == IF fbn < NDIRECT THEN d.ino[inum].addrs[fbn]
           ELSE d.blk[d.ino[inum].addrs[NDIRECT]][fbn - NDIRECT]
      n1 == Min({Len(s), (fbn + 1) * BSIZE - off})
      at == off - fbn * BSIZE
      buf == [k \in 0..BSIZE - 1 |-> IF k \in at..at + n1 - 1 THEN s[k - at + 1] ELSE d.blk[x][k]]
  IN  IF s = <<>> THEN [img EXCEPT !.ino[inum].size = off]
      ELSE AppendAt([d EXCEPT !.blk[x] = buf], inum, off + n1, SubSeq(s, n1 + 1, Len(s)))

iappend(img, inum, s) == AppendAt(img, inum, img.ino[inum].size, s)

\* A file: an inode, an entry in the root, and the contents, BSIZE at a time.
AddFile(img, s) ==
  LET inum == img.freeinode
      entered == iappend(ialloc(img, "file"), ROOTINO, <<inum>>)
  IN  FoldLeft(LAMBDA d, k : iappend(d, inum, SubSeq(s, k * BSIZE + 1, Min({(k + 1) * BSIZE, Len(s)}))),
               entered, [k \in 1..(Len(s) + BSIZE - 1) \div BSIZE |-> k - 1])

\* The size of the root goes up to a whole number of blocks; the bitmap.
FixRoot(img) == [img EXCEPT !.ino[ROOTINO].size = (@ \div BSIZE + 1) * BSIZE]
mkfs_balloc(img) == [img EXCEPT !.map = 0..img.freeblock - 1]

\* main(), with the contents of the files.
mkfs(files) ==
  LET root == iappend(iappend(ialloc(Empty, "dir"), ROOTINO, <<ROOTINO>>), ROOTINO, <<ROOTINO>>)
  IN  mkfs_balloc(FixRoot(FoldLeft(AddFile, root, files)))
=============================================================================
