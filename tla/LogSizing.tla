----------------------------- MODULE LogSizing -----------------------------
(***************************************************************************)
(* The sizes for which begin_op()'s reservation is enough, and the         *)
(* inductive invariant behind the properties of Log.                       *)
(*                                                                         *)
(* param.h has MAXOPBLOCKS = 10 and LOGSIZE = 30, mkfs.c makes a log of    *)
(* nlog = LOGSIZE blocks, header included, and the largest operation of    *)
(* this kernel logs 7 distinct blocks (filewrite: 4 data blocks, bitmap,   *)
(* indirect block, inode block).                                           *)
(***************************************************************************)
EXTENDS Log

\* Blocks the log can hold when every operation keeps to OPBLOCKS.
Limit == LOGSIZE - (MAXOPBLOCKS - OPBLOCKS)

ASSUME ReservationAssumption == OPBLOCKS < MAXOPBLOCKS /\ Limit < NLOG - 1

\* One token for each block a running operation may still add to the log.
Credits ==
  {t \in Procs \X (1..OPBLOCKS) : pc[t[1]] = "op" /\ t[2] > Cardinality(wrote[t[1]])}

RoomInv == Active # {} => Len(lh) + Cardinality(Credits) <= Limit

OpInv ==
  /\ outstanding = Cardinality(Active)
  /\ \A p \in Procs : held[p] # NoBlock => pc[p] = "op"
  /\ \A p \in Active :
       /\ IsFiniteSet(wrote[p]) /\ Cardinality(wrote[p]) <= OPBLOCKS
       /\ \A b \in wrote[p] : Logged(b)

PhaseInv ==
  /\ committing <=> phase \in CommitPhases
  /\ phase # "up" => Active = {}
  /\ Active = {} /\ phase \in {"up", "finish", "r_read"} => lh = <<>>
  /\ phase \in {"write_log", "install", "r_install"} => tail \in DOMAIN lh
  /\ phase = "write_head" => lh # <<>>

\* A logged block whose new contents have not reached its home block.
Uninstalled(b) ==
  \E i \in DOMAIN lh :
    /\ lh[i] = b
    /\ \/ phase \in {"up", "write_log", "write_head"}
       \/ phase = "install" /\ i >= tail

CacheInv ==
  \A b \in Blocks :
    IF Uninstalled(b) THEN pin[b] = 1 /\ buf[b] # NoBuf
                      ELSE pin[b] = 0 /\ buf[b] \in {NoBuf, disk[b]}

Injective(s) == \A i, j \in DOMAIN s : s[i] = s[j] => i = j

HeadInv ==
  /\ Injective(lh) /\ Injective(dhead)
  /\ phase \in {"up", "write_log", "write_head", "finish"} => dhead = <<>>
  /\ phase \in {"install", "clear", "r_install", "r_clear"} => dhead = lh

\* The loops have copied what precedes tail.
CopyInv ==
  /\ phase = "write_log" => \A i \in DOMAIN lh : i < tail => dlog[i] = buf[lh[i]]
  /\ phase = "write_head" => \A i \in DOMAIN lh : dlog[i] = buf[lh[i]]
  /\ phase = "install" => \A i \in DOMAIN lh : i >= tail => dlog[i] = buf[lh[i]]
  /\ phase \in {"install", "r_install"} =>
       \A i \in DOMAIN lh : i < tail => disk[lh[i]] = dlog[i]
  /\ phase \in {"clear", "r_clear"} => \A i \in DOMAIN lh : disk[lh[i]] = dlog[i]

\* The inductive invariant: what the log, the pins, the cache and the disk
\* agree on in every phase of commit() and of recovery, and that begin_op()
\* has reserved room for everything the running operations may still log.
IInv == /\ TypeOK /\ NoPanic /\ OpInv /\ RoomInv /\ PhaseInv
        /\ CacheInv /\ HeadInv /\ CopyInv
=============================================================================
