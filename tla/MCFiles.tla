------------------------------- MODULE MCFiles -------------------------------
(***************************************************************************)
(* Files and FileData for TLC: the table of open files, and the bytes of   *)
(* files on a disk.  A behaviour is of one part only; the other stays as   *)
(* it was in the beginning.                                                *)
(***************************************************************************)
EXTENDS Files

CONSTANTS BSIZE, NDIRECT, FSSIZE, NLOG, NINODES, IPB, BPB, Writers, Opens,
          InodeOf, CHUNK, Args, SIZES, NCALLS

VARIABLES disk, off, todo, result, calls, panicked, part

data == <<disk, off, todo, result, calls, panicked>>

D == INSTANCE FileData WITH Procs <- Writers

\* Two opens of one file, and one of another.
TwoAndOne == <<2, 2, 3>>
TwoFiles == << <<1, 2, 3, 4>>, <<5>> >>

MCInit == part \in {"table", "data"} /\ Init /\ D!Init

\* With its NCALLS calls made, the second part rests.
MCNext ==
  \/ part = "table" /\ Next /\ UNCHANGED <<data, part>>
  \/ part = "data" /\ D!Next /\ UNCHANGED <<vars, part>>
  \/ part = "data" /\ UNCHANGED <<vars, data, part>>

MCSpec == MCInit /\ [][MCNext]_<<vars, data, part>>

\* mkfs, writei() and itrunc() leave a disk where the bitmap has exactly the
\* blocks in use, each in one place, and no byte of a file is without one.
BlocksOwned == part = "data" => D!BlocksOwned


Symmetry == Permutations(Pages)
=============================================================================
