----------------------------- MODULE BlockStore -----------------------------
(***************************************************************************)
(* What kernel/bio.c promises the layers above: every disk block has one   *)
(* current contents, seen and changed only by the one process that has     *)
(* locked it, however many buffers there are.                              *)
(***************************************************************************)
CONSTANTS Procs, Blocks, Vals, Nobody

VARIABLES content,  \* current contents of each block
          owner     \* the process that has each block locked

svars == <<content, owner>>

SInit == content \in [Blocks -> Vals] /\ owner = [k \in Blocks |-> Nobody]

Lock(p, k) ==
  /\ owner[k] = Nobody
  /\ owner' = [owner EXCEPT ![k] = p]
  /\ UNCHANGED content

Change(p, k, v) ==
  /\ owner[k] = p
  /\ content' = [content EXCEPT ![k] = v]
  /\ UNCHANGED owner

Unlock(p, k) ==
  /\ owner[k] = p
  /\ owner' = [owner EXCEPT ![k] = Nobody]
  /\ UNCHANGED content

SNext ==
  \E p \in Procs, k \in Blocks :
    Lock(p, k) \/ Unlock(p, k) \/ \E v \in Vals : Change(p, k, v)

SSpec == SInit /\ [][SNext]_svars
=============================================================================
