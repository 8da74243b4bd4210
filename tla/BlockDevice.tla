----------------------------- MODULE BlockDevice ----------------------------
(***************************************************************************)
(* What kernel/virtio_disk.c promises bread() and bwrite(): a call         *)
(* transfers the caller's buffer from or to its block exactly once, at     *)
(* some moment between call and return, and touches nothing else.          *)
(***************************************************************************)
CONSTANTS Procs, Blocks, Vals, NoReq, NoData

VARIABLES disk,  \* contents of every block
          data,  \* contents of the buffer of every request
          req    \* NoReq, or the request a process has made

dvars == <<disk, data, req>>

DInit ==
  /\ disk \in [Blocks -> Vals]
  /\ data = [p \in Procs |-> NoData]
  /\ req = [p \in Procs |-> NoReq]

Call(p, k, w) ==
  /\ req[p] = NoReq
  /\ req' = [req EXCEPT ![p] = [blk |-> k, write |-> w, done |-> FALSE]]
  /\ \E v \in IF w THEN Vals ELSE {NoData} : data' = [data EXCEPT ![p] = v]
  /\ UNCHANGED disk

Transfer(p) ==
  /\ req[p] # NoReq /\ ~req[p].done
  /\ req' = [req EXCEPT ![p].done = TRUE]
  /\ IF req[p].write
     THEN disk' = [disk EXCEPT ![req[p].blk] = data[p]] /\ UNCHANGED data
     ELSE data' = [data EXCEPT ![p] = disk[req[p].blk]] /\ UNCHANGED disk

Return(p) ==
  /\ req[p] # NoReq /\ req[p].done
  /\ req' = [req EXCEPT ![p] = NoReq]
  /\ data' = [data EXCEPT ![p] = NoData]
  /\ UNCHANGED disk

DNext ==
  \E p \in Procs : \/ \E k \in Blocks, w \in BOOLEAN : Call(p, k, w)
                   \/ Transfer(p)
                   \/ Return(p)

DSpec == DInit /\ [][DNext]_dvars
=============================================================================
