----------------------------- MODULE ByteQueue -----------------------------
(***************************************************************************)
(* What a pipe promises: a bounded first-in first-out queue of bytes with  *)
(* two ends, each of which is closed at most once.  Bytes enter only while *)
(* the write end is open, and leave only while the read end is open.       *)
(***************************************************************************)
EXTENDS Naturals, Sequences

CONSTANTS Bytes, Capacity

VARIABLES q, wopen, ropen

qvars == <<q, wopen, ropen>>

QInit == q = <<>> /\ wopen = TRUE /\ ropen = TRUE

Put(b) ==
  /\ wopen /\ ropen
  /\ Len(q) < Capacity
  /\ q' = Append(q, b)
  /\ UNCHANGED <<wopen, ropen>>

Get ==
  /\ ropen
  /\ q # <<>>
  /\ q' = Tail(q)
  /\ UNCHANGED <<wopen, ropen>>

CloseWrite == wopen /\ wopen' = FALSE /\ UNCHANGED <<q, ropen>>

CloseRead == ropen /\ ropen' = FALSE /\ UNCHANGED <<q, wopen>>

\* Both ends are closed: the memory may become another, empty pipe.
Renew == ~wopen /\ ~ropen /\ q' = <<>> /\ wopen' = TRUE /\ ropen' = TRUE

QNext == (\E b \in Bytes : Put(b)) \/ Get \/ CloseWrite \/ CloseRead \/ Renew

QSpec == QInit /\ [][QNext]_qvars
=============================================================================
