----------------------------- MODULE LineBuffer -----------------------------
(***************************************************************************)
(* What the console promises about input: characters wait in a line being  *)
(* edited until it ends (or fills the buffer), then become available, and  *)
(* are read once, in order.                                                *)
(***************************************************************************)
EXTENDS Integers, Sequences

CONSTANTS Plain,    \* ordinary characters
          Enders,   \* characters that end a line
          CAP       \* characters the console can hold

VARIABLES avail, line

Room == Len(avail) + Len(line) < CAP

Type(c) ==
  /\ Room
  /\ IF c \in Enders \/ Len(avail) + Len(line) = CAP - 1
     THEN avail' = avail \o Append(line, c) /\ line' = <<>>
     ELSE line' = Append(line, c) /\ UNCHANGED avail

Erase == line # <<>> /\ line' = SubSeq(line, 1, Len(line) - 1) /\ UNCHANGED avail
KillLine == line' = <<>> /\ UNCHANGED avail
Take == avail # <<>> /\ avail' = Tail(avail) /\ UNCHANGED line

Init == avail = <<>> /\ line = <<>>
Next == (\E c \in Plain \cup Enders : Type(c)) \/ Erase \/ KillLine \/ Take
Spec == Init /\ [][Next]_<<avail, line>>
=============================================================================
