------------------------------ MODULE ByteFile ------------------------------
(***************************************************************************)
(* What reading and writing files promises: a file is a sequence of bytes, *)
(* an open file a position in it, and a write happens in pieces of at most *)
(* CHUNK bytes, each at the position of the moment.                        *)
(***************************************************************************)
EXTENDS Integers, Sequences, FiniteSetsExt

CONSTANTS Procs, Opens, InodeOf, CHUNK, MAXBYTES, Initial, NoWrite, NoResult

VARIABLES
  contents,  \* of each inode
  off,       \* of each open file
  todo,      \* what each process still has to write
  result,    \* of the step just made
  panicked   \* there was no free block

vars == <<contents, off, todo, result, panicked>>

Overlay(c, o, s) == [k \in 1..Max({Len(c), o + Len(s)}) |-> IF k \in o + 1..o + Len(s) THEN s[k - o] ELSE c[k]]
Piece(t) == SubSeq(t.rest, 1, Min({CHUNK, Len(t.rest)}))

Init ==
  /\ contents = Initial
  /\ off = [f \in Opens |-> 0]
  /\ todo = [p \in Procs |-> NoWrite]
  /\ result = NoResult /\ panicked = FALSE

\* The program calls write(), of bytes of which only the first can be read.
Begin(p) ==
  /\ todo[p] = NoWrite /\ todo'[p] # NoWrite
  /\ \A q \in Procs \ {p} : todo'[q] = todo[q]
  /\ result' = NoResult
  /\ UNCHANGED <<off, panicked, contents>>

Wrote(p, rest) ==
  LET t == todo[p] IN
  todo' = [todo EXCEPT ![p] = IF rest = <<>> THEN NoWrite
                              ELSE [t EXCEPT !.rest = rest, !.valid = @ - (Len(t.rest) - Len(rest))]]

\* A piece is written where the position is, and moves it;
Whole(p) ==
  LET t == todo[p]
      s == Piece(t)
      i == InodeOf[t.f]
  IN  /\ t # NoWrite /\ Len(s) <= t.valid
      /\ off[t.f] <= Len(contents[i]) /\ off[t.f] + Len(s) <= MAXBYTES
      /\ contents' = [contents EXCEPT ![i] = Overlay(@, off[t.f], s)]
      /\ off' = [off EXCEPT ![t.f] = @ + Len(s)]
      /\ Wrote(p, SubSeq(t.rest, Len(s) + 1, Len(t.rest)))
      /\ result' = IF Len(s) = Len(t.rest) THEN <<t.n>> ELSE NoResult
      /\ UNCHANGED panicked

\* ... or cannot be, with the file truncated below the position or too large;
Refused(p) ==
  LET t == todo[p]
      i == InodeOf[t.f]
  IN  /\ t # NoWrite
      /\ off[t.f] > Len(contents[i]) \/ off[t.f] + Len(Piece(t)) > MAXBYTES
      /\ todo' = [todo EXCEPT ![p] = NoWrite]
      /\ result' = <<-1>>
      /\ UNCHANGED <<contents, off, panicked>>

\* ... or its bytes cannot be read from some point on: then a part has been
\* written, and bytes after it that the file already had may have been, too.
Faulted(p) ==
  LET t == todo[p]
      i == InodeOf[t.f]
      c == contents[i]
      o == off[t.f]
  IN  /\ t # NoWrite /\ t.valid < Len(Piece(t))
      /\ o <= Len(c) /\ o + Len(Piece(t)) <= MAXBYTES
      /\ \E r \in 0..t.valid : \E k \in r..t.valid :
           LET d == Overlay(c, o, SubSeq(t.rest, 1, r))
               e == Overlay(d, o + r, SubSeq(t.rest, r + 1, k))
           IN  /\ contents' = [contents EXCEPT ![i] = SubSeq(e, 1, Len(d))]
               /\ off' = [off EXCEPT ![t.f] = @ + r]
      /\ todo' = [todo EXCEPT ![p] = NoWrite]
      /\ result' = <<-1>>
      /\ UNCHANGED panicked

\* A read gets the bytes at the position, up to the end of the file, and
\* moves it past them; if they cannot be stored, it is -1 and nothing moves.
Read(f) ==
  /\ UNCHANGED <<todo, panicked>>
  /\ \E n \in 0..MAXBYTES :
       LET c == contents[InodeOf[f]]
           got == SubSeq(c, off[f] + 1, Min({off[f] + n, Len(c)}))
       IN  \/ result' = got /\ off' = [off EXCEPT ![f] = @ + Len(got)]
           \/ got # <<>> /\ result' = <<-1>> /\ UNCHANGED off
  /\ UNCHANGED contents

Truncate(i) ==
  /\ result' = NoResult
  /\ UNCHANGED <<off, todo, panicked>>
  /\ contents' = [contents EXCEPT ![i] = <<>>]

Panic == panicked' = TRUE /\ UNCHANGED <<off, todo, result, contents>>

Next ==
  \/ /\ ~panicked
     /\ \/ \E p \in Procs : Begin(p) \/ Whole(p) \/ Refused(p) \/ Faulted(p)
        \/ \E f \in Opens : Read(f)
        \/ \E i \in DOMAIN contents : Truncate(i)
        \/ Panic

Spec == Init /\ [][Next]_vars
=============================================================================
