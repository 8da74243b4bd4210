------------------------------- MODULE Console -------------------------------
(***************************************************************************)
(* Console input, kernel/console.c: the interrupt handler that edits the   *)
(* line, and processes that read.                                          *)
(*                                                                         *)
(* cons.r, cons.w and cons.e are unsigned ints, here modulo WRAP.  A       *)
(* reader holds cons.lock from one character to the next and gives it up   *)
(* to sleep; the handler runs in one step, with the lock free.             *)
(***************************************************************************)
EXTENDS Integers, Sequences

CONSTANTS Readers,
          Killable,    \* the readers that may be killed
          INPUT_BUF,
          WRAP,        \* 2^32
          MAXREAD,     \* the largest n of a read
          Plain,       \* characters without a meaning to the console
          Nobody

ASSUME ConsoleAssumption ==
  /\ INPUT_BUF \in Nat \ {0} /\ WRAP \in Nat \ {0} /\ MAXREAD \in Nat \ {0}
  /\ WRAP % INPUT_BUF = 0 /\ WRAP > INPUT_BUF
  /\ Nobody \notin Readers /\ Killable \subseteq Readers /\ Plain \cap {"nl", "eof"} = {}

VARIABLES
  buf, r, w, e, lock,  \* cons
  me,                  \* where each reader is
  killed               \* the processes that have p->killed set

cons == <<buf, r, w, e, lock>>
vars == <<cons, me, killed>>

Chars == Plain \cup {"nl", "eof"}
Index == 0..WRAP - 1
Idle == [pc |-> "idle", n |-> 0, target |-> 0]
Gone == [Idle EXCEPT !.pc = "gone"]
-----------------------------------------------------------------------------
(* Helpers.  A definition with the name of another one and a suffix is a   *)
(* wrong version of it that no specification uses.                         *)

Plus(i, n) == (i + n) % WRAP
Distance(i, j) == (j - i) % WRAP

\* cons.buf[i % INPUT_BUF].
Slot(i) == i % INPUT_BUF

\* i++.
Bump(i) == Plus(i, 1)

Room_OffByOne == Distance(r, e) <= INPUT_BUF

\* cons.e - cons.r < INPUT_BUF, unsigned.
Room == Distance(r, e) < INPUT_BUF

EndsLine_NotFull(c, i) == c \in {"nl", "eof"}

\* The line is complete, or the buffer is full.
EndsLine(c, i) == c \in {"nl", "eof"} \/ i = Plus(r, INPUT_BUF)

WakeReaders_Not == me

\* wakeup(&cons.r).
WakeReaders == [p \in Readers |-> IF me[p].pc = "sleep" THEN [me[p] EXCEPT !.pc = "acquire"] ELSE me[p]]

Go(p, x) == me' = [me EXCEPT ![p] = x]
-----------------------------------------------------------------------------
(* consoleintr().                                                          *)

\* An ordinary character or the end of a line (or of the file).
consoleintr(c) ==
  LET e1 == Bump(e) IN
  /\ lock = Nobody
  /\ Room
  /\ buf' = [buf EXCEPT ![Slot(e)] = c]
  /\ e' = e1
  /\ IF EndsLine(c, e1)
     THEN w' = e1 /\ me' = WakeReaders
     ELSE UNCHANGED <<w, me>>
  /\ UNCHANGED <<r, lock, killed>>

\* Backspace.
erase ==
  /\ lock = Nobody /\ e # w
  /\ e' = Plus(e, -1)
  /\ UNCHANGED <<buf, r, w, lock, me, killed>>

\* ^U takes back characters down to a newline or the start of the line.
kill_line ==
  LET stops == {k \in 0..Distance(w, e) :
                  Plus(e, -k) = w \/ buf[Slot(Plus(e, -k - 1))] = "nl"}
      k == CHOOSE x \in stops : \A y \in stops : x <= y
  IN  /\ lock = Nobody
      /\ e' = Plus(e, -k)
      /\ UNCHANGED <<buf, r, w, lock, me, killed>>
-----------------------------------------------------------------------------
(* consoleread().                                                          *)

read(p, n) ==
  /\ me[p].pc = "idle"
  /\ Go(p, [pc |-> "acquire", n |-> n, target |-> n])
  /\ UNCHANGED <<cons, killed>>

acquire(p) ==
  /\ me[p].pc = "acquire" /\ lock = Nobody
  /\ lock' = p
  /\ Go(p, [me[p] EXCEPT !.pc = "loop"])
  /\ UNCHANGED <<buf, r, w, e, killed>>

\* Nothing to read: give up if killed, or sleep.  (A kill between the test
\* and the sleep is missed; Proc has that race.)
wait(p) ==
  /\ me[p].pc = "loop" /\ r = w
  /\ lock' = Nobody
  /\ Go(p, IF p \in killed THEN Gone ELSE [me[p] EXCEPT !.pc = "sleep"])
  /\ UNCHANGED <<buf, r, w, e, killed>>

\* ^D is kept for the next call when this one returns something.
Keep(p) == me[p].n < me[p].target

\* Take a character; the read ends at the end of a line or of the file, when
\* n characters have been read, or when the copy to the user fails.
take(p) ==
  LET c == buf[Slot(r)]
      n == me[p].n - 1
  IN  /\ me[p].pc = "loop" /\ r # w
      /\ r' = IF c = "eof" /\ Keep(p) THEN r ELSE Bump(r)
      /\ \/ /\ c \notin {"nl", "eof"} /\ n > 0
            /\ Go(p, [me[p] EXCEPT !.n = n])
            /\ UNCHANGED lock
         \/ /\ Go(p, IF p \in killed THEN Gone ELSE Idle)
            /\ lock' = Nobody
      /\ UNCHANGED <<buf, w, e, killed>>

\* kill(): the process sees it when it next looks; a sleeping one is woken.
kill(p) ==
  /\ p \in Killable \ killed
  /\ killed' = killed \cup {p}
  /\ Go(p, IF me[p].pc = "sleep" THEN [me[p] EXCEPT !.pc = "acquire"]
           ELSE IF me[p].pc = "idle" THEN Gone ELSE me[p])
  /\ UNCHANGED cons
-----------------------------------------------------------------------------
Init ==
  /\ buf = [i \in 0..INPUT_BUF - 1 |-> "nl"]
  /\ r = 0 /\ w = 0 /\ e = 0 /\ lock = Nobody
  /\ me = [p \in Readers |-> Idle]
  /\ killed = {}

Reader(p) == (\E n \in 1..MAXREAD : read(p, n)) \/ acquire(p) \/ wait(p) \/ take(p)

Next ==
  \/ \E c \in Chars : consoleintr(c)
  \/ erase \/ kill_line
  \/ \E p \in Readers : Reader(p) \/ kill(p)

Spec == Init /\ [][Next]_vars

\* Readers, like the shell, read again and again; cons.lock is a spin lock
\* that every waiting CPU gets in the end.
LiveSpec == Spec /\ \A p \in Readers : SF_vars(Reader(p))
-----------------------------------------------------------------------------
(* Properties.                                                             *)

\* The type of every variable.
TypeOK ==
  /\ buf \in [0..INPUT_BUF - 1 -> Chars] /\ {r, w, e} \subseteq Index /\ lock \in Readers \cup {Nobody}
  /\ killed \subseteq Readers
  /\ \A p \in Readers : me[p].pc \in {"idle", "acquire", "loop", "sleep", "gone"}
                        /\ me[p].n \in 0..MAXREAD /\ me[p].target \in 0..MAXREAD

\* The characters in the buffer from index i up to index j.
Window(i, j) == [k \in 1..Distance(i, j) |-> buf[Slot(Plus(i, k - 1))]]

LB == INSTANCE LineBuffer WITH Enders <- {"nl", "eof"}, CAP <- INPUT_BUF,
                               avail <- Window(r, w), line <- Window(w, e)

\* Through the ring, its wrapping indices and any interleaving of typing and
\* reading, the console is a line buffer.
Coherent == LB!Spec

\* A full buffer is never one nobody can read from: then the line was ended
\* for the user.  Without that neither typing nor reading could go on.
NeverJams == TypeOK /\ (Distance(r, e) = INPUT_BUF => r # w)

\* Every available character is read, however typing and reading interleave.
InputRead == \A i \in Index : (r = i /\ w # i) ~> (r # i)
=============================================================================
