-------------------------------- MODULE Regex --------------------------------
(***************************************************************************)
(* The matcher of user/grep.c.  A pattern and a text are sequences of      *)
(* characters; At(s, i) is s[i] in the code, with the 0 at the end.        *)
(***************************************************************************)
EXTENDS Integers, Sequences, FiniteSets, FiniteSetsExt

Nul == "nul"
At(s, i) == IF i <= Len(s) THEN s[i] ELSE Nul
Rest(s, n) == SubSeq(s, n + 1, Len(s))

\* A definition with the name of another one and a suffix is a wrong version
\* of it that no specification uses.

RECURSIVE matchhere(_, _)

RECURSIVE matchstar_Some(_, _, _)
matchstar_Some(c, re, text) ==
  /\ At(text, 1) # Nul /\ (text[1] = c \/ c = ".")
  /\ (matchhere(re, Rest(text, 1)) \/ matchstar_Some(c, re, Rest(text, 1)))

\* c*re at the beginning of text.
RECURSIVE matchstar(_, _, _)
matchstar(c, re, text) ==
  \/ matchhere(re, text)
  \/ At(text, 1) # Nul /\ (text[1] = c \/ c = ".") /\ matchstar(c, re, Rest(text, 1))

\* re at the beginning of text.
matchhere(re, text) ==
  IF re = <<>> THEN TRUE
  ELSE IF At(re, 2) = "*" THEN matchstar(re[1], Rest(re, 2), text)
  ELSE IF re[1] = "$" /\ At(re, 2) = Nul THEN text = <<>>
  ELSE At(text, 1) # Nul /\ re[1] \in {".", text[1]} /\ matchhere(Rest(re, 1), Rest(text, 1))

\* re anywhere in text, also in the empty string at its end.
match(re, text) ==
  IF At(re, 1) = "^" THEN matchhere(Rest(re, 1), text)
  ELSE \E n \in 0..Len(text) : matchhere(re, Rest(text, n))
-----------------------------------------------------------------------------
(* What a pattern means.  It is a sequence of items, single characters and *)
(* starred ones, between an optional ^ and an optional $.                  *)

RECURSIVE Items(_)
Items(re) ==
  IF re = <<>> THEN <<>>
  ELSE IF At(re, 2) = "*" THEN <<[c |-> re[1], star |-> TRUE]>> \o Items(Rest(re, 2))
  ELSE IF re = <<"$">> THEN <<[c |-> Nul, star |-> FALSE]>>
  ELSE <<[c |-> re[1], star |-> FALSE]>> \o Items(Rest(re, 1))

\* A pattern matches if the text, up to some point, can be cut into pieces,
\* one for each item, that the items describe.
Means(re, text) ==
  LET bol == At(re, 1) = "^"
      it == Items(IF bol THEN Rest(re, 1) ELSE re)
      n == Len(it)
      Fits(c, i) == c \in {".", text[i]}
  IN  \E cut \in [0..n -> 1..Len(text) + 1] :
        /\ bol => cut[0] = 1
        /\ \A k \in 1..n :
             /\ cut[k - 1] <= cut[k]
             /\ it[k].c = Nul => cut[k - 1] = Len(text) + 1
             /\ it[k].c # Nul => \A i \in cut[k - 1]..cut[k] - 1 : Fits(it[k].c, i)
             /\ it[k].c # Nul /\ ~it[k].star => cut[k] = cut[k - 1] + 1

\* match() finds a match exactly when there is one: the shortest-first search
\* of matchstar() misses none.
MatchRight(re, text) == match(re, text) = Means(re, text)
=============================================================================
