----------------------------- MODULE ShellParser -----------------------------
(***************************************************************************)
(* The parser of user/sh.c.  A command line s is a sequence of characters; *)
(* a pointer into it is an index, and Len(s) + 1 is es.  Every character   *)
(* that is neither whitespace nor one of the symbols may be part of a word. *)
(*                                                                         *)
(* A parsing function returns the command and where it stopped, or Failed  *)
(* where the code calls panic().                                           *)
(***************************************************************************)
EXTENDS Integers, Sequences, FiniteSets, SequencesExt, FiniteSetsExt

CONSTANT MAXARGS

Whitespace == {" ", "\n"}
Symbols == {"<", "|", ">", "&", ";", "(", ")"}
None == "none"
Failed == [ok |-> FALSE, cmd |-> None, pos |-> 0]
Parsed(c, i) == [ok |-> TRUE, cmd |-> c, pos |-> i]
-----------------------------------------------------------------------------
(* Constructors.  A word is where it starts and where it ends.             *)

execcmd(argv) == [type |-> "EXEC", argv |-> argv]
redircmd(c, file, tok) == [type |-> "REDIR", cmd |-> c, file |-> file, mode |-> tok]
pipecmd(l, r) == [type |-> "PIPE", left |-> l, right |-> r]
listcmd(l, r) == [type |-> "LIST", left |-> l, right |-> r]
backcmd(c) == [type |-> "BACK", cmd |-> c]
-----------------------------------------------------------------------------
(* Tokens.  A definition with the name of another one and a suffix is a    *)
(* wrong version of it that no specification uses.                         *)

SkipBlanks(s, i) == Min({j \in i..Len(s) + 1 : j = Len(s) + 1 \/ s[j] \notin Whitespace})

EndOfWord(s, i) ==
  Min({j \in i..Len(s) + 1 : j = Len(s) + 1 \/ s[j] \in Whitespace \cup Symbols})

Token(s, b, tok, e) == [tok |-> tok, word |-> <<b, e>>, pos |-> SkipBlanks(s, e)]

\* The token that starts at b.
TokenAt(s, b) ==
  IF b > Len(s) THEN Token(s, b, None, b)
  ELSE IF s[b] = ">" /\ b < Len(s) /\ s[b + 1] = ">" THEN Token(s, b, "+", b + 2)
  ELSE IF s[b] \in Symbols THEN Token(s, b, s[b], b + 1)
  ELSE Token(s, b, "a", EndOfWord(s, b))

gettoken(s, i) == TokenAt(s, SkipBlanks(s, i))

OneOf(s, b, toks) == b <= Len(s) /\ s[b] \in toks
peek(s, i, toks) == OneOf(s, SkipBlanks(s, i), toks)
-----------------------------------------------------------------------------
(* Recursive descent.                                                      *)

RECURSIVE parseredirs(_, _, _)

\* The operator op and the word f after it.
Redirection(c, s, op, f) ==
  IF f.tok # "a" THEN Failed ELSE parseredirs(redircmd(c, f.word, op.tok), s, f.pos)

parseredirs(c, s, i) ==
  IF ~peek(s, i, {"<", ">"}) THEN Parsed(c, i)
  ELSE Redirection(c, s, gettoken(s, i), gettoken(s, gettoken(s, i).pos))

\* parseexec() adds words to a command that parseredirs() has wrapped already.
RECURSIVE AddWord(_, _)
AddWord(c, w) == IF c.type = "REDIR" THEN [c EXCEPT !.cmd = AddWord(@, w)]
                 ELSE [c EXCEPT !.argv = Append(@, w)]

RECURSIVE parseargs(_, _, _)

Argument(c, argc, s, i, t) ==
  IF peek(s, i, {"|", ")", "&", ";"}) \/ t.tok = None THEN Parsed(c, i)
  ELSE IF t.tok # "a" \/ argc + 1 >= MAXARGS THEN Failed
  ELSE parseargs(parseredirs(AddWord(c, t.word), s, t.pos), argc + 1, s)

\* The loop of parseexec(); c is what parseredirs() returned.
parseargs(c, argc, s) ==
  IF ~c.ok THEN Failed ELSE Argument(c.cmd, argc, s, c.pos, gettoken(s, c.pos))

RECURSIVE parseline(_, _)

BlockEnd(c, s) ==
  IF ~c.ok \/ ~peek(s, c.pos, {")"}) THEN Failed
  ELSE parseredirs(c.cmd, s, gettoken(s, c.pos).pos)

parseblock(s, i) == BlockEnd(parseline(s, gettoken(s, i).pos), s)

parseexec(s, i) ==
  IF peek(s, i, {"("}) THEN parseblock(s, i)
  ELSE parseargs(parseredirs(execcmd(<<>>), s, i), 0, s)

RECURSIVE parsepipe(_, _)

\* What is at the left is l, at the right r.
Pipeline(l, r) == IF r.ok THEN Parsed(pipecmd(l, r.cmd), r.pos) ELSE Failed

PipeRest(l, s) ==
  IF ~l.ok \/ ~peek(s, l.pos, {"|"}) THEN l
  ELSE Pipeline(l.cmd, parsepipe(s, gettoken(s, l.pos).pos))

parsepipe(s, i) == PipeRest(parseexec(s, i), s)

RECURSIVE parseback(_, _)
parseback(c, s) ==
  IF ~c.ok \/ ~peek(s, c.pos, {"&"}) THEN c
  ELSE parseback(Parsed(backcmd(c.cmd), gettoken(s, c.pos).pos), s)

List(l, r) == IF r.ok THEN Parsed(listcmd(l, r.cmd), r.pos) ELSE Failed

ListRest_OnePipe(c, s) ==
  IF ~c.ok \/ ~peek(s, c.pos, {";"}) THEN c
  ELSE List(c.cmd, parsepipe(s, gettoken(s, c.pos).pos))

ListRest(c, s) ==
  IF ~c.ok \/ ~peek(s, c.pos, {";"}) THEN c
  ELSE List(c.cmd, parseline(s, gettoken(s, c.pos).pos))

parseline(s, i) == ListRest(parseback(parsepipe(s, i), s), s)

\* nulterminate(): where it writes a 0.
RECURSIVE nulterminate(_)
nulterminate(c) ==
  CASE c.type = "EXEC" -> {c.argv[k][2] : k \in DOMAIN c.argv}
    [] c.type = "REDIR" -> nulterminate(c.cmd) \cup {c.file[2]}
    [] c.type = "BACK" -> nulterminate(c.cmd)
    [] OTHER -> nulterminate(c.left) \cup nulterminate(c.right)

\* What the command looks like once words are strings that end at a 0.
RECURSIVE Terminated(_, _, _)
Terminated(c, s, zeros) ==
  LET String(w) == SubSeq(s, w[1], Min({z \in zeros : z > w[1]}) - 1) IN
  CASE c.type = "EXEC" -> execcmd([k \in DOMAIN c.argv |-> String(c.argv[k])])
    [] c.type = "REDIR" -> redircmd(Terminated(c.cmd, s, zeros), String(c.file), c.mode)
    [] c.type = "BACK" -> backcmd(Terminated(c.cmd, s, zeros))
    [] OTHER -> [type |-> c.type, left |-> Terminated(c.left, s, zeros), right |-> Terminated(c.right, s, zeros)]

\* parsecmd(): nothing may be left over.
Complete(c, s) ==
  IF ~c.ok \/ SkipBlanks(s, c.pos) # Len(s) + 1 THEN Failed
  ELSE Parsed(Terminated(c.cmd, s, nulterminate(c.cmd)), c.pos)

parsecmd(s) == Complete(parseline(s, 1), s)
-----------------------------------------------------------------------------
(* The grammar.                                                            *)

\* The tokens of a line,
RECURSIVE TokensFrom(_, _)
TokensFrom(s, i) ==
  LET t == gettoken(s, i) IN
  IF t.tok = None THEN <<>>
  ELSE <<[tok |-> t.tok, text |-> SubSeq(s, t.word[1], t.word[2] - 1)]>> \o TokensFrom(s, t.pos)

Redirects == {"<", ">", "+"}
RedirsIn(t, i, j) == {k \in i..j - 1 : t[k].tok \in Redirects}

\* ... c with the redirections among t[i], ..., t[j - 1],
Redirected(c, t, i, j) ==
  FoldLeft(LAMBDA d, k : redircmd(d, t[k + 1].text, t[k].tok), c, SetToSortSeq(RedirsIn(t, i, j), <))

\* ... the simple commands these tokens can be: words and redirections,
Simple(t, i, j) ==
  LET redirs == RedirsIn(t, i, j)
      words == {k \in i..j - 1 : t[k].tok = "a" /\ k - 1 \notin redirs}
      Texts == [n \in 1..Cardinality(words) |-> t[SetToSortSeq(words, <)[n]].text]
  IN  IF /\ \A k \in redirs : k + 1 < j /\ t[k + 1].tok = "a"
         /\ \A k \in i..j - 1 : t[k].tok \in Redirects \cup {"a"}
         /\ Cardinality(words) < MAXARGS
      THEN {Redirected(execcmd(Texts), t, i, j)} ELSE {}

\* ... and all the commands they can be.
RECURSIVE Lines(_, _, _)
Blocks(t, i, j) ==
  LET ends == {k \in i + 1..j - 1 : /\ t[i].tok = "(" /\ t[k].tok = ")"
                                    /\ Simple(t, k + 1, j) # {}
                                    /\ 2 * Cardinality(RedirsIn(t, k + 1, j)) = j - k - 1}
  IN  UNION {{Redirected(c, t, k + 1, j) : c \in Lines(t, i + 1, k)} : k \in ends}

RECURSIVE Pipes(_, _, _)
Pipes(t, i, j) ==
  LET Execs(k) == Simple(t, i, k) \cup Blocks(t, i, k) IN
  Execs(j) \cup UNION {{pipecmd(l, r) : l \in Execs(k), r \in Pipes(t, k + 1, j)}
                        : k \in {k \in i..j - 1 : t[k].tok = "|"}}

\* A pipeline and any number of &.
RECURSIVE Backs(_, _, _)
Backs(t, i, j) ==
  Pipes(t, i, j) \cup (IF j > i /\ t[j - 1].tok = "&" THEN {backcmd(c) : c \in Backs(t, i, j - 1)} ELSE {})

Lines(t, i, j) ==
  Backs(t, i, j) \cup UNION {{listcmd(l, r) : l \in Backs(t, i, k), r \in Lines(t, k + 1, j)}
                             : k \in {k \in i..j - 1 : t[k].tok = ";"}}

\* What sh.c makes of a line is the one command the grammar allows, and it
\* reports an error exactly when there is none: no token is lost, words end
\* where the 0 written by nulterminate() says they do, the operators bind as
\* they should and a redirection belongs to its command.
Parses(s) ==
  LET t == TokensFrom(s, 1)
      c == parsecmd(s)
  IN  Lines(t, 1, Len(t) + 1) = IF c.ok THEN {c.cmd} ELSE {}
=============================================================================
