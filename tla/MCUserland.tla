------------------------------ MODULE MCUserland ------------------------------
(***************************************************************************)
(* Programs, with typed command lines; and, each as a state of its own     *)
(* with call # NoCall, the calls of the parser, the matcher and the string *)
(* and printing functions with all small arguments.                        *)
(***************************************************************************)
EXTENDS Programs, Strings

CONSTANTS LINELEN,   \* bound: characters of a parsed line
          RELEN, TEXTLEN,  \* bounds: characters of a pattern and of a text
          PATHLEN,   \* bound: characters of a path
          MEMORY,    \* bound: cells that are moved about
          FMTLEN     \* bound: characters of a format

VARIABLE call

Typed(line) == [typed |-> line, nproc |-> 9, npipe |-> 5]
Empty == Typed(<<>>)

Files == {"./b", "./a/b", "./a/c/b", "./a/c/d/b", "h", "f"}

MCContent == [f \in Files |->
  CASE f = "f" -> Absent
    [] f = "h" -> <<"u", "v", "\n", "u", "\n", "v", "u", "u", "u", "\n", "u", "\n">>
    [] OTHER -> <<"u", "\n">>]

MCKids == [d \in {".", "./a", "./a/c", "./a/c/d"} |->
  CASE d = "." -> <<"./a", "./b">>
    [] d = "./a" -> <<"./a/c", "./a/b">>
    [] d = "./a/c" -> <<"./a/c/d", "./a/c/b">>
    [] OTHER -> <<"./a/c/d/b">>]

MCName == [f \in Files |-> IF f \in {"f", "h"} THEN f ELSE "b"]

\* find runs out of descriptors below ./a/c/d only if it starts at the top;
\* primes also runs with too few processes, and with too few pipes.
MCScripts ==
  {Empty} \cup {Typed(line) : line \in {
    <<"primes", "\n">>,
    <<"pingpong", "\n">>,
    <<"echo", " ", "u", "|", "cat", "|", "cat", "\n">>,
    <<"(", "echo", " ", "u", ";", "echo", " ", "v", ")", "|", "cat", ">", "f", "\n", "cat", "<", "f", "\n">>,
    <<"echo", " ", "u", ">", "f", "&", "\n", "cd", " ", ".", "\n">>,
    <<"echo", "|", "(", "\n", "none", "|", "cat", "\n", "cat", "<", "f", "\n", "echo", " ", "u", "\n">>,
    <<"echo", " ", "v", ">", "f", "\n", "echo", " ", "u", " ", "u", ">", ">", "f", "\n", "cat", " ", "f", " ", "f", "\n">>,
    <<"cat", " ", "h", "|", "grep", " ", "u", "\n">>,
    <<"find", " ", "./a/c", " ", "b", "|", "xargs", " ", "grep", " ", "u", "\n">>,
    <<"find", " ", ".", " ", "b", "\n">>,
    <<"echo", " ", "u", " ", "u", "|", "xargs", " ", "echo", " ", "v", "\n">>}}
  \cup {[typed |-> <<"primes", "\n">>, nproc |-> 5, npipe |-> 5],
        [typed |-> <<"primes", "\n">>, nproc |-> 9, npipe |-> 2]}

UpTo(S, n) == UNION {[1..k -> S] : k \in 0..n}

Letters == <<"a", "b", "c", "d", "e", "f", "g", "h", "i", "j", "A", "B", "C", "D", "E", "F">>

NoCall == [f |-> "none"]

Library ==
  \/ \E s \in UpTo({"x", " "} \cup Symbols, LINELEN) : call' = [f |-> "parsecmd", line |-> s]
  \/ \E re \in UpTo({"a", ".", "*", "^", "$"}, RELEN), t \in UpTo({"a", "b"}, TEXTLEN) :
       call' = [f |-> "match", re |-> re, text |-> t]
  \/ \E d, s \in 1..MEMORY : \E n \in 0..MEMORY + 1 - Max({d, s}) :
       call' = [f |-> "memmove", d |-> d, s |-> s, n |-> n]
  \/ \E pt \in [0..2 -> 0..3], va \in 0..5, n \in 0..6, nul \in 2..9 :
       /\ \A i, j \in 0..2 : i # j /\ pt[i] = pt[j] => pt[i] = 0
       /\ call' = [f |-> "copy", pt |-> pt, va |-> va, n |-> n, nul |-> nul]
  \/ \E p \in UpTo({"a", "b", "/"}, PATHLEN), e \in UpTo({"a", "b"}, DIRSIZ + 1) \ {<<>>} :
       call' = [f |-> "namex", path |-> p, entry |-> e]
  \/ \E x \in -2^(WIDTH - 1)..2^(WIDTH - 1) - 1 : call' = [f |-> "printint", x |-> x]
  \/ \E fmt \in UpTo({"%", "d", "x", "p", "s", "q"}, FMTLEN), x \in {-3, 12}, s \in {Null, <<"t">>} :
       call' = [f |-> "printf", fmt |-> fmt, x |-> x, str |-> s]

\* Nothing runs: the calls are made from here.
Idle ==
  /\ script = Empty /\ input = <<>> /\ content = Content /\ out = <<>> /\ failed = FALSE
  /\ proc = [p \in 1..NPROC |-> IF p = 1 THEN [Free EXCEPT !.st = "run", !.code = <<Halt>>] ELSE Free]
  /\ file = [f \in 1..NFILE |-> NoFile]
  /\ data = [k \in 1..NPIPE |-> <<>>]

MCInit == (Init \/ Idle) /\ call = NoCall
MCNext == (Next /\ UNCHANGED call) \/ (Idle /\ call = NoCall /\ Library /\ UNCHANGED vars)
MCSpec == MCInit /\ [][MCNext]_<<vars, call>> /\ Fairness

\* parsecmd() of sh.c builds, for every line, the one command tree that the
\* grammar of the shell gives it, or reports an error if it gives none.
ShellGrammar == call.f = "parsecmd" => Parses(call.line)

\* match() of grep.c finds a match exactly when the pattern describes a part
\* of the text: matchstar() tries the fewest characters first and misses none.
GrepMatches == call.f = "match" => MatchRight(call.re, call.text)

=============================================================================
