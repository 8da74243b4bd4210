------------------------------- MODULE Strings -------------------------------
(***************************************************************************)
(* Moving, comparing and printing bytes: kernel/string.c, user/ulib.c,     *)
(* kernel/printf.c, user/printf.c, the copies between kernel and user      *)
(* memory of kernel/vm.c, and skipelem(), namecmp() and dirlink() of       *)
(* kernel/fs.c, which depend on how strings end.                           *)
(*                                                                         *)
(* Memory and buffers are functions from addresses to characters; a string *)
(* is the sequence of its characters before the terminating Nul.           *)
(***************************************************************************)
EXTENDS Integers, Sequences, FiniteSets, SequencesExt, FiniteSetsExt

CONSTANTS DIRSIZ,
          PGSIZE,
          WIDTH,     \* of an int, in bits
          NIBBLES    \* hexadecimal digits of a uint64

NUL == "nul"
CharAt(t, i) == IF i <= Len(t) THEN t[i] ELSE NUL
-----------------------------------------------------------------------------
(* Overlapping moves.                                                      *)

Forward(m, d, s, n) ==
  FoldLeft(LAMBDA x, i : [x EXCEPT ![d + i] = x[s + i]], m, [i \in 1..n |-> i - 1])

Backward(m, d, s, n) ==
  FoldLeft(LAMBDA x, i : [x EXCEPT ![d + i] = x[s + i]], m, [i \in 1..n |-> n - i])

\* memmove() of the kernel and of the user library.
memmove(m, d, s, n) == IF s < d /\ s + n > d THEN Backward(m, d, s, n) ELSE Forward(m, d, s, n)
user_memmove(m, d, s, n) == IF s > d THEN Forward(m, d, s, n) ELSE Backward(m, d, s, n)

\* Both put the old contents of the source into the destination, however the
\* two overlap, and change nothing else.
MovesRight(m, d, s, n) ==
  LET moved == [a \in DOMAIN m |-> IF a \in d..d + n - 1 THEN m[s + a - d] ELSE m[a]]
  IN  memmove(m, d, s, n) = moved /\ user_memmove(m, d, s, n) = moved
-----------------------------------------------------------------------------
(* User memory: page va \div PGSIZE is in physical page pt[va \div PGSIZE], *)
(* or not mapped where that is 0.                                          *)

walkaddr(pt, va) == IF va \div PGSIZE \in DOMAIN pt THEN pt[va \div PGSIZE] ELSE 0

\* How many of the len bytes at va are in its page, and where it is.
InPage(va, len) == Min({PGSIZE - (va % PGSIZE), len})
Physical(pt, va) == walkaddr(pt, va) * PGSIZE + (va % PGSIZE)
NextPage(va) == (va \div PGSIZE + 1) * PGSIZE

\* copyout() of the bytes src to va.
RECURSIVE copyout(_, _, _, _)
copyout(m, pt, va, src) ==
  LET n == InPage(va, Len(src))
      at == Physical(pt, va)
      copied == [a \in DOMAIN m |-> IF a \in at..at + n - 1 THEN src[a - at + 1] ELSE m[a]]
  IN  IF src = <<>> THEN [ok |-> TRUE, mem |-> m]
      ELSE IF walkaddr(pt, va) = 0 THEN [ok |-> FALSE, mem |-> m]
      ELSE copyout(copied, pt, NextPage(va), SubSeq(src, n + 1, Len(src)))

\* copyin() of len bytes at va, after those in dst.
RECURSIVE copyin(_, _, _, _, _)
copyin(m, pt, dst, va, len) ==
  LET n == InPage(va, len)
      at == Physical(pt, va)
  IN  IF len = 0 THEN [ok |-> TRUE, dst |-> dst]
      ELSE IF walkaddr(pt, va) = 0 THEN [ok |-> FALSE, dst |-> dst]
      ELSE copyin(m, pt, dst \o [i \in 1..n |-> m[at + i - 1]], NextPage(va), len - n)

\* copyinstr() of up to max bytes.
RECURSIVE copyinstr(_, _, _, _, _)
copyinstr(m, pt, dst, va, max) ==
  LET n == InPage(va, max)
      at == Physical(pt, va)
      nuls == {i \in 1..n : m[at + i - 1] = NUL}
      last == IF nuls = {} THEN n ELSE Min(nuls)
      more == dst \o [i \in 1..last |-> m[at + i - 1]]
  IN  IF max = 0 \/ walkaddr(pt, va) = 0 THEN [ok |-> FALSE, dst |-> dst]
      ELSE IF nuls # {} THEN [ok |-> TRUE, dst |-> more]
      ELSE copyinstr(m, pt, more, NextPage(va), max - n)

\* The copies see user memory as the process does, across pages that are
\* anywhere in physical memory: they succeed exactly when all of it (or the
\* string, with its Nul among the first n bytes) is mapped, and then copy just that.
CopiesRight(m, pt, va, src) ==
  LET n == Len(src)
      Mapped(a) == walkaddr(pt, a) # 0
      Byte(a) == m[Physical(pt, a)]
      range == va..va + n - 1
      whole == \A a \in range : Mapped(a)
      in == copyin(m, pt, <<>>, va, n)
      o == copyout(m, pt, va, src)
      ends == {k \in 1..n : Byte(va + k - 1) = NUL /\ \A a \in va..va + k - 1 : Mapped(a)}
      str == copyinstr(m, pt, <<>>, va, n)
  IN  /\ in.ok = whole /\ o.ok = whole /\ str.ok = (ends # {})
      /\ whole => in.dst = [i \in 1..n |-> Byte(va + i - 1)]
      /\ str.ok => str.dst = [i \in 1..Min(ends) |-> Byte(va + i - 1)]
      /\ whole => o.mem = [a \in DOMAIN m |-> IF \E b \in range : Physical(pt, b) = a
                                              THEN src[(CHOOSE b \in range : Physical(pt, b) = a) - va + 1]
                                              ELSE m[a]]
-----------------------------------------------------------------------------
(* Names of up to DIRSIZ characters, which end in a Nul if they are        *)
(* shorter.  A definition with the name of another one and a suffix is a   *)
(* wrong version of it that no specification uses.                         *)

\* strncpy() of t to the first n places of buf.
strncpy(buf, t, n) == [i \in DOMAIN buf |-> IF i <= n THEN CharAt(t, i) ELSE buf[i]]

\* strncmp() is 0.
strncmp(p, q, n) ==
  LET stop == {i \in 1..n : p[i] = NUL \/ p[i] # q[i]}
  IN  stop = {} \/ p[Min(stop)] = q[Min(stop)]

\* safestrcpy().
safestrcpy(buf, t, n) ==
  LET len == Min({n - 1, Len(t)})
  IN  [i \in DOMAIN buf |-> IF i <= len THEN t[i] ELSE IF i = len + 1 THEN NUL ELSE buf[i]]

\* dirlink() stores a name, namecmp() compares one with it.
dirlink(name) == strncpy([i \in 1..DIRSIZ |-> "old"], name, DIRSIZ)
namecmp(name, de) == strncmp(name, de, DIRSIZ)


\* What skipelem() leaves in the buffer for the name, which still holds the
\* element before.
PutName(buf, s) ==
  [i \in DOMAIN buf |-> IF i <= Len(s) THEN s[i] ELSE IF i = Len(s) + 1 THEN NUL ELSE buf[i]]

SkipSlashes(path) == LET i == Min({j \in 1..Len(path) + 1 : CharAt(path, j) # "/"})
                     IN  SubSeq(path, i, Len(path))

\* skipelem(): the rest of the path and the name, or no path.
skipelem(path, buf) ==
  LET p == SkipSlashes(path)
      e == Min({j \in 1..Len(p) + 1 : CharAt(p, j) \in {"/", NUL}})
  IN  IF p = <<>> THEN [ok |-> FALSE, path |-> <<>>, name |-> buf]
      ELSE [ok |-> TRUE, path |-> SkipSlashes(SubSeq(p, e, Len(p))), name |-> PutName(buf, SubSeq(p, 1, e - 1))]

\* The names that namex() looks up, one after the other, in one buffer.
RECURSIVE Lookups(_, _)
Lookups(path, buf) ==
  LET r == skipelem(path, buf)
  IN  IF r.ok THEN <<r.name>> \o Lookups(r.path, r.name) ELSE <<>>

\* The elements of a path.
Elements(path) ==
  LET starts == {i \in DOMAIN path : path[i] # "/" /\ (i = 1 \/ path[i - 1] = "/")}
      End(i) == Min({j \in i..Len(path) + 1 : CharAt(path, j) \in {"/", NUL}})
  IN  [k \in 1..Cardinality(starts) |->
         LET i == SetToSortSeq(starts, <)[k] IN SubSeq(path, i, End(i) - 1)]

Prefix(s) == SubSeq(s, 1, Min({DIRSIZ, Len(s)}))

\* The lookups are those of the elements of the path, in order, and a name
\* matches a directory entry if their first DIRSIZ characters are the same,
\* whatever was in the buffers before.
NamesMatch(path, entry) ==
  LET found == Lookups(path, [i \in 1..DIRSIZ |-> "old"])
      elems == Elements(path)
  IN  /\ Len(found) = Len(elems)
      /\ \A k \in DOMAIN found : namecmp(found[k], dirlink(entry)) = (Prefix(elems[k]) = Prefix(entry))
      /\ \A k \in DOMAIN elems : \A n \in 1..DIRSIZ + 1 :
           strncmp(safestrcpy([i \in 1..DIRSIZ + 1 |-> "old"], elems[k], n),
                   [i \in 1..DIRSIZ + 1 |-> IF i < n THEN CharAt(elems[k], i) ELSE NUL], DIRSIZ + 1)
-----------------------------------------------------------------------------
(* Numbers.                                                                *)

Unsigned(x) == x % 2^WIDTH

\* Least significant digit first.
RECURSIVE Digits(_, _)
Digits(x, base) == <<x % base>> \o (IF x \div base = 0 THEN <<>> ELSE Digits(x \div base, base))

\* printint(), in the kernel and in the library.
printint(xx, base, sign) ==
  LET neg == sign /\ xx < 0
  IN  (IF neg THEN <<"-">> ELSE <<>>) \o Reverse(Digits(Unsigned(IF neg THEN -xx ELSE xx), base))

printptr(x) ==
  <<0, "x">> \o [i \in 1..NIBBLES |-> ((x * 16^(i - 1)) % 16^NIBBLES) \div 16^(NIBBLES - 1)]

\* atoi().
atoi(s) == FoldLeft(LAMBDA n, d : Unsigned(n * 10 + d), 0, s)

Value(s, base) == FoldLeft(LAMBDA n, d : n * base + d, 0, s)

\* A printed number is the number: all digits, once, in order, also for the
\* smallest int; and atoi() reads it back.
PrintsNumber(x) ==
  \A base \in {10, 16} :
    LET s == printint(x, base, TRUE)
        digits == IF x < 0 THEN Tail(s) ELSE s
    IN  /\ x < 0 => s[1] = "-"
        /\ digits # <<>> /\ Value(digits, base) = (IF x < 0 THEN -x ELSE x)
        /\ Len(digits) > 1 => digits[1] # 0
        /\ Value(printint(x, base, FALSE), base) = Unsigned(x)
        /\ x >= 0 => atoi(printint(x, 10, TRUE)) = x /\ Value(Tail(Tail(printptr(x))), 16) = x
-----------------------------------------------------------------------------
(* printf: a format is a sequence of characters, args the arguments: ints, *)
(* or strings, Null for a null pointer.                                    *)

Null == <<"null">>

\* printf() of the kernel, from fmt[i] on.
RECURSIVE kernel_printf(_, _, _)
kernel_printf(fmt, i, args) ==
  LET c == CharAt(fmt, i + 1)
      directive ==
        CASE c = "d" -> printint(Head(args), 10, TRUE)
          [] c = "x" -> printint(Head(args), 16, TRUE)
          [] c = "p" -> printptr(Head(args))
          [] c = "s" -> IF Head(args) = Null THEN <<"(null)">> ELSE Head(args)
          [] c = "%" -> <<"%">>
          [] OTHER -> <<"%", c>>
  IN  IF i > Len(fmt) THEN <<>>
      ELSE IF fmt[i] # "%" THEN <<fmt[i]>> \o kernel_printf(fmt, i + 1, args)
      ELSE IF c = NUL THEN <<>>
      ELSE directive \o kernel_printf(fmt, i + 2, IF c \in {"d", "x", "p", "s"} THEN Tail(args) ELSE args)

\* One turn of the loop of vprintf(): its state, the arguments left, the output.
VprintfStep(st, c) ==
  LET a == Head(st.args)
      Out(s) == [st EXCEPT !.percent = FALSE, !.out = @ \o s]
      Used(s) == [Out(s) EXCEPT !.args = Tail(@)]
  IN  CASE ~st.percent /\ c = "%" -> [st EXCEPT !.percent = TRUE]
        [] ~st.percent /\ c # "%" -> Out(<<c>>)
        [] st.percent /\ c = "d" -> Used(printint(a, 10, TRUE))
        [] st.percent /\ c = "l" -> Used(printint(a, 10, FALSE))
        [] st.percent /\ c = "x" -> Used(printint(a, 16, FALSE))
        [] st.percent /\ c = "p" -> Used(printptr(a))
        [] st.percent /\ c = "s" -> Used(IF a = Null THEN <<"(null)">> ELSE a)
        [] st.percent /\ c = "c" -> Used(<<a>>)
        [] st.percent /\ c = "%" -> Out(<<"%">>)
        [] OTHER -> Out(<<"%", c>>)

vprintf(fmt, args) == FoldLeft(VprintfStep, [percent |-> FALSE, args |-> args, out |-> <<>>], fmt).out

\* The directives that occur in a format.
RECURSIVE Directives(_)
Directives(fmt) ==
  IF fmt = <<>> THEN <<>>
  ELSE IF fmt[1] # "%" THEN Directives(Tail(fmt))
  ELSE IF Len(fmt) = 1 THEN <<>>
  ELSE <<fmt[2]>> \o Directives(SubSeq(fmt, 3, Len(fmt)))

\* An argument of the right type for each directive.
Args(fmt, x, str) ==
  LET ds == SelectSeq(Directives(fmt), LAMBDA c : c \in {"d", "x", "p", "s"})
  IN  [k \in DOMAIN ds |-> CASE ds[k] = "s" -> str
                             [] ds[k] = "d" -> x
                             [] OTHER -> IF x < 0 THEN -(x + 1) ELSE x]

\* The printf() of the kernel and that of the library, a loop with an index and
\* a state machine, print the same but for the case of hexadecimal digits, and
\* take the same arguments, for formats of the directives both know.
PrintfsAgree(fmt, x, str) ==
  (\A k \in DOMAIN Directives(fmt) : Directives(fmt)[k] \notin {"l", "c"})
    => kernel_printf(fmt, 1, Args(fmt, x, str)) = vprintf(fmt, Args(fmt, x, str))
=============================================================================
