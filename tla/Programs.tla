------------------------------ MODULE Programs ------------------------------
(***************************************************************************)
(* User programs: init, the shell, and the commands primes, pingpong,      *)
(* xargs, find, grep, cat and echo, on the system calls they make.         *)
(*                                                                         *)
(* A process is the list of what it still has to do: system calls, and     *)
(* labels, which stand for the code after a call and see what it returned. *)
(* The code between two calls runs in the step of the first one.  A system *)
(* call is one step; Files, Pipe and Proc have their insides.  Data goes   *)
(* through descriptors in items: a number, a word, a character.            *)
(***************************************************************************)
EXTENDS ShellParser, Regex

CONSTANTS NOFILE, NFILE, PIPESIZE,
          Scripts,       \* what is typed, and how many processes and pipes there may be
          Content, Kids, Name,   \* the files, the directories, and their names
          MAXSH,         \* bound: how often init starts a shell
          LINE,          \* the size of the shell's buffer
          LIMIT,         \* the last number primes sieves
          XBUF, MAXARG,  \* the buffer of xargs, and the arguments it can pass
          GBUF, CBUF,    \* the buffers of grep and cat
          MAXPATH        \* how deep the paths are that find can hold

VARIABLES
  script,  \* one of Scripts
  input,   \* what has been typed and not been read
  proc,    \* the processes; 1 is init
  file,    \* the open files
  data,    \* what is in each pipe
  content, \* what is in each file
  out,     \* what has been written to the console
  failed   \* a process or a pipe could not be had

vars == <<script, input, proc, file, data, content, out, failed>>

NPROC == Max({s.nproc : s \in Scripts})
NPIPE == Max({s.npipe : s \in Scripts})
Fds == 0..NOFILE - 1
Free == [st |-> "free", parent |-> 0, fd |-> [d \in Fds |-> 0], code |-> <<>>]
Console == 1    \* its open file
Newline == "\n"
-----------------------------------------------------------------------------
(* System calls.                                                           *)

Close(d) == <<"close", d>>
Dup(d) == <<"dup", d>>
Pipe == <<"pipe">>
Open(name, mode) == <<"open", name, mode>>
Read(d, n) == <<"read", d, n>>
Write(d, s) == <<"write", d, s>>
Gets == <<"gets">>
Fork == <<"fork">>
Exec(argv) == <<"exec", argv>>
Wait == <<"wait">>
Exit == <<"exit">>
Halt == <<"halt">>  \* the bound MAXSH is reached
Calls == {"close", "dup", "pipe", "open", "read", "write", "gets", "fork", "exec", "wait", "exit", "halt"}
-----------------------------------------------------------------------------
(* The programs: what follows label l when the call before it returned r.  *)
(* A definition with the name of another one and a suffix is a wrong       *)
(* version of it that no specification uses.                               *)

\* init: start a shell, and reap processes until it is the shell.
init(l, r) ==
  CASE l[2] = "start" -> IF l[3] = 0 THEN <<Wait, <<"init", "last">>>> ELSE <<Fork, <<"init", "fork", l[3]>>>>
    [] l[2] = "fork" -> CASE r = -1 -> <<Exit>>
                          [] r = 0 -> <<Exec(<<<<"sh">>>>), Exit>>
                          [] OTHER -> <<Wait, <<"init", "wait", l[3], r>>>>
    [] l[2] = "wait" -> CASE r = l[4] -> <<<<"init", "start", l[3] - 1>>>>
                          [] r = -1 -> <<Exit>>
                          [] OTHER -> <<Wait, l>>
    [] l[2] = "last" -> IF r = -1 THEN <<Halt>> ELSE <<Wait, l>>

\* main() of the shell; cd, which is not a process, does not change the
\* absolute names used here.  A syntax error ends the child only.
sh(l, r) ==
  CASE l[2] = "start" -> <<Open("console", "<"), <<"sh", "open">>>>
    [] l[2] = "open" -> IF r >= 3 THEN <<Close(r), <<"sh", "loop">>>> ELSE <<<<"sh", "start">>>>
    [] l[2] = "loop" -> <<Gets, <<"sh", "gets">>>>
    [] l[2] = "gets" -> IF r = <<>> THEN <<Exit>> ELSE IF r[1] = "cd" THEN <<<<"sh", "loop">>>> ELSE <<Fork, <<"sh", "fork", r>>>>
    [] l[2] = "fork" ->
         CASE r = -1 -> <<Exit>>
           [] r = 0 -> LET c == parsecmd(l[3]) IN IF c.ok THEN <<<<"runcmd", "start", c.cmd>>>> ELSE <<Exit>>
           [] OTHER -> <<Wait, <<"sh", "loop">>>>

PipeLeft_KeepEnd(c, p) == <<Close(1), Dup(p[2]), Close(p[1]), <<"runcmd", "start", c>>>>

\* The child at the left, and at the right, of a pipe p.
PipeLeft(c, p) == <<Close(1), Dup(p[2]), Close(p[1]), Close(p[2]), <<"runcmd", "start", c>>>>

PipeRight(c, p) == <<Close(0), Dup(p[1]), Close(p[1]), Close(p[2]), <<"runcmd", "start", c>>>>

PipeParent_WaitFirst(p) == <<Wait, Wait, Close(p[1]), Close(p[2]), Exit>>

\* The shell between them.
PipeParent(p) == <<Close(p[1]), Close(p[2]), Wait, Wait, Exit>>

\* runcmd().
runcmd(l, r) ==
  LET c == l[3]
      Forked(child, parent) == CASE r = -1 -> <<Exit>> [] r = 0 -> child [] OTHER -> parent
  IN
  CASE l[2] = "start" ->
         (CASE c.type = "EXEC" -> IF c.argv = <<>> THEN <<Exit>> ELSE <<Exec(c.argv), Exit>>
            [] c.type = "REDIR" -> <<Close(IF c.mode = "<" THEN 0 ELSE 1), Open(c.file[1], c.mode),
                                     <<"runcmd", "redir", c>>>>
            [] c.type = "LIST" -> <<Fork, <<"runcmd", "list", c>>>>
            [] c.type = "PIPE" -> <<Pipe, <<"runcmd", "pipe", c>>>>
            [] c.type = "BACK" -> <<Fork, <<"runcmd", "back", c>>>>)
    [] l[2] = "redir" -> IF r = -1 THEN <<Exit>> ELSE <<<<"runcmd", "start", c.cmd>>>>
    [] l[2] = "list" -> Forked(<<<<"runcmd", "start", c.left>>>>, <<Wait, <<"runcmd", "start", c.right>>>>)
    [] l[2] = "pipe" -> IF r = <<>> THEN <<Exit>> ELSE <<Fork, <<"runcmd", "left", c, r>>>>
    [] l[2] = "left" -> Forked(PipeLeft(c.left, l[4]), <<Fork, <<"runcmd", "right", c, l[4]>>>>)
    [] l[2] = "right" -> Forked(PipeRight(c.right, l[4]), PipeParent(l[4]))
    [] l[2] = "back" -> Forked(<<<<"runcmd", "start", c.cmd>>>>, <<Exit>>)

\* main() and sieve() of primes.  fork() is not checked for failure.
primes(l, r) ==
  LET left == l[3]
      right == l[5]
  IN
  CASE l[2] = "main" -> <<Fork, <<"primes", "fork", r>>>>
    [] l[2] = "fork" ->
         IF r = 0 THEN <<Close(left[2]), <<"primes", "sieve", left>>>>
         ELSE <<Close(left[1])>> \o [i \in 1..LIMIT - 1 |-> Write(left[2], <<i + 1>>)]
                \o <<Close(left[2]), Wait, Exit>>
    [] l[2] = "sieve" -> <<Close(left[2]), Read(left[1], 1), <<"primes", "first", left>>>>
    [] l[2] = "first" -> IF r = <<>> THEN <<Close(left[1]), Exit>>
                         ELSE <<Write(1, r), Pipe, <<"primes", "pipe", left, r[1]>>>>
    [] l[2] = "pipe" -> IF r = <<>> THEN <<Exit>> ELSE <<Fork, <<"primes", "next", left, l[4], r>>>>
    [] l[2] = "next" -> IF r = 0 THEN <<Close(right[2]), Close(left[1]), <<"primes", "sieve", right>>>>
                        ELSE <<Close(right[1]), Read(left[1], 1), <<"primes", "filter", left, l[4], right>>>>
    [] l[2] = "filter" ->
         IF r = <<>> THEN <<Close(left[1]), Close(right[2]), Wait, Exit>>
         ELSE (IF r[1] % l[4] # 0 THEN <<Write(right[2], r)>> ELSE <<>>) \o <<Read(left[1], 1), l>>

\* main() of pingpong, with the pipes p2c and c2p.
pingpong(l, r) ==
  CASE l[2] = "main" -> <<Pipe, <<"pingpong", "pipe", r>>>>
    [] l[2] = "pipe" -> <<Fork, <<"pingpong", "fork", l[3], r>>>>
    [] l[2] = "fork" ->
         LET p2c == l[3]
             c2p == l[4]
         IN  CASE r = -1 -> <<Exit>>
               [] r = 0 -> <<Close(p2c[2]), Close(c2p[1]), Read(p2c[1], 1), Write(1, <<"ping">>),
                             Write(c2p[2], <<"x">>), Close(p2c[1]), Close(c2p[2]), Exit>>
               [] OTHER -> <<Close(p2c[1]), Close(c2p[2]), Write(p2c[2], <<"x">>), Close(p2c[2]),
                             Read(c2p[1], 1), Write(1, <<"pong">>), Close(c2p[1]), Wait, Exit>>

\* echo writes its arguments, with blanks between them.
echo(argv) ==
  FlattenSeq([k \in 1..Len(argv) - 1 |->
                <<Write(1, argv[k + 1]), Write(1, <<IF k + 1 < Len(argv) THEN " " ELSE Newline>>)>>]) \o <<Exit>>

\* A command with file arguments: f(fd) for each of them.
cat_fd(d) == <<Read(d, CBUF), <<"cat", "read", d>>>>
grep_fd(re, d) == <<Read(d, GBUF - 1), <<"grep", "read", re, d, <<>>>>>>

\* cat.
cat(l, r) ==
  CASE l[2] = "file" -> <<Open(l[3], "<"), <<"cat", "open">>>>
    [] l[2] = "open" -> IF r = -1 THEN <<Exit>> ELSE cat_fd(r) \o <<Close(r)>>
    [] l[2] = "read" -> IF r = <<>> THEN <<>> ELSE <<Write(1, r), <<"cat", "write", l[3], Len(r)>>>>
    [] l[2] = "write" -> IF r # l[4] THEN <<Exit>> ELSE cat_fd(l[3])

LastNewline(buf) == Max({0} \cup {i \in DOMAIN buf : buf[i] = Newline})

\* The lines of buf that end in a newline, with it.
FullLines(buf) ==
  LET ends == SetToSortSeq({i \in DOMAIN buf : buf[i] = Newline}, <)
  IN  [k \in DOMAIN ends |-> SubSeq(buf, IF k = 1 THEN 1 ELSE ends[k - 1] + 1, ends[k])]

MatchingLines(re, buf) == SelectSeq(FullLines(buf), LAMBDA t : match(re, SubSeq(t, 1, Len(t) - 1)))


\* The part of a line at the end of the buffer goes to its beginning.
KeepTail(buf) == SubSeq(buf, LastNewline(buf) + 1, Len(buf))

\* grep: l[5] is what is in the buffer.
grep(l, r) ==
  CASE l[2] = "file" -> <<Open(l[4], "<"), <<"grep", "open", l[3]>>>>
    [] l[2] = "open" -> IF r = -1 THEN <<Write(1, <<"cannot open">>), Exit>> ELSE grep_fd(l[3], r) \o <<Close(r)>>
    [] l[2] = "read" ->
         LET buf == l[5] \o r
             lines == MatchingLines(l[3], buf)
         IN  IF r = <<>> THEN <<>>
             ELSE [k \in DOMAIN lines |-> Write(1, lines[k])]
                    \o <<Read(l[4], GBUF - Len(KeepTail(buf)) - 1), <<"grep", "read", l[3], l[4], KeepTail(buf)>>>>

\* The words of a line.
Words(buf) ==
  LET starts == SetToSortSeq({i \in DOMAIN buf : buf[i] # " " /\ (i = 1 \/ buf[i - 1] = " ")}, <)
      End(i) == Min({j \in i..Len(buf) + 1 : j = Len(buf) + 1 \/ buf[j] = " "})
  IN  [k \in DOMAIN starts |-> SubSeq(buf, starts[k], End(starts[k]) - 1)]

\* xargs: l[3] is the fixed part of the arguments, l[4] the line so far.  A
\* line is complete at a newline, or when the buffer is full: the character
\* that does not fit any more is dropped.
xargs(l, r) ==
  LET next == <<Read(0, 1), <<"xargs", "read", l[3], <<>>>>>>
      args == l[3] \o Words(l[4])
  IN
  CASE l[2] = "main" -> next
    [] l[2] = "read" ->
         CASE r = <<>> -> <<Exit>>
           [] r # <<>> /\ r[1] # Newline /\ Len(l[4]) < XBUF - 1 ->
                <<Read(0, 1), <<"xargs", "read", l[3], l[4] \o r>>>>
           [] OTHER -> CASE Len(args) > MAXARG - 1 -> <<Exit>>
                         [] Len(args) = Len(l[3]) -> next
                         [] OTHER -> <<Fork, <<"xargs", "fork", l[3], l[4]>>>>
    [] l[2] = "fork" -> IF r = 0 THEN <<Exec(args), Exit>> ELSE <<Wait>> \o next

\* The entries of a directory, one after the other, and close(fd).
FindDir(path, name, depth, d) == FlattenSeq([k \in DOMAIN Kids[path] |->
    <<<<"find", "start", Kids[path][k], name, depth + 1>>>>]) \o <<Close(d)>>

\* find(path, name); depth stands for the length of the path.
find(l, r) ==
  LET path == l[3] IN
  CASE l[2] = "start" -> <<Open(path, "<"), <<"find", "open", path, l[4], l[5]>>>>
    [] l[2] = "open" ->
         CASE r = -1 -> <<Write(2, <<"cannot open">>)>>
           [] r # -1 /\ path \notin DOMAIN Kids ->
                (IF Name[path] = l[4] THEN <<Write(1, <<path>>), Write(1, <<Newline>>)>> ELSE <<>>) \o <<Close(r)>>
           [] r # -1 /\ path \in DOMAIN Kids /\ l[5] > MAXPATH -> <<Write(1, <<"path too long">>), Close(r)>>
           [] OTHER -> FindDir(path, l[4], l[5], r)

\* What a program starts with; there is none of another name.
Main(argv) ==
  LET cmd == argv[1] IN
  CASE cmd = <<"sh">> -> <<<<"sh", "start">>>>
    [] cmd = <<"echo">> -> echo(argv)
    [] cmd = <<"cat">> -> (IF Len(argv) = 1 THEN cat_fd(0)
                           ELSE [k \in 1..Len(argv) - 1 |-> <<"cat", "file", argv[k + 1][1]>>]) \o <<Exit>>
    [] cmd = <<"grep">> -> (IF Len(argv) = 2 THEN grep_fd(argv[2], 0)
                            ELSE [k \in 1..Len(argv) - 2 |-> <<"grep", "file", argv[2], argv[k + 2][1]>>]) \o <<Exit>>
    [] cmd = <<"primes">> -> <<Pipe, <<"primes", "main">>>>
    [] cmd = <<"pingpong">> -> <<Pipe, <<"pingpong", "main">>>>
    [] cmd = <<"xargs">> -> <<<<"xargs", "main", Tail(argv), <<>>>>>>
    [] cmd = <<"find">> -> <<<<"find", "start", argv[2][1], argv[3][1], 0>>, Exit>>

Exists(argv) == argv[1] \in {<<"sh">>, <<"echo">>, <<"cat">>, <<"grep">>, <<"primes">>, <<"pingpong">>,
                             <<"xargs">>, <<"find">>}

Program(l, r) ==
  CASE l[1] = "init" -> init(l, r) [] l[1] = "sh" -> sh(l, r) [] l[1] = "runcmd" -> runcmd(l, r)
    [] l[1] = "primes" -> primes(l, r) [] l[1] = "pingpong" -> pingpong(l, r)
    [] l[1] = "cat" -> cat(l, r) [] l[1] = "grep" -> grep(l, r)
    [] l[1] = "xargs" -> xargs(l, r) [] l[1] = "find" -> find(l, r)

\* The process runs to its next system call.
RECURSIVE Run(_, _)
Run(code, r) == IF code[1][1] \in Calls THEN code ELSE Run(Program(code[1], r) \o Tail(code), r)
-----------------------------------------------------------------------------
(* The system calls.                                                       *)

Doing(p, call) == proc[p].st = "run" /\ proc[p].code[1][1] = call
Arg(p, n) == proc[p].code[1][n + 1]
FileOf(p, d) == proc[p].fd[d]

\* The first call of p returns r.
Returns(p, r) == [proc EXCEPT ![p].code = Run(Tail(@), r)]

NoFile == [kind |-> "none", obj |-> 0, w |-> FALSE, off |-> 0]
Used(pr) == {pr[p].fd[d] : p \in DOMAIN pr, d \in Fds}

\* The two lowest of S, if it has them.
Lowest(S) == IF S = {} THEN <<>> ELSE <<Min(S)>> \o (IF Cardinality(S) = 1 THEN <<>> ELSE <<Min(S \ {Min(S)})>>)
FreeFiles == Lowest({f \in 1..NFILE : file[f] = NoFile})
FreeFds(p) == Lowest({d \in Fds : FileOf(p, d) = 0})

\* The ends of pipe k that are open, TRUE for the one to write to.
Ends(fl, k) == {fl[f].w : f \in {f \in 1..NFILE : fl[f].kind = "pipe" /\ fl[f].obj = k}}
FreePipes == {k \in 1..script.npipe : Ends(file, k) = {}}

\* After the descriptors changed: files nobody has open are closed.
Closed(pr) ==
  /\ proc' = pr
  /\ file' = [f \in 1..NFILE |-> IF f \in Used(proc') THEN file[f] ELSE NoFile]
  /\ data' = [k \in 1..NPIPE |-> IF Ends(file', k) = {} THEN <<>> ELSE data[k]]

Children(p) == {q \in DOMAIN proc : proc[q].st # "free" /\ proc[q].parent = p}
Zombies(p) == {q \in Children(p) : proc[q].st = "zombie"}

\* The call has to wait: for data in the pipe or its end, for room, for a child.
Waits(p) ==
  \/ /\ Doing(p, "read") \/ Doing(p, "write")
     /\ LET f == file[FileOf(p, Arg(p, 1))] IN
        /\ f.kind = "pipe"
        /\ Len(data[f.obj]) = IF f.w THEN PIPESIZE ELSE 0
        /\ (~f.w) \in Ends(file, f.obj)
  \/ Doing(p, "wait") /\ Children(p) # {} /\ Zombies(p) = {}
  \/ Doing(p, "halt")

Ready(p) == proc[p].st = "run" /\ ~Waits(p)

sys_close(p) ==
  /\ Doing(p, "close")
  /\ Closed([Returns(p, IF FileOf(p, Arg(p, 1)) = 0 THEN -1 ELSE 0) EXCEPT ![p].fd[Arg(p, 1)] = 0])
  /\ UNCHANGED <<script, input, content, out, failed>>

sys_dup(p) ==
  /\ Doing(p, "dup")
  /\ proc' = IF FreeFds(p) = <<>> THEN Returns(p, -1)
             ELSE [Returns(p, FreeFds(p)[1]) EXCEPT ![p].fd[FreeFds(p)[1]] = FileOf(p, Arg(p, 1))]
  /\ UNCHANGED <<script, input, file, data, content, out, failed>>

sys_pipe(p) ==
  LET k == Min(FreePipes)
      d == FreeFds(p)
      f == FreeFiles
      End(w) == [kind |-> "pipe", obj |-> k, w |-> w, off |-> 0]
  IN  /\ Doing(p, "pipe")
      /\ IF FreePipes = {} \/ Len(d) < 2 \/ Len(f) < 2
         THEN proc' = Returns(p, <<>>) /\ failed' = TRUE /\ UNCHANGED file
         ELSE /\ proc' = [Returns(p, <<d[1], d[2]>>) EXCEPT ![p].fd[d[1]] = f[1], ![p].fd[d[2]] = f[2]]
              /\ file' = [file EXCEPT ![f[1]] = End(FALSE), ![f[2]] = End(TRUE)]
              /\ UNCHANGED failed
      /\ UNCHANGED <<script, input, data, content, out>>

Absent == <<"absent">>

sys_open(p) ==
  LET name == Arg(p, 1)
      mode == Arg(p, 2)
      kind == CASE name = "console" -> "console" [] name \in DOMAIN Kids -> "dir" [] OTHER -> "file"
      d == FreeFds(p)
      f == FreeFiles
      there == kind # "file" \/ mode # "<" \/ content[name] # Absent
  IN  /\ Doing(p, "open")
      /\ IF ~there \/ d = <<>> \/ f = <<>>
         THEN proc' = Returns(p, -1) /\ UNCHANGED <<file, content>>
         ELSE /\ proc' = [Returns(p, d[1]) EXCEPT ![p].fd[d[1]] = f[1]]
              /\ file' = [file EXCEPT ![f[1]] = [kind |-> kind, obj |-> name, w |-> mode # "<", off |-> 0]]
              /\ content' = IF kind = "file" /\ (mode = ">" \/ content[name] = Absent)
                            THEN [content EXCEPT ![name] = <<>>] ELSE content
      /\ UNCHANGED <<script, input, data, out, failed>>

\* From a pipe: what there is, up to n items; wait while it is empty and can
\* still be written to.  The console has nothing for the commands.
sys_read(p) ==
  LET f == FileOf(p, Arg(p, 1))
      k == file[f].obj
      src == CASE file[f].kind = "pipe" -> data[k]
               [] file[f].kind = "file" -> SubSeq(content[k], file[f].off + 1, Len(content[k]))
               [] OTHER -> <<>>
      got == SubSeq(src, 1, Min({Arg(p, 2), Len(src)}))
      left == SubSeq(src, Len(got) + 1, Len(src))
  IN  /\ Doing(p, "read")
      /\ proc' = Returns(p, got)
      /\ data' = IF file[f].kind = "pipe" THEN [data EXCEPT ![k] = left] ELSE data
      /\ file' = IF file[f].kind = "file" THEN [file EXCEPT ![f].off = @ + Len(got)] ELSE file
      /\ UNCHANGED <<script, input, content, out, failed>>

\* To a pipe: as much as fits, then wait for room for the rest.
write_pipe(p, k, s) ==
  LET room == PIPESIZE - Len(data[k])
      n == Min({room, Len(s)})
  IN  IF FALSE \notin Ends(file, k) THEN proc' = Returns(p, -1) /\ UNCHANGED data
      ELSE /\ data' = [data EXCEPT ![k] = @ \o SubSeq(s, 1, n)]
           /\ proc' = IF n = Len(s) THEN Returns(p, n)
                      ELSE [proc EXCEPT ![p].code[1] = Write(Arg(p, 1), SubSeq(s, n + 1, Len(s)))]

sys_write(p) ==
  LET f == FileOf(p, Arg(p, 1))
      k == file[f].obj
      s == Arg(p, 2)
      Over(old) == SubSeq(old, 1, file[f].off) \o s \o SubSeq(old, file[f].off + Len(s) + 1, Len(old))
  IN  /\ Doing(p, "write")
      /\ \/ /\ file[f].kind = "pipe"
            /\ write_pipe(p, k, s)
            /\ UNCHANGED <<file, content, out>>
         \/ /\ file[f].kind = "file"
            /\ content' = [content EXCEPT ![k] = Over(@)]
            /\ file' = [file EXCEPT ![f].off = @ + Len(s)]
            /\ proc' = Returns(p, Len(s))
            /\ UNCHANGED <<data, out>>
         \/ /\ file[f].kind = "console"
            /\ out' = out \o s
            /\ proc' = Returns(p, Len(s))
            /\ UNCHANGED <<file, data, content>>
      /\ UNCHANGED <<script, input, failed>>

\* gets() from the console: a line, or nothing when there is no more.
gets(p) ==
  LET n == Min({LINE - 1, Len(input)} \cup {i \in DOMAIN input : input[i] = Newline}) IN
  /\ Doing(p, "gets")
  /\ proc' = Returns(p, SubSeq(input, 1, n))
  /\ input' = SubSeq(input, n + 1, Len(input))
  /\ UNCHANGED <<script, file, data, content, out, failed>>

fork(p) ==
  LET free == {q \in 1..script.nproc : proc[q].st = "free"}
      c == Min(free)
  IN  /\ Doing(p, "fork")
      /\ IF free = {} THEN proc' = Returns(p, -1) /\ failed' = TRUE
         ELSE /\ proc' = [Returns(p, c) EXCEPT ![c] = [proc[p] EXCEPT !.parent = p, !.code = Run(Tail(@), 0)]]
              /\ UNCHANGED failed
      /\ UNCHANGED <<script, input, file, data, content, out>>

exec(p) ==
  /\ Doing(p, "exec")
  /\ proc' = IF Exists(Arg(p, 1)) THEN [proc EXCEPT ![p].code = Run(Main(Arg(p, 1)), 0)] ELSE Returns(p, -1)
  /\ UNCHANGED <<script, input, file, data, content, out, failed>>

wait(p) ==
  /\ Doing(p, "wait")
  /\ \/ /\ Children(p) = {}
        /\ proc' = Returns(p, -1)
     \/ /\ Zombies(p) # {}
        /\ proc' = [Returns(p, Min(Zombies(p))) EXCEPT ![Min(Zombies(p))] = Free]
  /\ UNCHANGED <<script, input, file, data, content, out, failed>>

\* init adopts the children; it must not exit itself.
exit(p) ==
  /\ Doing(p, "exit")
  /\ Closed([q \in DOMAIN proc |->
               CASE q = p -> [Free EXCEPT !.st = "zombie", !.parent = proc[p].parent]
                 [] q \in Children(p) -> [proc[q] EXCEPT !.parent = 1]
                 [] OTHER -> proc[q]])
  /\ UNCHANGED <<script, input, content, out, failed>>
-----------------------------------------------------------------------------
\* init with the console open as its three first descriptors.
Init ==
  /\ script \in Scripts
  /\ input = script.typed
  /\ proc = [p \in 1..NPROC |->
               IF p = 1 THEN [st |-> "run", parent |-> 0, fd |-> [d \in Fds |-> IF d <= 2 THEN Console ELSE 0],
                              code |-> Run(<<<<"init", "start", MAXSH>>>>, 0)]
               ELSE Free]
  /\ file = [f \in 1..NFILE |-> IF f = Console THEN [NoFile EXCEPT !.kind = "console", !.w = TRUE] ELSE NoFile]
  /\ data = [k \in 1..NPIPE |-> <<>>]
  /\ content = Content
  /\ out = <<>>
  /\ failed = FALSE

Step(p) ==
  \/ sys_close(p) \/ sys_dup(p) \/ sys_pipe(p) \/ sys_open(p) \/ sys_read(p) \/ sys_write(p)
  \/ gets(p) \/ fork(p) \/ exec(p) \/ wait(p) \/ exit(p)

\* init has nothing to do any more and nobody else is left.
Done == Doing(1, "halt") /\ \A p \in DOMAIN proc : p # 1 => proc[p] = Free

Next == \E p \in DOMAIN proc : Ready(p) /\ Step(p)

\* While a process is ready, some process makes a step: WF_vars(Next), with
\* ENABLED Next written out.
Fairness == []<><<proc' # proc>>_vars \/ []<>(\A p \in DOMAIN proc : ~Ready(p))

Spec == Init /\ [][Next]_vars /\ Fairness
-----------------------------------------------------------------------------
(* What commands mean: a command turns its input and the files there are   *)
(* into its output and other files.                                        *)

Primes == {n \in 2..LIMIT : \A d \in 2..n - 1 : n % d # 0}

\* grep sees the lines before the first one that does not fit its buffer.
Seen(in) ==
  LET lines == FullLines(in)
      long == {k \in DOMAIN lines : Len(lines[k]) > GBUF - 1}
  IN  FlattenSeq(SubSeq(lines, 1, Min(long \cup {Len(lines) + 1}) - 1))

\* The files with a name, in the order of the entries; an element of a path
\* can be opened if there are descriptors for those before it.
RECURSIVE Found(_, _, _)
Found(path, name, depth) ==
  IF 3 + depth >= NOFILE THEN <<"cannot open">>
  ELSE IF path \notin DOMAIN Kids THEN IF Name[path] = name THEN <<path, Newline>> ELSE <<>>
  ELSE IF depth > MAXPATH THEN <<"path too long">>
  ELSE FlattenSeq([k \in DOMAIN Kids[path] |-> Found(Kids[path][k], name, depth + 1)])

RECURSIVE Output(_, _, _)
Output(argv, in, fs) ==
  LET Text(k) == fs[argv[k][1]]
      lines == SelectSeq(FullLines(in), LAMBDA t : Words(SubSeq(t, 1, Len(t) - 1)) # <<>>)
      Applied(t) == Output(Tail(argv) \o Words(SubSeq(t, 1, Len(t) - 1)), <<>>, fs)
  IN
  CASE argv[1] = <<"echo">> -> FlattenSeq([k \in 1..Len(argv) - 1 |-> argv[k + 1] \o <<IF k + 1 < Len(argv) THEN " " ELSE Newline>>])
    [] argv[1] = <<"cat">> -> IF Len(argv) = 1 THEN in ELSE FlattenSeq([k \in 1..Len(argv) - 1 |-> Text(k + 1)])
    [] argv[1] = <<"grep">> ->
         FlattenSeq(IF Len(argv) = 2 THEN MatchingLines(argv[2], Seen(in))
                    ELSE [k \in 1..Len(argv) - 2 |-> FlattenSeq(MatchingLines(argv[2], Seen(Text(k + 2))))])
    [] argv[1] = <<"primes">> -> SetToSortSeq(Primes, <)
    [] argv[1] = <<"pingpong">> -> <<"ping", "pong">>
    [] argv[1] = <<"xargs">> -> FlattenSeq([k \in DOMAIN lines |-> Applied(lines[k])])
    [] argv[1] = <<"find">> -> Found(argv[2][1], argv[3][1], 0)
    [] OTHER -> <<>>

RECURSIVE Meaning(_, _, _)
Meaning(c, in, fs) ==
  CASE c.type = "EXEC" -> [out |-> IF c.argv = <<>> THEN <<>> ELSE Output(c.argv, in, fs), fs |-> fs]
    [] c.type = "REDIR" /\ c.mode = "<" ->
         IF fs[c.file[1]] = Absent THEN [out |-> <<>>, fs |-> fs] ELSE Meaning(c.cmd, fs[c.file[1]], fs)
    [] c.type = "REDIR" /\ c.mode # "<" ->
         LET f == c.file[1]
             old == IF c.mode = ">" \/ fs[f] = Absent THEN <<>> ELSE fs[f]
             m == Meaning(c.cmd, in, [fs EXCEPT ![f] = old])
         IN  [out |-> <<>>, fs |-> [m.fs EXCEPT ![f] = m.out \o SubSeq(@, Len(m.out) + 1, Len(@))]]
    [] c.type = "LIST" -> LET l == Meaning(c.left, in, fs)
                              r == Meaning(c.right, <<>>, l.fs)
                          IN  [r EXCEPT !.out = l.out \o @]
    [] c.type = "PIPE" -> LET l == Meaning(c.left, in, fs) IN Meaning(c.right, l.out, l.fs)
    [] c.type = "BACK" -> Meaning(c.cmd, in, fs)

\* A line with a syntax error means nothing, and cd prints nothing.
LineMeaning(m, line) ==
  LET c == parsecmd(line)
      n == Meaning(c.cmd, <<>>, m.fs)
  IN  IF c.ok /\ line[1] # "cd" THEN [n EXCEPT !.out = m.out \o @] ELSE m

Expected == [s \in Scripts |-> FoldLeft(LineMeaning, [out |-> <<>>, fs |-> Content], FullLines(s.typed))]
-----------------------------------------------------------------------------
(* Properties.                                                             *)


\* A command starts with the descriptors 0, 1 and 2 and no other: no end of a
\* pipe leaks into it, which would keep a reader from seeing the end of file.
ExecClean ==
  [][\A p \in DOMAIN proc :
       Doing(p, "exec") /\ proc'[p] # proc[p] => \A d \in Fds : proc[p].fd[d] # 0 <=> d <= 2]_vars

\* Every command line comes to its end, also when fork() or pipe() fails in
\* the middle: nobody waits for ever for data, room or a child, everybody is
\* reaped, the orphans by init, and the shell is started again.
AllEnd == <>Done
=============================================================================
