------------------------------- MODULE Memory -------------------------------
(***************************************************************************)
(* Physical pages and user address spaces: kernel/kalloc.c, the user half  *)
(* of kernel/vm.c, and the memory side of fork, sbrk, exec and exit in     *)
(* kernel/proc.c and kernel/exec.c.                                        *)
(*                                                                         *)
(* A page table is its tree: node <<3, 0>> is the root, <<l, va \div       *)
(* FAN^l>> the table of level l on the way to page va, <<0, va>> the leaf, *)
(* and each has the page it is in, or 0.  A step is one turn of a loop     *)
(* that takes pages; giving pages back only adds to the free list, so that *)
(* is one step however many pages it frees.  Which page kalloc() takes     *)
(* does not matter to anyone; here it is the lowest.                       *)
(***************************************************************************)
EXTENDS Integers, FiniteSets, FiniteSetsExt

CONSTANTS Procs, InitProc,
          NPAGES,      \* pages of physical memory
          FAN,         \* entries of a page table (512)
          PGSIZE,
          WIDTH,       \* bits of an int
          MAXSZ,       \* bound: the largest program size in an ELF file
          Grows, Shrinks   \* what sbrk is asked to add and to take away

ASSUME MemoryAssumption ==
  /\ InitProc \in Procs /\ {NPAGES, PGSIZE, WIDTH} \subseteq Nat \ {0} /\ FAN \in Nat \ {0, 1}
  /\ Grows \subseteq Nat \ {0} /\ Shrinks \subseteq Nat \ {0}
  \* Memory is smaller than the address space, and than an int by far.
  /\ NPAGES < FAN * FAN * FAN - 2 /\ (NPAGES + MAXSZ) * PGSIZE < 2 ^ WIDTH

VARIABLES
  free,    \* kmem.freelist
  tab,     \* page tables: p->pagetable and, in exec, the new one
  tf,      \* p->trapframe, or 0
  sz,      \* p->sz
  me,      \* where each process is in its system call
  bad      \* a panic

vars == <<free, tab, tf, sz, me, bad>>

VPages == 0..FAN * FAN * FAN - 1
TRAMPOLINE == FAN * FAN * FAN - 1
TRAPFRAME == FAN * FAN * FAN - 2
Special == {<<0, TRAMPOLINE>>, <<0, TRAPFRAME>>}
Text == NPAGES + 1         \* the kernel page with the trampoline
Nodes == {<<l, va \div FAN ^ l>> : l \in 0..3, va \in VPages}
Leaves == {<<0, va>> : va \in VPages}
RootNode == <<3, 0>>
NoTable == [n \in Nodes |-> 0]

\* PGROUNDUP(n)/PGSIZE.
PagesOf(n) == (n + PGSIZE - 1) \div PGSIZE

Idle == [pc |-> "user", a |-> 0, old |-> 0, new |-> 0, then |-> "none", nsz |-> 0,
         child |-> InitProc]
Unused == [Idle EXCEPT !.pc = "unused"]
-----------------------------------------------------------------------------
(* Operations on [f: free pages, t: a page table, ok, bad].  A definition  *)
(* with the name of another one and a suffix is a wrong version of it that *)
(* no specification uses.                                                  *)

State(t) == [f |-> free, t |-> t, ok |-> TRUE, bad |-> FALSE]

\* kalloc() for node n.
kalloc(s, n) ==
  IF s.f = {} THEN [s EXCEPT !.ok = FALSE]
  ELSE [s EXCEPT !.t[n] = Min(s.f), !.f = s.f \ {Min(s.f)}]

\* kfree() of the page of every node in N.
kfree(s, N) ==
  LET pages == {s.t[n] : n \in {x \in N : s.t[x] # 0}} IN
  [s EXCEPT !.f = @ \cup pages,
            !.t = [n \in Nodes |-> IF n \in N THEN 0 ELSE s.t[n]],
            !.bad = @ \/ pages \cap s.f # {} \/ ~(pages \subseteq 1..NPAGES)]

\* walk() with alloc = 1: the tables of levels 2 and 1.
walk(s, va) ==
  LET level(r, n) == IF r.ok /\ r.t[n] = 0 THEN kalloc(r, n) ELSE r
  IN  level(level(s, <<2, va \div (FAN * FAN)>>), <<1, va \div FAN>>)

\* mappages() for one page.
mappages(s, va, pa) ==
  LET w == walk(s, va) IN
  IF w.ok THEN [w EXCEPT !.t[<<0, va>>] = pa, !.bad = @ \/ w.t[<<0, va>>] # 0] ELSE w

\* uvmunmap() with do_free = 1, from page a up to page b.
Unmapped(s, a, b) ==
  LET N == {<<0, va>> : va \in a..b - 1} IN
  [kfree(s, N) EXCEPT !.bad = @ \/ \E n \in N : n \notin Nodes \/ s.t[n] = 0]

\* uvmunmap() with do_free = 0, of the trampoline and the trapframe.
UnmapSpecial(s) ==
  [s EXCEPT !.t = [n \in Nodes |-> IF n \in Special THEN 0 ELSE s.t[n]],
            !.bad = @ \/ \E n \in Special : s.t[n] = 0]

\* freewalk(): the tables, when no leaf is left.
freewalk(s) ==
  [kfree(s, Nodes \ Leaves) EXCEPT !.bad = @ \/ \E n \in Leaves : s.t[n] # 0]

uvmfree(s, n) == freewalk(Unmapped(s, 0, PagesOf(n)))

\* proc_freepagetable().
FreeTable(s, n) == uvmfree(UnmapSpecial(s), n)

GiveBack_Not(s, pg) == s.f

\* kfree(mem) when mappages() has failed.
GiveBack(s, pg) == s.f \cup {pg}

\* One turn of the loops of uvmalloc() and uvmcopy(): a page, and its mapping.
AddPage(s, va) ==
  IF s.f = {} THEN [s EXCEPT !.ok = FALSE]
  ELSE LET pg == Min(s.f)
           m == mappages([s EXCEPT !.f = @ \ {pg}], va, pg)
       IN  IF m.ok THEN m ELSE [m EXCEPT !.f = GiveBack(m, pg)]

\* proc_pagetable(): root, trampoline, trapframe; all or nothing.
proc_pagetable(s, frame) ==
  LET root == kalloc(s, RootNode)
      tramp == mappages(root, TRAMPOLINE, Text)
      both == mappages(tramp, TRAPFRAME, frame)
      clean == [both EXCEPT !.t[<<0, TRAMPOLINE>>] = 0]
  IN  IF ~root.ok THEN root
      ELSE IF tramp.ok /\ both.ok THEN both
      ELSE [uvmfree(IF tramp.ok THEN clean ELSE tramp, 0) EXCEPT !.ok = FALSE]
-----------------------------------------------------------------------------
(* System calls.                                                           *)

Become(s, k) == free' = s.f /\ tab' = [tab EXCEPT ![k] = s.t] /\ bad' = (bad \/ s.bad)

Go(p, r) == me' = [me EXCEPT ![p] = r]

\* p calls uvmalloc(table, oldsz, newsz): the loop starts at PGROUNDUP(oldsz).
uvmalloc(p, oldsz, newsz, then) ==
  [me[p] EXCEPT !.pc = "uvmalloc", !.a = PagesOf(oldsz), !.old = oldsz, !.new = newsz, !.then = then]

Key(p) == <<p, IF me[p].then = "grow" THEN "cur" ELSE "new">>

\* One turn of uvmalloc()'s loop.
uvmalloc_turn(p) ==
  LET s == AddPage(State(tab[Key(p)]), me[p].a) IN
  /\ me[p].pc = "uvmalloc" /\ me[p].a * PGSIZE < me[p].new
  /\ s.ok
  /\ Become(s, Key(p))
  /\ Go(p, [me[p] EXCEPT !.a = @ + 1])
  /\ UNCHANGED <<tf, sz>>

RollBack_Not(s, p) == s

\* uvmdealloc() of the pages mapped so far.
RollBack(s, p) == Unmapped(s, PagesOf(me[p].old), me[p].a)

\* There is no page, or no page for the tables: undo the call.
uvmalloc_fail(p) ==
  LET s == AddPage(State(tab[Key(p)]), me[p].a) IN
  /\ me[p].pc = "uvmalloc" /\ me[p].a * PGSIZE < me[p].new
  /\ ~s.ok
  /\ Become(RollBack(s, p), Key(p))
  /\ Go(p, IF me[p].then = "grow" THEN Idle ELSE [me[p] EXCEPT !.pc = "bad"])
  /\ UNCHANGED <<tf, sz>>

\* uvmalloc() returns newsz, or oldsz if that is larger; 0 is an error.
uvmalloc_ret(p) ==
  LET n == IF me[p].new < me[p].old THEN me[p].old ELSE me[p].new IN
  /\ me[p].pc = "uvmalloc" /\ me[p].a * PGSIZE >= me[p].new
  /\ sz' = [sz EXCEPT ![p] = IF me[p].then = "grow" THEN n ELSE @]
  /\ Go(p, CASE me[p].then = "grow" -> Idle
             [] me[p].then # "grow" /\ n = 0 -> [me[p] EXCEPT !.pc = "bad"]
             [] OTHER -> [Idle EXCEPT !.pc = me[p].then, !.nsz = n])
  /\ UNCHANGED <<free, tab, tf, bad>>

\* Unsigned arithmetic.
Uint(n) == n % 2 ^ WIDTH

\* growproc(): sz and sz + n are unsigned ints, so that a wrapped size
\* frees nothing.
growproc(p, n) ==
  LET new == Uint(sz[p] + n) IN
  /\ me[p].pc = "user"
  /\ \/ /\ n > 0
        /\ Go(p, uvmalloc(p, sz[p], new, "grow"))
        /\ UNCHANGED <<free, tab, sz, bad>>
     \/ /\ n < 0 /\ new < sz[p]
        /\ Become(Unmapped(State(tab[<<p, "cur">>]), PagesOf(new), PagesOf(sz[p])), <<p, "cur">>)
        /\ sz' = [sz EXCEPT ![p] = new]
        /\ UNCHANGED me
     \/ /\ n < 0 /\ new >= sz[p]
        /\ UNCHANGED <<free, tab, sz, bad, me>>
  /\ UNCHANGED tf

\* fork(): allocproc() takes a trapframe and makes a page table.
fork(p, c) ==
  LET frame == Min(free)
      s == proc_pagetable([State(NoTable) EXCEPT !.f = free \ {frame}], frame)
  IN  /\ me[p].pc = "user" /\ me[c].pc = "unused"
      /\ \/ /\ free = {}
            /\ Go(p, Idle)
            /\ UNCHANGED <<free, tab, tf, bad>>
         \/ /\ free # {} /\ ~s.ok
            /\ free' = s.f \cup {frame} /\ bad' = (bad \/ s.bad)
            /\ Go(p, Idle)
            /\ UNCHANGED <<tab, tf>>
         \/ /\ free # {} /\ s.ok
            /\ Become(s, <<c, "cur">>)
            /\ tf' = [tf EXCEPT ![c] = frame]
            /\ me' = [me EXCEPT ![p] = [Idle EXCEPT !.pc = "uvmcopy", !.child = c], ![c].pc = "used"]
      /\ UNCHANGED sz

\* One turn of uvmcopy()'s loop; the pages of the parent must be there.
uvmcopy(p) ==
  LET c == me[p].child
      s == AddPage(State(tab[<<c, "cur">>]), me[p].a)
  IN  /\ me[p].pc = "uvmcopy" /\ me[p].a * PGSIZE < sz[p]
      /\ s.ok
      /\ Become([s EXCEPT !.bad = @ \/ tab[<<p, "cur">>][<<0, me[p].a>>] = 0], <<c, "cur">>)
      /\ Go(p, [me[p] EXCEPT !.a = @ + 1])
      /\ UNCHANGED <<tf, sz>>

\* freeproc() of a process of size n that holds the pages s has for it.
Freed(s, c, n) ==
  LET r == FreeTable(s, n) IN
  [r EXCEPT !.f = @ \cup {tf[c]}, !.bad = @ \/ tf[c] \in r.f]

\* uvmcopy() fails: unmap what it copied, then freeproc(); np->sz is still 0.
uvmcopy_fail(p) ==
  LET c == me[p].child
      s == AddPage(State(tab[<<c, "cur">>]), me[p].a)
  IN  /\ me[p].pc = "uvmcopy" /\ me[p].a * PGSIZE < sz[p]
      /\ ~s.ok
      /\ Become(Freed(Unmapped(s, 0, me[p].a), c, sz[c]), <<c, "cur">>)
      /\ tf' = [tf EXCEPT ![c] = 0]
      /\ me' = [me EXCEPT ![p] = Idle, ![c] = Unused]
      /\ UNCHANGED sz

fork_ret(p) ==
  /\ me[p].pc = "uvmcopy" /\ me[p].a * PGSIZE >= sz[p]
  /\ sz' = [sz EXCEPT ![me[p].child] = sz[p]]
  /\ me' = [me EXCEPT ![p] = Idle, ![me[p].child] = Idle]
  /\ UNCHANGED <<free, tab, tf, bad>>

\* exit() leaves the memory to wait(), which calls freeproc().
exit(p) ==
  /\ me[p].pc = "user" /\ p # InitProc
  /\ Go(p, [Idle EXCEPT !.pc = "zombie"])
  /\ UNCHANGED <<free, tab, tf, sz, bad>>

freeproc(p) ==
  /\ me[p].pc = "zombie"
  /\ Become(Freed(State(tab[<<p, "cur">>]), p, sz[p]), <<p, "cur">>)
  /\ tf' = [tf EXCEPT ![p] = 0]
  /\ sz' = [sz EXCEPT ![p] = 0]
  /\ Go(p, Unused)

\* exec(): a new page table,
exec(p) ==
  LET s == proc_pagetable(State(NoTable), tf[p]) IN
  /\ me[p].pc = "user"
  /\ \/ s.ok /\ Go(p, [Idle EXCEPT !.pc = "load"])
     \/ ~s.ok /\ Go(p, Idle)
  /\ Become(s, <<p, "new">>)
  /\ UNCHANGED <<tf, sz>>

\* ... the segments of the program (it may turn out not to be one),
exec_seg(p) ==
  /\ me[p].pc = "load"
  /\ \/ \E n \in 0..MAXSZ : Go(p, uvmalloc(p, me[p].nsz, n, "load"))
     \/ Go(p, [me[p] EXCEPT !.pc = "bad"])
  /\ UNCHANGED <<free, tab, tf, sz, bad>>

\* ... two pages for the stack,
exec_stack(p) ==
  LET n == PGSIZE * PagesOf(me[p].nsz) IN
  /\ me[p].pc = "load"
  /\ Go(p, [uvmalloc(p, n, n + 2 * PGSIZE, "args") EXCEPT !.nsz = n])
  /\ UNCHANGED <<free, tab, tf, sz, bad>>

\* ... the arguments, if they fit; then exec() commits and frees the old image
exec_commit(p) ==
  LET s == FreeTable(State(tab[<<p, "cur">>]), sz[p]) IN
  /\ me[p].pc = "args"
  /\ tab' = [tab EXCEPT ![<<p, "cur">>] = tab[<<p, "new">>], ![<<p, "new">>] = s.t]
  /\ free' = s.f /\ bad' = (bad \/ s.bad)
  /\ sz' = [sz EXCEPT ![p] = me[p].nsz]
  /\ Go(p, Idle)
  /\ UNCHANGED tf

\* ... or the new one.
exec_bad(p) ==
  /\ me[p].pc \in {"bad", "args"}
  /\ Become(FreeTable(State(tab[<<p, "new">>]), me[p].nsz), <<p, "new">>)
  /\ Go(p, Idle)
  /\ UNCHANGED <<tf, sz>>
-----------------------------------------------------------------------------
\* userinit(): one process with one page.
FirstFrame == 1
First == AddPage(proc_pagetable([f |-> 2..NPAGES, t |-> NoTable, ok |-> TRUE, bad |-> FALSE],
                                FirstFrame), 0)

Init ==
  /\ free = First.f
  /\ tab = [k \in Procs \X {"cur", "new"} |-> IF k = <<InitProc, "cur">> THEN First.t ELSE NoTable]
  /\ tf = [p \in Procs |-> IF p = InitProc THEN FirstFrame ELSE 0]
  /\ sz = [p \in Procs |-> IF p = InitProc THEN PGSIZE ELSE 0]
  /\ me = [p \in Procs |-> IF p = InitProc THEN Idle ELSE Unused]
  /\ bad = FALSE

Next ==
  /\ ~bad
  /\ \E p \in Procs :
       \/ \E n \in Grows : growproc(p, n)
       \/ \E n \in Shrinks : growproc(p, -n)
       \/ \E c \in Procs : fork(p, c)
       \/ uvmalloc_turn(p) \/ uvmalloc_fail(p) \/ uvmalloc_ret(p)
       \/ uvmcopy(p) \/ uvmcopy_fail(p) \/ fork_ret(p)
       \/ exit(p) \/ freeproc(p)
       \/ exec(p) \/ exec_seg(p) \/ exec_stack(p) \/ exec_commit(p) \/ exec_bad(p)

Spec == Init /\ [][Next]_vars
-----------------------------------------------------------------------------
(* Properties.                                                             *)

\* The type of every variable.
TypeOK ==
  /\ free \subseteq 1..NPAGES
  /\ tab \in [Procs \X {"cur", "new"} -> [Nodes -> 0..NPAGES + 1]]
  /\ tf \in [Procs -> 0..NPAGES] /\ sz \in [Procs -> 0..2 ^ WIDTH - 1] /\ bad \in BOOLEAN
  /\ \A p \in Procs : me[p].pc \in {"user", "unused", "used", "zombie", "uvmalloc", "uvmcopy",
                                   "load", "args", "bad"}

\* The holders of pages: nodes of tables, and trapframes.
InTables == {<<k, n>> \in (Procs \X {"cur", "new"}) \X (Nodes \ Special) : tab[k][n] # 0}
Frames == {p \in Procs : tf[p] # 0}
Held == {tab[h[1]][h[2]] : h \in InTables} \cup {tf[p] : p \in Frames}

\* Every page is free, or has exactly one holder: nothing leaks on any error
\* path of fork, sbrk and exec, and no two address spaces share a page.  No
\* page is mapped over another, unmapped twice or freed twice, and no page
\* table is freed with leaves in it: vm.c panics on none of these.
PagesPartition ==
  /\ TypeOK /\ ~bad
  /\ Held = 1..NPAGES \ free
  /\ Cardinality(Held) = Cardinality(InTables) + Cardinality(Frames)

\* Between system calls a process has exactly the pages below its size, its
\* trapframe and the trampoline, and no memory of an abandoned exec.
SpaceMatchesSize ==
  \A p \in Procs :
    LET t == tab[<<p, "cur">>] IN
    /\ me[p].pc = "user" =>
         /\ {va \in VPages : t[<<0, va>>] # 0} = 0..PagesOf(sz[p]) - 1 \cup {TRAMPOLINE, TRAPFRAME}
         /\ t[<<0, TRAPFRAME>>] = tf[p]
         /\ tab[<<p, "new">>] = NoTable
    /\ me[p].pc = "unused" => t = NoTable /\ tf[p] = 0 /\ sz[p] = 0
=============================================================================
