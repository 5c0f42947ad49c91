--------------------------------- MODULE Vm ---------------------------------
(***************************************************************************)
(* Physical pages (kalloc.c) and the address spaces made of them (vm.c):   *)
(* sbrk, fork, exec, exit and wait of several processes, each kalloc being *)
(* a step that may fail because others have the pages.                     *)
(*                                                                         *)
(* Addresses are bytes and wrap at AddrSpace, as uint does; a page has one *)
(* content.  Freeing is one step: that pages become free one by one shows  *)
(* only to a kalloc that fails, and it may fail before as well.  Accesses  *)
(* go through the page tables as they are: there is no TLB.                *)
(***************************************************************************)
EXTENDS Integers, FiniteSetsExt, SequencesExt

CONSTANTS
  VmProcs, NoMem,
  NPages,       \* physical pages, 1 .. NPages
  PGSIZE, KERNBASE, AddrSpace,
  TabSpan,      \* user pages that one page table maps (NPTENTRIES)
  KernTabs,     \* page tables of the kernel part
  UserBytes,    \* what a process may write into a page
  SbrkArgs,
  Segments,     \* programs: sequences of [vaddr, memsz, filesz, byte]
  Images,       \* what those that can be loaded look like: their pages
  MaxVmCalls    \* bound: calls of sbrk, fork and exec

ASSUME VmAssumption ==
  /\ PGSIZE \in Nat \ {0} /\ KERNBASE % PGSIZE = 0 /\ AddrSpace = 2 * KERNBASE
  /\ TabSpan \in Nat \ {0} /\ KernTabs \in Nat \ {0} /\ NPages \in Nat
  /\ SbrkArgs \subseteq -KERNBASE .. KERNBASE - 1

Pages == 1 .. NPages
PGROUNDUP(x) == ((x + PGSIZE - 1) \div PGSIZE) * PGSIZE
VPages == 0 .. (KERNBASE \div PGSIZE) - 1
Tabs == 0 .. (KERNBASE \div PGSIZE - 1) \div TabSpan
NoSpace == [dir |-> 0, kern |-> <<>>, tab |-> [t \in Tabs |-> 0], pte |-> [v \in VPages |-> 0]]
Nothing == [op |-> "", space |-> NoSpace, a |-> 0, old |-> 0, new |-> 0, page |-> 0,
            child |-> NoMem, segs |-> <<>>]

VARIABLES
  free,         \* kmem.freelist
  content,      \* of a page: 0, a byte, or junk
  pgdir, sz, kstack,
  vstate,       \* "UNUSED", "EMBRYO", "USER" (runs its program), "ZOMBIE"
  vl,           \* the call in progress: op, the space it builds, local variables
  vcalls        \* the calls that may still be made

VmVars == <<free, content, pgdir, sz, kstack, vstate, vl, vcalls>>

-----------------------------------------------------------------------------
(* Pages *)

\* kalloc, and what the caller puts into the page.  Which free page it is does not
\* matter.
Kalloc(r, c) == r = Min(free) /\ free' = free \ {r} /\ content' = [content EXCEPT ![r] = c]

\* kfree fills the pages with junk, the byte 1.
Junk == 1

Kfree(set) ==
  /\ free' = free \cup set
  /\ content' = [r \in Pages |-> IF r \in set THEN Junk ELSE content[r]]

UserPages(s, from, to) ==
  {s.pte[v] : v \in {w \in VPages : w * PGSIZE >= from /\ w * PGSIZE < to}} \ {0}

\* deallocuvm begins at PGROUNDUP(newsz).
ShrinkFrom(new) == PGROUNDUP(new)

\* deallocuvm from old to new: the pages, and what is left of the space.
Dealloc(s, old, new) == UserPages(s, ShrinkFrom(new), old)
Dealloced(s, old, new) ==
  [s EXCEPT !.pte = [v \in VPages |-> IF s.pte[v] \in Dealloc(s, old, new) THEN 0 ELSE s.pte[v]]]

\* Mutant: the pages of the tables are left out.
FreevmUserOnly(s) == UserPages(s, 0, KERNBASE) \cup {s.dir}

\* freevm: user pages, tables and the directory.
Freevm(s) ==
  (UserPages(s, 0, KERNBASE) \cup ToSet(s.kern) \cup {s.tab[t] : t \in Tabs} \cup {s.dir}) \ {0}

-----------------------------------------------------------------------------
(* Parts of calls *)

AtOp(p, op) == vl[p].op = op
Step(p, l) == vl' = [vl EXCEPT ![p] = l]
Done(p) == Step(p, Nothing)
procs == <<pgdir, sz, kstack, vstate, vcalls>>

\* The space that allocuvm works on.
Space(p) == IF AtOp(p, "grow") THEN pgdir[p] ELSE vl[p].space

\* Where a loop over pages is: allocuvm for "grow", "load" and "stack", and copyuvm.
InLoop(p) == vl[p].op \in {"grow", "load", "stack", "copy"} /\ vl[p].a < vl[p].new
VPage(p) == vl[p].a \div PGSIZE
TabOf(p) == VPage(p) \div TabSpan
NoTab(p) == Space(p).tab[TabOf(p)] = 0

\* Put an entry into the space p works on.
SetSpace(p, s, l) ==
  IF AtOp(p, "grow")
  THEN pgdir' = [pgdir EXCEPT ![p] = s] /\ Step(p, l)
  ELSE UNCHANGED pgdir /\ Step(p, [l EXCEPT !.space = s])

\* Mutant: without the memset of allocuvm.
FilledJunk(p) == IF AtOp(p, "copy") THEN content[pgdir[p].pte[VPage(p)]] ELSE Junk

\* memset of allocuvm, memmove of copyuvm.
Filled(p) == IF AtOp(p, "copy") THEN content[pgdir[p].pte[VPage(p)]] ELSE 0

\* A turn of the loop: the page, zeroed or copied,
AllocPage(p) ==
  /\ InLoop(p) /\ vl[p].page = 0
  /\ \E r \in free :
       /\ Kalloc(r, Filled(p))
       /\ Step(p, [vl[p] EXCEPT !.page = r])
  /\ UNCHANGED procs

\* in walkpgdir a missing table,
AllocTable(p) ==
  /\ InLoop(p) /\ vl[p].page # 0 /\ NoTab(p)
  /\ \E r \in free : /\ Kalloc(r, 0)
                     /\ SetSpace(p, [Space(p) EXCEPT !.tab[TabOf(p)] = r], vl[p])
  /\ UNCHANGED <<sz, kstack, vstate, vcalls>>

\* and the entry.
MapPage(p) ==
  /\ InLoop(p) /\ vl[p].page # 0 /\ ~NoTab(p)
  /\ SetSpace(p, [Space(p) EXCEPT !.pte[VPage(p)] = vl[p].page],
              [vl[p] EXCEPT !.page = 0, !.a = @ + PGSIZE])
  /\ UNCHANGED <<free, content, sz, kstack, vstate, vcalls>>

\* setupkvm: the directory, then the tables of the kernel part.
SettingUp(p) == vl[p].op \in {"forkvm", "execvm"}

Setupkvm(p) ==
  /\ SettingUp(p)
  /\ \E r \in free :
       LET s == vl[p].space IN
       /\ Kalloc(r, 0)
       /\ IF s.dir = 0 THEN Step(p, [vl[p] EXCEPT !.space.dir = r])
          ELSE Step(p, [vl[p] EXCEPT !.space.kern = Append(@, r),
                          !.op = IF Len(s.kern) + 1 < KernTabs THEN @
                                 ELSE IF @ = "forkvm" THEN "copy" ELSE "segment"])
  /\ UNCHANGED procs

\* kfree(mem) of the page that could not be mapped.
InHand(p) == {vl[p].page} \ {0}

\* What exec and fork undo: the space under construction, and the child.
Bad(p) ==
  LET q == vl[p].child
      child == q # NoMem
  IN  /\ Kfree(Freevm(vl[p].space) \cup InHand(p) \cup IF child THEN {kstack[q]} \ {0} ELSE {})
      /\ kstack' = IF child THEN [kstack EXCEPT ![q] = 0] ELSE kstack
      /\ vstate' = IF child THEN [vstate EXCEPT ![q] = "UNUSED"] ELSE vstate
      /\ Done(p) /\ UNCHANGED <<pgdir, sz, vcalls>>

\* kalloc returns 0 in any of them.
NoMemory(p) ==
  /\ free = {}
  /\ SettingUp(p) \/ AtOp(p, "fork") \/ (InLoop(p) /\ (vl[p].page = 0 \/ NoTab(p)))
  /\ IF AtOp(p, "grow")
     THEN /\ Kfree(Dealloc(pgdir[p], vl[p].new, sz[p]) \cup InHand(p))
          /\ pgdir' = [pgdir EXCEPT ![p] = Dealloced(@, vl[p].new, sz[p])]
          /\ Done(p) /\ UNCHANGED <<sz, kstack, vstate, vcalls>>
     ELSE Bad(p)

-----------------------------------------------------------------------------
(* Calls.  A process runs only while the page tables map its program. *)

Runs(p) == vstate[p] = "USER" /\ AtOp(p, "") /\ pgdir[p].pte[0] # 0
Calls(p) == Runs(p) /\ vcalls > 0 /\ vcalls' = vcalls - 1

StoreByte(p, v, b) ==
  /\ Runs(p) /\ pgdir[p].pte[v] # 0
  /\ content' = [content EXCEPT ![pgdir[p].pte[v]] = b]
  /\ UNCHANGED <<free, procs, vl>>

\* growproc.  Shrinking to exactly 0 gives the pages back and returns -1 with sz
\* as it was, and without the switchuvm that would empty the TLB; shrinking below 0
\* wraps, and changes nothing.
Growproc(p, n) ==
  LET new == (sz[p] + n) % AddrSpace IN
  /\ Calls(p)
  /\ IF n > 0 /\ new < KERNBASE
     THEN /\ Step(p, [Nothing EXCEPT !.op = "grow", !.a = PGROUNDUP(sz[p]), !.new = new])
          /\ UNCHANGED <<free, content, pgdir, sz>>
     ELSE IF n < 0 /\ new < sz[p]
     THEN /\ Kfree(Dealloc(pgdir[p], sz[p], new))
          /\ pgdir' = [pgdir EXCEPT ![p] = Dealloced(@, sz[p], new)]
          /\ sz' = IF new = 0 THEN sz ELSE [sz EXCEPT ![p] = new]
          /\ UNCHANGED vl
     ELSE UNCHANGED <<free, content, pgdir, sz, vl>>
  /\ UNCHANGED <<kstack, vstate>>

Grown(p) ==
  /\ AtOp(p, "grow") /\ ~InLoop(p)
  /\ sz' = [sz EXCEPT ![p] = vl[p].new]
  /\ Done(p) /\ UNCHANGED <<free, content, pgdir, kstack, vstate, vcalls>>

Fork(p, q) ==
  /\ Calls(p) /\ vstate[q] = "UNUSED"
  /\ vstate' = [vstate EXCEPT ![q] = "EMBRYO"]
  /\ Step(p, [Nothing EXCEPT !.op = "fork", !.child = q])
  /\ UNCHANGED <<free, content, pgdir, sz, kstack>>

\* allocproc: the kernel stack.
ForkStack(p) ==
  /\ AtOp(p, "fork")
  /\ \E r \in free : Kalloc(r, Junk) /\ kstack' = [kstack EXCEPT ![vl[p].child] = r]
  /\ Step(p, [vl[p] EXCEPT !.op = "forkvm", !.new = sz[p]])
  /\ UNCHANGED <<pgdir, sz, vstate, vcalls>>

Forked(p) ==
  LET q == vl[p].child IN
  /\ AtOp(p, "copy") /\ ~InLoop(p)
  /\ pgdir' = [pgdir EXCEPT ![q] = vl[p].space]
  /\ sz' = [sz EXCEPT ![q] = sz[p]]
  /\ vstate' = [vstate EXCEPT ![q] = "USER"]
  /\ Done(p) /\ UNCHANGED <<free, content, kstack, vcalls>>

Exec(p, segs) ==
  /\ Calls(p)
  /\ Step(p, [Nothing EXCEPT !.op = "execvm", !.segs = segs])
  /\ UNCHANGED <<free, content, pgdir, sz, kstack, vstate>>

\* A program header: its checks, and the size for allocuvm.
ExecSegment(p) ==
  LET g == Head(vl[p].segs)
      end == (g.vaddr + g.memsz) % AddrSpace
      new == IF end < vl[p].old THEN vl[p].old ELSE end
  IN  /\ AtOp(p, "segment") /\ vl[p].segs # <<>>
      /\ IF g.memsz < g.filesz \/ end < g.vaddr \/ end >= KERNBASE \/ new = 0 THEN Bad(p)
         ELSE /\ Step(p, [vl[p] EXCEPT !.op = "load", !.a = PGROUNDUP(vl[p].old), !.new = new])
              /\ UNCHANGED <<free, content, procs>>

\* loaduvm, which fails when the file is too short.
Loaduvm(p, short) ==
  LET g == Head(vl[p].segs)
      s == vl[p].space
      read == UserPages(s, g.vaddr, g.vaddr + g.filesz)
  IN  /\ AtOp(p, "load") /\ ~InLoop(p)
      /\ IF g.vaddr % PGSIZE # 0 \/ short THEN Bad(p)
         ELSE /\ content' = [r \in Pages |-> IF r \in read THEN g.byte ELSE content[r]]
              /\ Step(p, [vl[p] EXCEPT !.op = "segment", !.segs = Tail(@), !.old = vl[p].new])
              /\ UNCHANGED <<free, procs>>

\* Two more pages.
ExecStack(p) ==
  LET from == PGROUNDUP(vl[p].old)
      new == from + 2 * PGSIZE
  IN  /\ AtOp(p, "segment") /\ vl[p].segs = <<>>
      /\ IF new >= KERNBASE THEN Bad(p)
         ELSE /\ Step(p, [vl[p] EXCEPT !.op = "stack", !.a = from, !.new = new])
              /\ UNCHANGED <<free, content, procs>>

\* The arguments, which may not fit on the stack, and the commit to the new image.
ExecCommit(p, fits) ==
  /\ AtOp(p, "stack") /\ ~InLoop(p)
  /\ IF ~fits THEN Bad(p)
     ELSE /\ Kfree(Freevm(pgdir[p]))
          /\ pgdir' = [pgdir EXCEPT ![p] = vl[p].space]
          /\ sz' = [sz EXCEPT ![p] = vl[p].new]
          /\ Done(p) /\ UNCHANGED <<kstack, vstate, vcalls>>

\* exit, also after a fault; one process always stays.
VmExit(p) ==
  /\ vstate[p] = "USER" /\ AtOp(p, "")
  /\ \E q \in VmProcs \ {p} : vstate[q] = "USER"
  /\ vstate' = [vstate EXCEPT ![p] = "ZOMBIE"]
  /\ UNCHANGED <<free, content, pgdir, sz, kstack, vl, vcalls>>

\* wait by the parent: kfree(p->kstack) and freevm(p->pgdir).
VmWait(p) ==
  /\ vstate[p] = "ZOMBIE" /\ \E q \in VmProcs : Runs(q)
  /\ Kfree(Freevm(pgdir[p]) \cup {kstack[p]})
  /\ kstack' = [kstack EXCEPT ![p] = 0]
  /\ pgdir' = [pgdir EXCEPT ![p] = NoSpace]
  /\ sz' = [sz EXCEPT ![p] = 0]
  /\ vstate' = [vstate EXCEPT ![p] = "UNUSED"]
  /\ UNCHANGED <<vl, vcalls>>

-----------------------------------------------------------------------------
\* userinit: one process with one page.
VmInit ==
  LET k == 3 + KernTabs
      space == [NoSpace EXCEPT !.dir = 2, !.kern = [i \in 1 .. KernTabs |-> 2 + i],
                               !.tab[0] = k, !.pte[0] = k + 1]
      p == CHOOSE q \in VmProcs : TRUE
  IN  /\ kstack = [q \in VmProcs |-> IF q = p THEN 1 ELSE 0]
      /\ pgdir = [q \in VmProcs |-> IF q = p THEN space ELSE NoSpace]
      /\ sz = [q \in VmProcs |-> IF q = p THEN PGSIZE ELSE 0]
      /\ vstate = [q \in VmProcs |-> IF q = p THEN "USER" ELSE "UNUSED"]
      /\ free = Pages \ (1 .. k + 1)
      /\ content = [r \in Pages |-> IF r <= k + 1 THEN 0 ELSE Junk]
      /\ vl = [q \in VmProcs |-> Nothing] /\ vcalls = MaxVmCalls

VmStep(p) ==
  \/ AllocPage(p) \/ AllocTable(p) \/ MapPage(p) \/ Setupkvm(p) \/ NoMemory(p)
  \/ Grown(p) \/ ForkStack(p) \/ Forked(p)
  \/ ExecSegment(p) \/ (\E short \in BOOLEAN : Loaduvm(p, short))
  \/ ExecStack(p) \/ (\E fits \in BOOLEAN : ExecCommit(p, fits))
  \/ VmExit(p) \/ VmWait(p)

VmNext ==
  \E p \in VmProcs :
    \/ VmStep(p)
    \/ \E v \in VPages, b \in UserBytes : StoreByte(p, v, b)
    \/ \E n \in SbrkArgs : Growproc(p, n)
    \/ \E q \in VmProcs : Fork(p, q)
    \/ \E segs \in Segments : Exec(p, segs)

-----------------------------------------------------------------------------
\* The pages below sz are mapped and no others, except for a process that has
\* given all its memory back, of which nothing is mapped; so copyuvm finds every page,
\* mappages never maps one twice and loaduvm finds every address.
MappedUpToSize ==
  \A p \in VmProcs :
    /\ vstate[p] = "USER" /\ ~AtOp(p, "grow") =>
         \/ \A v \in VPages : pgdir[p].pte[v] # 0 <=> v * PGSIZE < sz[p]
         \/ \A v \in VPages : pgdir[p].pte[v] = 0
    /\ InLoop(p) => Space(p).pte[VPage(p)] = 0
    /\ AtOp(p, "copy") /\ InLoop(p) => pgdir[p].pte[VPage(p)] # 0
    /\ AtOp(p, "load") => \A v \in VPages : v * PGSIZE < vl[p].a => Space(p).pte[v] # 0

\* Every physical page is free or has exactly one use: a kernel stack, a
\* directory, a table or a page of one address space, or it is in the hand of a
\* call.  So no path of a call that fails loses a page or frees one twice, and no
\* page is seen by two processes (kalloc, allocuvm, copyuvm, freevm, exec).  And the
\* page tables have exactly the pages of the process (MappedUpToSize).
PagesUsedOnce ==
  LET spaces == {<<p, 1>> : p \in VmProcs} \cup {<<p, 2>> : p \in VmProcs}
      space(x) == IF x[2] = 1 THEN pgdir[x[1]] ELSE vl[x[1]].space
      uses == {<<"space", x, i, space(x).pte[i]>> : x \in spaces, i \in VPages}
              \cup {<<"tab", x, i, space(x).tab[i]>> : x \in spaces, i \in Tabs}
              \cup {<<"dir", x, 0, space(x).dir>> : x \in spaces}
              \cup UNION {{<<"kern", x, i, space(x).kern[i]>> : i \in DOMAIN space(x).kern} : x \in spaces}
              \cup {<<"kstack", <<p, 1>>, 0, kstack[p]>> : p \in VmProcs}
              \cup {<<"hand", <<p, 1>>, 0, vl[p].page>> : p \in VmProcs}
      inuse == {u \in uses : u[4] # 0}
  IN  /\ {u[4] : u \in inuse} = Pages \ free
      /\ Cardinality(inuse) = NPages - Cardinality(free)
      /\ MappedUpToSize

\* The memories of processes are private (growproc, fork, exec): what a process
\* sees changes only by what it stores and by the calls it makes itself.
Memory ==
  [p \in VmProcs |->
     IF vstate[p] # "USER" THEN NoMem
     ELSE IF pgdir[p].pte[0] = 0 THEN <<>>
     ELSE [k \in 1 .. PGROUNDUP(sz[p]) \div PGSIZE |-> content[pgdir[p].pte[k - 1]]]]

Private == INSTANCE AddressSpaces WITH
  Owners <- VmProcs, Programs <- Images, Bytes <- UserBytes \cup {0}, mem <- Memory

PrivateMemory == Private!Spec
=============================================================================
