----------------------------- MODULE FileTable -----------------------------
(***************************************************************************)
(* The table of open files (file.c) and the descriptors of the processes:  *)
(* open, dup, pipe, close, fork and exit, with every path on which one of  *)
(* the allocations fails (sysfile.c, pipe.c).                              *)
(*                                                                         *)
(* A step ends where ftable.lock is released: another process may then     *)
(* allocate or close.  Of an inode only the references that open files     *)
(* hold are kept (see Fs), of a pipe its two ends and whether its page is  *)
(* allocated (see Pipe); kalloc may fail at any call.                      *)
(***************************************************************************)
EXTENDS Integers, FiniteSetsExt, SequencesExt

CONSTANTS
  FtProcs, NFILE, NOFILE,
  FtInodes,      \* inodes that open returns
  FtPipes,       \* pages for pipes
  MaxOpens       \* bound: calls of open, pipe and fork

ASSUME FileTableAssumption ==
  /\ NFILE \in Nat \ {0} /\ NOFILE \in Nat \ {0} /\ MaxOpens \in Nat

FdSlots == 0 .. NOFILE - 1
FileSlots == 1 .. NFILE
FdNone == [type |-> "FD_NONE", obj |-> 0, writable |-> FALSE]
NoFd == [c \in FdSlots |-> 0]

VARIABLES
  fref, ffile,  \* ref, and type, object and end of a struct file
  fds,          \* ofile of every process; 0 is no file
  alive,        \* the processes that exist
  tpc, tl,      \* place and local variables: the files in hand, the inode in hand
  closing,      \* struct files to close next, and what fileclose has copied
  iref,         \* references to an inode by open files and calls
  pg,           \* pipes: the open ends; the page is allocated while there is one
  opens         \* the calls that may still be made

ftab == <<fref, ffile>>
FtVars == <<ftab, fds, alive, tpc, tl, closing, iref, pg, opens>>

NoneClosing == [todo |-> <<>>, ff |-> FdNone]
NoHand == [f0 |-> 0, f1 |-> 0, ip |-> 0]

FtInit ==
  /\ fref = [f \in FileSlots |-> 0] /\ ffile = [f \in FileSlots |-> FdNone]
  /\ fds = [p \in FtProcs |-> NoFd]
  /\ \E p \in FtProcs : alive = {p}
  /\ tpc = [p \in FtProcs |-> "idle"] /\ tl = [p \in FtProcs |-> NoHand]
  /\ closing = [p \in FtProcs |-> NoneClosing]
  /\ iref = [i \in FtInodes |-> 0]
  /\ pg = [x \in FtPipes |-> {}]
  /\ opens = MaxOpens

-----------------------------------------------------------------------------
(* filealloc, fdalloc and fileclose *)

FreeFiles == {f \in FileSlots : fref[f] = 0}
FreeFds(p) == {c \in FdSlots : fds[p][c] = 0}

\* filealloc: the first file without references, or 0.
Filealloc == IF FreeFiles = {} THEN 0 ELSE Min(FreeFiles)
FileallocRef(f) == IF f = 0 THEN fref ELSE [fref EXCEPT ![f] = 1]

ReadyFt(p, l) == p \in alive /\ tpc[p] = l /\ closing[p] = NoneClosing
GoFt(p, l) == tpc' = [tpc EXCEPT ![p] = l]
Hand(p, h) == tl' = [tl EXCEPT ![p] = h]

\* The call goes on at l and closes the files in s first.
CloseThen(p, l, s) ==
  /\ GoFt(p, l) /\ Hand(p, NoHand)
  /\ closing' = [closing EXCEPT ![p].todo = SelectSeq(s, LAMBDA f : f # 0)]

\* Mutant: f->type keeps its value.
TypeKept(f) == ffile[f]

\* f->type = FD_NONE
TypeCleared(f) == FdNone

\* fileclose under ftable.lock: the last close copies the file and frees it.
Fileclose(p) ==
  LET f == Head(closing[p].todo) IN
  /\ closing[p].todo # <<>> /\ closing[p].ff = FdNone
  /\ fref' = [fref EXCEPT ![f] = @ - 1]
  /\ ffile' = IF fref[f] > 1 THEN ffile ELSE [ffile EXCEPT ![f] = TypeCleared(f)]
  /\ closing' = [closing EXCEPT ![p] =
       [todo |-> Tail(@.todo), ff |-> IF fref[f] > 1 THEN FdNone ELSE ffile[f]]]
  /\ UNCHANGED <<fds, alive, tpc, tl, iref, pg, opens>>

\* The rest of the last close: pipeclose, which frees the page after the second
\* end, or iput.
FilecloseObject(p) ==
  LET ff == closing[p].ff
      left == pg[ff.obj] \ {IF ff.writable THEN "w" ELSE "r"}
  IN  /\ ff # FdNone
      /\ IF ff.type = "FD_PIPE"
         THEN /\ pg' = [pg EXCEPT ![ff.obj] = left]
              /\ UNCHANGED iref
         ELSE /\ iref' = [iref EXCEPT ![ff.obj] = @ - 1]
              /\ UNCHANGED pg
      /\ closing' = [closing EXCEPT ![p].ff = FdNone]
      /\ UNCHANGED <<ftab, fds, alive, tpc, tl, opens>>

-----------------------------------------------------------------------------
(* open *)

\* namei or create has found an inode and holds a reference to it.
FtOpen(p, i) ==
  /\ ReadyFt(p, "idle") /\ opens > 0
  /\ iref' = [iref EXCEPT ![i] = @ + 1]
  /\ GoFt(p, "open") /\ Hand(p, [NoHand EXCEPT !.ip = i])
  /\ opens' = opens - 1
  /\ UNCHANGED <<ftab, fds, alive, closing, pg>>

\* filealloc and fdalloc.  On failure the file is closed and the inode is put.
FtOpened(p) ==
  LET f == Filealloc
      i == tl[p].ip
      ok == f # 0 /\ FreeFds(p) # {}
  IN  /\ ReadyFt(p, "open")
      /\ fref' = FileallocRef(f)
      /\ IF ok
         THEN /\ fds' = [fds EXCEPT ![p][Min(FreeFds(p))] = f]
              /\ ffile' = [ffile EXCEPT ![f] = [type |-> "FD_INODE", obj |-> i, writable |-> TRUE]]
              /\ GoFt(p, "idle") /\ Hand(p, NoHand) /\ UNCHANGED <<closing, iref>>
         ELSE /\ CloseThen(p, "idle", <<f>>)
              /\ iref' = [iref EXCEPT ![i] = @ - 1]
              /\ UNCHANGED <<fds, ffile>>
      /\ UNCHANGED <<alive, pg, opens>>

-----------------------------------------------------------------------------
(* pipe *)

\* pipealloc: the first filealloc.
FtPipe(p) ==
  LET f == Filealloc IN
  /\ ReadyFt(p, "idle") /\ opens > 0
  /\ fref' = FileallocRef(f)
  /\ IF f = 0 THEN UNCHANGED <<tpc, tl>>
     ELSE GoFt(p, "pipe") /\ Hand(p, [NoHand EXCEPT !.f0 = f])
  /\ opens' = opens - 1
  /\ UNCHANGED <<ffile, fds, alive, closing, iref, pg>>

\* The second one.
FtPipeSecond(p) ==
  LET f == Filealloc IN
  /\ ReadyFt(p, "pipe")
  /\ fref' = FileallocRef(f)
  /\ IF f = 0 THEN CloseThen(p, "idle", <<tl[p].f0>>)
     ELSE /\ GoFt(p, "pipepage") /\ Hand(p, [tl[p] EXCEPT !.f1 = f])
          /\ UNCHANGED closing
  /\ UNCHANGED <<ffile, fds, alive, iref, pg, opens>>

\* kalloc, which fails when x is 0, and the two ends.
FtPipePage(p, x) ==
  LET f0 == tl[p].f0
      f1 == tl[p].f1
  IN  /\ ReadyFt(p, "pipepage")
      /\ IF x = 0
         THEN CloseThen(p, "idle", <<f0, f1>>) /\ UNCHANGED <<ffile, pg>>
         ELSE /\ pg[x] = {}
              /\ pg' = [pg EXCEPT ![x] = {"r", "w"}]
              /\ ffile' = [ffile EXCEPT
                   ![f0] = [type |-> "FD_PIPE", obj |-> x, writable |-> FALSE],
                   ![f1] = [type |-> "FD_PIPE", obj |-> x, writable |-> TRUE]]
              /\ GoFt(p, "pipefds") /\ UNCHANGED <<tl, closing>>
      /\ UNCHANGED <<fref, fds, alive, iref, opens>>

\* sys_pipe after the second fdalloc failed: ofile[fd0] = 0.
FdsBack(p, c0, f0) == fds

\* sys_pipe: two descriptors, or none.
FtPipeFds(p) ==
  LET free == FreeFds(p)
      c0 == Min(free)
      f0 == tl[p].f0
      f1 == tl[p].f1
  IN  /\ ReadyFt(p, "pipefds")
      /\ IF Cardinality(free) >= 2
         THEN /\ fds' = [fds EXCEPT ![p][c0] = f0, ![p][Min(free \ {c0})] = f1]
              /\ GoFt(p, "idle") /\ Hand(p, NoHand) /\ UNCHANGED closing
         ELSE /\ fds' = IF free = {} THEN fds ELSE FdsBack(p, c0, f0)
              /\ CloseThen(p, "idle", <<f0, f1>>)
      /\ UNCHANGED <<ftab, alive, iref, pg, opens>>

-----------------------------------------------------------------------------
(* dup, close, fork and exit *)

FtDup(p, c) ==
  LET f == fds[p][c] IN
  /\ ReadyFt(p, "idle") /\ f # 0 /\ FreeFds(p) # {}
  /\ fds' = [fds EXCEPT ![p][Min(FreeFds(p))] = f]
  /\ fref' = [fref EXCEPT ![f] = @ + 1]
  /\ UNCHANGED <<ffile, alive, tpc, tl, closing, iref, pg, opens>>

FtClose(p, c) ==
  /\ ReadyFt(p, "idle") /\ fds[p][c] # 0
  /\ fds' = [fds EXCEPT ![p][c] = 0]
  /\ closing' = [closing EXCEPT ![p].todo = <<fds[p][c]>>]
  /\ UNCHANGED <<ftab, alive, tpc, tl, iref, pg, opens>>

\* Descriptors of p for file f.
FdsOf(p, f) == {c \in FdSlots : fds[p][c] = f}

\* How often fork calls filedup for a file.
Dups(p, f) == Cardinality(FdsOf(p, f))

\* The parent holds its descriptors until all are copied.
FtFork(p, q) ==
  /\ ReadyFt(p, "idle") /\ q \notin alive /\ opens > 0
  /\ alive' = alive \cup {q}
  /\ fds' = [fds EXCEPT ![q] = fds[p]]
  /\ fref' = [f \in FileSlots |-> fref[f] + Dups(p, f)]
  /\ opens' = opens - 1
  /\ UNCHANGED <<ffile, tpc, tl, closing, iref, pg>>

\* exit closes the descriptors in turn.
FtExit(p) ==
  /\ ReadyFt(p, "idle")
  /\ fds' = [fds EXCEPT ![p] = NoFd]
  /\ CloseThen(p, "exiting", [k \in 1 .. NOFILE |-> fds[p][k - 1]])
  /\ UNCHANGED <<ftab, alive, iref, pg, opens>>

FtExited(p) ==
  /\ ReadyFt(p, "exiting") /\ alive # {p}
  /\ alive' = alive \ {p}
  /\ GoFt(p, "idle")
  /\ UNCHANGED <<ftab, fds, tl, closing, iref, pg, opens>>

FtNext ==
  \E p \in FtProcs :
    \/ Fileclose(p) \/ FilecloseObject(p)
    \/ (\E i \in FtInodes : FtOpen(p, i)) \/ FtOpened(p)
    \/ FtPipe(p) \/ FtPipeSecond(p) \/ (\E x \in FtPipes \cup {0} : FtPipePage(p, x)) \/ FtPipeFds(p)
    \/ (\E c \in FdSlots : FtDup(p, c) \/ FtClose(p, c))
    \/ (\E q \in FtProcs : FtFork(p, q)) \/ FtExit(p) \/ FtExited(p)

-----------------------------------------------------------------------------
\* f->ref is the number of descriptors of all processes that lead to the file,
\* and of the pointers calls still have to it, on every error path of open and
\* pipe and through fork, dup and exit; so fileclose never finds 0.
FileRefsCounted ==
  \A f \in FileSlots :
    LET Of(p) == Cardinality(FdsOf(p, f)) + Cardinality({n \in {"f0", "f1"} : tl[p][n] = f})
                 + Cardinality({k \in DOMAIN closing[p].todo : closing[p].todo[k] = f})
    IN  fref[f] = MapThenSumSet(Of, FtProcs)

Leading(type, x) ==
  {f \in FileSlots : fref[f] > 0 /\ ffile[f].type = type /\ ffile[f].obj = x}

\* All references are counted: those to open files, and behind them an inode has
\* one for every open file that leads to it, and a pipe keeps an end open, and its
\* page, exactly as long as an open file leads to that end; what the last fileclose
\* has copied still counts until it is done.  So nothing is put twice and nothing
\* leaks (sys_open, pipealloc, fileclose).
ObjectsCounted ==
  LET copied(type, x) == {p \in FtProcs : closing[p].ff.type = type /\ closing[p].ff.obj = x}
      end(w) == IF w THEN "w" ELSE "r"
  IN  /\ FileRefsCounted
      /\ \A i \in FtInodes :
           iref[i] = Cardinality(Leading("FD_INODE", i)) + Cardinality(copied("FD_INODE", i))
                     + Cardinality({p \in FtProcs : tl[p].ip = i})
      /\ \A x \in FtPipes :
           LET ends == {end(ffile[f].writable) : f \in Leading("FD_PIPE", x)}
                       \cup {end(closing[p].ff.writable) : p \in copied("FD_PIPE", x)}
           IN  pg[x] = ends
=============================================================================
