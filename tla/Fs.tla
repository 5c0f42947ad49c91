--------------------------------- MODULE Fs ---------------------------------
(***************************************************************************)
(* Inodes, directories and path names (fs.c) under the system calls that   *)
(* change them (sysfile.c): link, unlink, open with and without O_CREATE,  *)
(* mkdir, chdir and close, by several processes, with crashes.             *)
(*                                                                         *)
(* An action is what a call does between two points at which it may wait   *)
(* for another process: it takes the lock of an inode, works on it, and    *)
(* gives the lock back or keeps it.  References it has to drop are in      *)
(* puts[p]; iput takes the lock of the inode first, so it is a point of    *)
(* waiting too.  The cache is write-through: an inode is one value here.   *)
(* Of the log only its promise is kept (see Log): a crash leaves on the    *)
(* disk the state of the last commit, and a commit comes when no call is   *)
(* in progress.  So a crash is a boot from a state without a call; one in  *)
(* the middle of calls leaves the same as one right after the last commit. *)
(***************************************************************************)
EXTENDS Integers, FiniteSetsExt, SequencesExt

CONSTANTS
  FsProcs, NoFsProc,
  Names,        \* names of directory entries other than the dots
  NInodes,      \* sb.ninodes: the inodes are 1 .. NInodes
  FsCalls,      \* the calls that may be made when n are left, FsCalls[n]: [op, path], and
                \* [op, path, path2] for link, where a path is [abs, elems]
  FsTrees,      \* the file systems the machine may be booted with: [ino, calls], where
                \* calls bounds the number of calls that are made
  FsCrashes     \* whether the machine may crash

ASSUME FsAssumption ==
  /\ NInodes \in Nat \ {0} /\ NoFsProc \notin FsProcs
  /\ Names \cap {".", ".."} = {} /\ FsCrashes \in BOOLEAN
  /\ \A n \in DOMAIN FsCalls : \A c \in FsCalls[n] :
       c.op \in {"link", "unlink", "create", "mkdir", "open", "chdir"}

Inodes == 1 .. NInodes
ROOTINO == 1
Dots == {".", ".."}
NoEntries == [n \in Names \cup Dots |-> 0]
FreeInode == [type |-> "free", nlink |-> 0, dir |-> NoEntries]
NoLocals == [op |-> "", path |-> <<>>, path2 |-> <<>>, parent |-> FALSE, cur |-> 0, ip |-> 0]

VARIABLES
  ino,         \* type, nlink and directory entries of every inode
  ref, valid, lk,   \* icache: ref, valid and the holder of the lock, by number
  fpc, loc,    \* place and local variables of a call; cur is the inode of namex
               \* or dp, ip the other inode; a pointer that is 0 holds no reference
  puts, drop,  \* the inodes to iput next; iput is about to decrement ref
  cwd, ofile,  \* the current directory and the one open file of a process
  lost,        \* history: what was in a directory when iput freed it
  ncalls       \* the calls that may still be made

cache == <<ref, valid, lk>>
files == <<cwd, ofile>>
history == <<lost, ncalls>>
FsVars == <<ino, cache, fpc, loc, puts, drop, files, lost, ncalls>>

EmptyDir(i, parent) == [NoEntries EXCEPT !["."] = i, ![".."] = parent]

\* Every process starts in the root directory.
RootRefs == [i \in Inodes |-> IF i = ROOTINO THEN Cardinality(FsProcs) ELSE 0]

FsInit ==
  /\ \E t \in FsTrees : ino = t.ino /\ ncalls = t.calls
  /\ lost = {}
  /\ ref = RootRefs
  /\ valid = [i \in Inodes |-> FALSE]
  /\ lk = [i \in Inodes |-> NoFsProc]
  /\ fpc = [p \in FsProcs |-> "idle"] /\ loc = [p \in FsProcs |-> NoLocals]
  /\ puts = [p \in FsProcs |-> <<>>] /\ drop = [p \in FsProcs |-> FALSE]
  /\ cwd = [p \in FsProcs |-> ROOTINO] /\ ofile = [p \in FsProcs |-> 0]

-----------------------------------------------------------------------------
(* The inode cache *)

Unlocked(i) == lk[i] = NoFsProc

\* ilock would panic("ilock: no type").
NoType(i) == ~valid[i] /\ ino[i].type = "free"

\* ref and valid after ilock(i), which reads the inode, and iget(j); j may be 0.
Iget(j) == ref' = [k \in Inodes |-> ref[k] + (IF k = j THEN 1 ELSE 0)]
IlockIget(i, j) ==
  /\ Iget(j)
  /\ valid' = [k \in Inodes |-> k = i \/ (valid[k] /\ ~(k = j /\ ref[k] = 0))]
Ilock(i) == IlockIget(i, 0)

\* Mutant: the references of others are not looked at.
FreesAnyway(i) == valid[i] /\ ino[i].nlink = 0

\* "inode has no links and no other references: truncate and free."
Frees(i) == valid[i] /\ ino[i].nlink = 0 /\ ref[i] = 1

\* iput while it holds the lock.
Iput(p) ==
  LET i == Head(puts[p]) IN
  /\ puts[p] # <<>> /\ ~drop[p]
  /\ Unlocked(i)
  /\ IF Frees(i)
     THEN /\ ino' = [ino EXCEPT ![i] = FreeInode]
          /\ valid' = [valid EXCEPT ![i] = FALSE]
          /\ lost' = lost \cup ({ino[i].dir[n] : n \in Names} \ {0})
     ELSE UNCHANGED <<ino, valid, lost>>
  /\ drop' = [drop EXCEPT ![p] = TRUE]
  /\ UNCHANGED <<ref, lk, fpc, loc, puts, files, ncalls>>

\* The end of iput.
IputRef(p) ==
  /\ drop[p]
  /\ ref' = [ref EXCEPT ![Head(puts[p])] = @ - 1]
  /\ puts' = [puts EXCEPT ![p] = Tail(@)]
  /\ drop' = [drop EXCEPT ![p] = FALSE]
  /\ UNCHANGED <<ino, valid, lk, fpc, loc, files, history>>

-----------------------------------------------------------------------------
(* Steps of a call *)

At(p, l) == fpc[p] = l /\ puts[p] = <<>>
Goto(p, l) == fpc' = [fpc EXCEPT ![p] = l]
Puts(p, s) == puts' = [puts EXCEPT ![p] = s]

\* A call goes on at l with new locals, and drops the references in s first.
Then(p, l, new, s) ==
  /\ Goto(p, l) /\ loc' = [loc EXCEPT ![p] = new] /\ Puts(p, s)
  /\ UNCHANGED <<drop, files, history>>

\* The inode namex starts from.
StartOf(p, path) == IF path.abs THEN ROOTINO ELSE cwd[p]

FreeInodes == {i \in Inodes : ino[i].type = "free"}
Creating == {p \in FsProcs : loc[p].op \in {"create", "mkdir"}}

\* A system call begins.  Bound: there is an inode left for every call that may
\* need one, so that ialloc does not panic.
Begin(p, c) ==
  LET s == StartOf(p, c.path) IN
  /\ At(p, "idle")
  /\ c.op \in {"create", "mkdir"} => Cardinality(Creating) < Cardinality(FreeInodes)
  /\ Goto(p, "walk")
  /\ loc' = [loc EXCEPT ![p] = [op |-> c.op, path |-> c.path.elems, cur |-> s, ip |-> 0,
                                path2 |-> IF c.op = "link" THEN c.path2 ELSE <<>>,
                                parent |-> c.op \in {"unlink", "create", "mkdir"}]]
  /\ Iget(s)
  /\ valid' = [valid EXCEPT ![s] = @ /\ ref[s] > 0]
  /\ ncalls' = ncalls - 1
  /\ UNCHANGED <<ino, lk, puts, drop, files, lost>>

\* namex found what it looked for, or not: link then takes back its count.
Failed(l) == IF l.op = "link2" THEN "linkbad" ELSE "end"
Lookup(d, n) == ino[d].dir[n]

\* Take the lock of an inode, which must be free of others and have a type.
CanLock(i) == Unlocked(i) /\ ~NoType(i)

\* One turn of the loop in namex.
Walk(p) ==
  LET l == loc[p]
      d == l.cur
      last == Len(l.path) = 1
      next == Lookup(d, Head(l.path))
  IN  /\ At(p, "walk") /\ l.path # <<>>
      /\ CanLock(d)
      /\ IF ino[d].type = "DIR" /\ l.parent /\ last
         THEN Then(p, "found", l, <<>>) /\ Ilock(d)
         ELSE IF ino[d].type = "DIR" /\ next # 0
         THEN /\ Then(p, IF last THEN "found" ELSE "walk",
                      [l EXCEPT !.cur = next, !.path = Tail(@)], <<d>>)
              /\ IlockIget(d, next)
         ELSE Then(p, Failed(l), [l EXCEPT !.cur = 0], <<d>>) /\ Ilock(d)
      /\ UNCHANGED <<ino, lk>>

\* A path without a name, such as "/".
WalkNothing(p) ==
  LET l == loc[p] IN
  /\ At(p, "walk") /\ l.path = <<>>
  /\ IF l.parent THEN Then(p, Failed(l), [l EXCEPT !.cur = 0], <<l.cur>>)
     ELSE Then(p, "found", l, <<>>)
  /\ UNCHANGED <<ino, cache>>

Found(p, op) == At(p, "found") /\ loc[p].op = op /\ CanLock(loc[p].cur)
Name(l) == Head(l.path)

\* sys_link: the count of the file goes up, then the new name is looked up.
Link(p) ==
  LET l == loc[p]
      s == StartOf(p, l.path2)
  IN  /\ Found(p, "link")
      /\ IF ino[l.cur].type = "DIR"
         THEN /\ Then(p, "end", NoLocals, <<l.cur>>)
              /\ Ilock(l.cur) /\ UNCHANGED ino
         ELSE /\ ino' = [ino EXCEPT ![l.cur].nlink = @ + 1]
              /\ Then(p, "walk", [l EXCEPT !.op = "link2", !.ip = l.cur, !.cur = s, !.parent = TRUE,
                                           !.path = l.path2.elems, !.path2 = <<>>], <<>>)
              /\ IlockIget(l.cur, s)
      /\ UNCHANGED lk

\* Mutant: dirlink keeps the reference to what it found.
OldEntryKept(i) == <<>>

\* dirlink: the name is present, iput.
OldEntryPut(i) == <<i>>

\* dirlink for sys_link.  A name that exists is put while dp is locked.
LinkEntry(p) ==
  LET l == loc[p]
      old == Lookup(l.cur, Name(l))
  IN  /\ Found(p, "link2")
      /\ IF old = 0
         THEN /\ ino' = [ino EXCEPT ![l.cur].dir[Name(l)] = l.ip]
              /\ Then(p, "end", NoLocals, <<l.cur, l.ip>>)
              /\ Ilock(l.cur) /\ UNCHANGED lk
         ELSE /\ lk' = [lk EXCEPT ![l.cur] = p]
              /\ Then(p, "linkexists", l, OldEntryPut(old))
              /\ IlockIget(l.cur, old) /\ UNCHANGED ino

LinkExists(p) ==
  LET l == loc[p] IN
  /\ At(p, "linkexists")
  /\ lk' = [lk EXCEPT ![l.cur] = NoFsProc]
  /\ Then(p, "linkbad", [l EXCEPT !.cur = 0], <<l.cur>>)
  /\ UNCHANGED <<ino, ref, valid>>

\* Mutant: a link that failed keeps the count.
LinkCountKept(i) == ino

\* ip->nlink--
LinkCountBack(i) == [ino EXCEPT ![i].nlink = @ - 1]

LinkBad(p) ==
  LET i == loc[p].ip IN
  /\ At(p, "linkbad") /\ Unlocked(i)
  /\ ino' = LinkCountBack(i)
  /\ Then(p, "end", NoLocals, <<i>>)
  /\ Ilock(i) /\ UNCHANGED lk

-----------------------------------------------------------------------------
(* sys_unlink *)

\* dp is locked and stays locked; the dots and unknown names are refused.
Unlink(p) ==
  LET l == loc[p]
      i == Lookup(l.cur, Name(l))
  IN  /\ Found(p, "unlink")
      /\ IF Name(l) \in Dots \/ i = 0
         THEN /\ Then(p, "end", NoLocals, <<l.cur>>)
              /\ Ilock(l.cur) /\ UNCHANGED lk
         ELSE /\ Then(p, "unlink2", [l EXCEPT !.ip = i], <<>>)
              /\ lk' = [lk EXCEPT ![l.cur] = p]
              /\ IlockIget(l.cur, i)
      /\ UNCHANGED ino

Isdirempty(i) == \A n \in Names : ino[i].dir[n] = 0

\* With ip locked too: a directory that is not empty is refused with dp still
\* locked; otherwise the entry goes, and the count of dp for "..".
UnlinkEntry(p) ==
  LET l == loc[p]
      d == l.cur
      i == l.ip
      isdir == ino[i].type = "DIR"
  IN  /\ At(p, "unlink2") /\ CanLock(i) /\ ino[i].nlink > 0
      /\ Ilock(i)
      /\ IF isdir /\ ~Isdirempty(i)
         THEN /\ Then(p, "unlinkbad", [l EXCEPT !.ip = 0], <<i>>)
              /\ UNCHANGED <<ino, lk>>
         ELSE /\ ino' = [ino EXCEPT ![d].dir[Name(l)] = 0,
                                    ![d].nlink = IF isdir THEN @ - 1 ELSE @]
              /\ lk' = [lk EXCEPT ![d] = NoFsProc, ![i] = p]
              /\ Then(p, "unlink3", [l EXCEPT !.cur = 0], <<d>>)

UnlinkBad(p) ==
  /\ At(p, "unlinkbad")
  /\ lk' = [lk EXCEPT ![loc[p].cur] = NoFsProc]
  /\ Then(p, "end", NoLocals, <<loc[p].cur>>)
  /\ UNCHANGED <<ino, ref, valid>>

\* After iunlockput(dp), with ip still locked.
UnlinkCount(p) ==
  LET i == loc[p].ip IN
  /\ At(p, "unlink3")
  /\ ino' = [ino EXCEPT ![i].nlink = @ - 1]
  /\ lk' = [lk EXCEPT ![i] = NoFsProc]
  /\ Then(p, "end", NoLocals, <<i>>)
  /\ UNCHANGED <<ref, valid>>

-----------------------------------------------------------------------------
(* create, for open with O_CREATE and for mkdir *)

CountForDots(isdir) == IF isdir THEN 1 ELSE 0

Create(p) ==
  LET l == loc[p]
      d == l.cur
      old == Lookup(d, Name(l))
      isdir == l.op = "mkdir"
      i == Min(FreeInodes)   \* ialloc
  IN  /\ At(p, "found") /\ l.op \in {"create", "mkdir"} /\ CanLock(d)
      /\ IF old # 0
         THEN /\ Then(p, "exists", [l EXCEPT !.cur = 0, !.ip = old], <<d>>)
              /\ IlockIget(d, old) /\ UNCHANGED <<ino, lk>>
         ELSE /\ Unlocked(i)
              /\ ino' = [ino EXCEPT
                   ![i] = [type |-> IF isdir THEN "DIR" ELSE "FILE", nlink |-> 1,
                           dir |-> IF isdir THEN EmptyDir(i, d) ELSE NoEntries],
                   ![d].dir[Name(l)] = i,
                   ![d].nlink = @ + CountForDots(isdir)]
              /\ lk' = [lk EXCEPT ![i] = p]
              /\ Then(p, "created", [l EXCEPT !.cur = 0, !.ip = i], <<d>>)
              /\ Iget(i)
              /\ valid' = [valid EXCEPT ![d] = TRUE, ![i] = TRUE]

\* The name exists: only a file is returned, and only to open.
CreateExists(p) ==
  LET l == loc[p] IN
  /\ At(p, "exists") /\ CanLock(l.ip)
  /\ Ilock(l.ip) /\ UNCHANGED ino
  /\ IF l.op = "create" /\ ino[l.ip].type = "FILE"
     THEN lk' = [lk EXCEPT ![l.ip] = p] /\ Then(p, "created", l, <<>>)
     ELSE UNCHANGED lk /\ Then(p, "end", NoLocals, <<l.ip>>)

\* Back in sys_open or sys_mkdir with ip locked.  A process has one descriptor.
Created(p) ==
  LET l == loc[p]
      opens == l.op = "create" /\ ofile[p] = 0
  IN  /\ At(p, "created")
      /\ lk' = [lk EXCEPT ![l.ip] = NoFsProc]
      /\ ofile' = IF opens THEN [ofile EXCEPT ![p] = l.ip] ELSE ofile
      /\ Puts(p, IF opens THEN <<>> ELSE <<l.ip>>)
      /\ Goto(p, "end") /\ loc' = [loc EXCEPT ![p] = NoLocals]
      /\ UNCHANGED <<ino, ref, valid, drop, cwd, history>>

-----------------------------------------------------------------------------
(* sys_open without O_CREATE, sys_chdir, close, and the ends of a call *)

Open(p, rdonly) ==
  LET i == loc[p].cur
      opens == ofile[p] = 0 /\ (ino[i].type = "DIR" => rdonly)
  IN  /\ Found(p, "open")
      /\ Ilock(i)
      /\ ofile' = IF opens THEN [ofile EXCEPT ![p] = i] ELSE ofile
      /\ Puts(p, IF opens THEN <<>> ELSE <<i>>)
      /\ Goto(p, "end") /\ loc' = [loc EXCEPT ![p] = NoLocals]
      /\ UNCHANGED <<ino, lk, drop, cwd, history>>

\* The old directory is put first; only the process itself reads cwd.
Chdir(p) ==
  LET i == loc[p].cur
      isdir == ino[i].type = "DIR"
  IN  /\ Found(p, "chdir")
      /\ Ilock(i)
      /\ cwd' = IF isdir THEN [cwd EXCEPT ![p] = i] ELSE cwd
      /\ Puts(p, IF isdir THEN <<cwd[p]>> ELSE <<i>>)
      /\ Goto(p, "end") /\ loc' = [loc EXCEPT ![p] = NoLocals]
      /\ UNCHANGED <<ino, lk, drop, ofile, history>>

\* fileclose of the last descriptor.
Close(p) ==
  /\ At(p, "idle") /\ ofile[p] # 0
  /\ Goto(p, "end") /\ Puts(p, <<ofile[p]>>)
  /\ ofile' = [ofile EXCEPT ![p] = 0]
  /\ UNCHANGED <<ino, cache, loc, drop, cwd, history>>

EndOp(p) ==
  /\ At(p, "end")
  /\ Goto(p, "idle")
  /\ UNCHANGED <<ino, cache, loc, puts, drop, files, history>>

\* The inode whose lock a process takes next, or 0.
WaitsFor(p) ==
  LET l == loc[p] IN
  IF puts[p] # <<>> THEN (IF drop[p] THEN 0 ELSE Head(puts[p]))
  ELSE IF fpc[p] = "found" \/ (fpc[p] = "walk" /\ l.path # <<>>) THEN l.cur
  ELSE IF fpc[p] \in {"unlink2", "exists", "linkbad"} THEN l.ip ELSE 0

\* panic("ilock: no type") and panic("unlink: nlink < 1").
FsPanic(p) ==
  LET i == WaitsFor(p) IN
  /\ i # 0 /\ puts[p] = <<>> /\ Unlocked(i)
  /\ NoType(i) \/ (fpc[p] = "unlink2" /\ ino[i].nlink < 1)
  /\ Goto(p, "panic")
  /\ UNCHANGED <<ino, cache, loc, puts, drop, files, history>>

Quiet == \A p \in FsProcs : fpc[p] = "idle"

\* A crash and a boot: the cache, the open files and the processes are gone.
FsCrash ==
  /\ FsCrashes /\ Quiet
  /\ ref' = RootRefs /\ valid' = [i \in Inodes |-> FALSE]
  /\ cwd' = [p \in FsProcs |-> ROOTINO] /\ ofile' = [p \in FsProcs |-> 0]
  /\ UNCHANGED <<ino, lk, fpc, loc, puts, drop, history>>

FsStep(p) ==
  \/ Iput(p) \/ IputRef(p) \/ FsPanic(p) \/ Walk(p) \/ WalkNothing(p)
  \/ Link(p) \/ LinkEntry(p) \/ LinkExists(p) \/ LinkBad(p)
  \/ Unlink(p) \/ UnlinkEntry(p) \/ UnlinkBad(p) \/ UnlinkCount(p)
  \/ Create(p) \/ CreateExists(p) \/ Created(p)
  \/ (\E rdonly \in BOOLEAN : Open(p, rdonly)) \/ Chdir(p) \/ Close(p) \/ EndOp(p)

Panicked == \E p \in FsProcs : fpc[p] = "panic"

FsNext ==
  \/ FsCrash
  \/ /\ ~Panicked
     /\ \E p \in FsProcs :
          FsStep(p) \/ (ncalls > 0 /\ \E c \in FsCalls[ncalls] : Begin(p, c))

-----------------------------------------------------------------------------
\* The directory entries that refer to an inode; ".." counts while the directory
\* itself has a name, "." never.
Named(d) == \E e \in Inodes, n \in Names : ino[e].dir[n] = d

Links(i) ==
  Cardinality({x \in Inodes \X Names : ino[x[1]].dir[x[2]] = i})
  + Cardinality({d \in Inodes : ino[d].dir[".."] = i /\ Named(d)})
  + (IF i = ROOTINO THEN 1 ELSE 0)

\* No entry is ever left behind for a file that is gone: the link count is at
\* least the number of entries, at every moment of every call (iput, sys_link,
\* sys_unlink, create).  When no call is in progress, also after a crash, it is
\* exactly that number ("the number of links referring to it"), but for what was
\* created in a directory after that directory had been removed.
LinksCounted ==
  \A i \in Inodes :
    /\ Links(i) <= ino[i].nlink
    /\ ino[i].type = "free" => ino[i].nlink = 0
    /\ Quiet /\ i \notin lost => ino[i].nlink = Links(i)

\* ip->ref is the number of pointers to the inode: current directories, open
\* files and the local variables of calls ("Otherwise ip->ref tracks the number
\* of in-memory pointers to the entry").
Pointers(i) ==
  LET One(b) == IF b THEN 1 ELSE 0
      Of(p) == One(cwd[p] = i) + One(ofile[p] = i) + One(loc[p].cur = i) + One(loc[p].ip = i)
               + Cardinality({k \in DOMAIN puts[p] : puts[p][k] = i})
  IN  MapThenSumSet(Of, FsProcs)

RefsCounted == \A i \in Inodes : ref[i] = Pointers(i)

\* A file that is open, or a current directory, is not freed under its user,
\* whoever unlinks it (iput).  And the kernel panics ("ilock: no type", "unlink:
\* nlink < 1") only while a directory without a name is still there, whose parent
\* may be gone too: a path goes through its "..".
InUseNotFreed ==
  /\ \A p \in FsProcs :
       /\ ino[cwd[p]].type = "DIR"
       /\ ofile[p] # 0 => ino[ofile[p]].type # "free"
  /\ Panicked => \E d \in Inodes : ino[d].type = "DIR" /\ ~Named(d) /\ d # ROOTINO

\* No process waits for the lock of an inode that it holds itself or whose
\* holder waits for one of its own (the locks of namex, dirlink, unlink, iput).
Blocks(p, q) == WaitsFor(q) # 0 /\ lk[WaitsFor(q)] = p

NoCircularWait == ~\E p, q \in FsProcs : Blocks(p, q) /\ Blocks(q, p)
=============================================================================
