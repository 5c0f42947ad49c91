------------------------------- MODULE Bcache -------------------------------
(***************************************************************************)
(* The buffer cache (bio.c) on top of the disk driver (ide.c), with the    *)
(* sleep lock of every buffer (sleeplock.c).                               *)
(*                                                                         *)
(* A section under bcache.lock, idelock or the spin lock inside a sleep    *)
(* lock is one action.  A user of a buffer calls bread, makes any number   *)
(* of changes, written through with bwrite or left to the log (log_write   *)
(* sets B_DIRTY), then calls brelse.  A process that holds two buffers at  *)
(* a time, as bmap and install_trans do, is two members of Procs.  The     *)
(* disk reports no error: after one ideintr would set B_VALID on a buffer  *)
(* it has not filled.                                                      *)
(***************************************************************************)
EXTENDS Integers, FiniteSets, Sequences

CONSTANTS
  Procs,       \* the users of buffers
  NBUF,        \* param.h: buffers of the cache
  Blocks,      \* the disk blocks of the one device
  Vals,        \* contents of a block
  MaxPinned,   \* bound of the log: buffers that are dirty at one time
  NoProc, NoBlock

ASSUME BcacheAssumption ==
  /\ NBUF \in Nat /\ MaxPinned \in Nat
  /\ NoProc \notin Procs /\ NoBlock \notin Blocks /\ Vals # {}
  /\ IsFiniteSet(Procs)

Bufs == 1 .. NBUF
NoBuf == 0

VARIABLES
  blockno, valid, dirty, refcnt, data,  \* fields of bcache.buf[], flags as two
  lru,        \* the list of all buffers from head.next on
  holder,     \* the sleep lock of a buffer: locked and pid
  idequeue,   \* the buffers queued for the disk
  drive,      \* the request idestart gave to the disk
  disk,       \* the blocks on the disk
  pc, want, mybuf,  \* a process: its place, the block it asked for, its buffer
  chan        \* what it sleeps on

bufs == <<blockno, valid, dirty, refcnt, data, lru>>
ide == <<idequeue, drive, disk>>
vars == <<bufs, holder, ide, pc, want, mybuf, chan>>

NoRequest == [block |-> NoBlock]

\* The addresses processes sleep on: &b->lock and b.
LockChan(b) == <<"lock", b>>
IoChan(b) == <<"io", b>>
Awake == <<"awake">>

Wakeup(ch) == [p \in Procs |-> IF chan[p] = ch THEN Awake ELSE chan[p]]

\* binit puts every buffer in front of the ones before it.
Init ==
  /\ blockno = [b \in Bufs |-> NoBlock]
  /\ valid = [b \in Bufs |-> FALSE] /\ dirty = [b \in Bufs |-> FALSE]
  /\ refcnt = [b \in Bufs |-> 0]
  /\ LET v == CHOOSE v \in Vals : TRUE
     IN  disk = [k \in Blocks |-> v] /\ data = [b \in Bufs |-> v]
  /\ lru = [i \in Bufs |-> NBUF + 1 - i]
  /\ holder = [b \in Bufs |-> NoProc]
  /\ idequeue = <<>>
  /\ drive = NoRequest
  /\ pc = [p \in Procs |-> "idle"]
  /\ want = [p \in Procs |-> NoBlock] /\ mybuf = [p \in Procs |-> NoBuf]
  /\ chan = [p \in Procs |-> Awake]

-----------------------------------------------------------------------------
(* bio.c *)

\* Mutant: B_DIRTY is not looked at.
UnusedNotDirty(b) == refcnt[b] = 0

\* "Even if refcnt==0, B_DIRTY indicates a buffer is in use".
Unused(b) == refcnt[b] = 0 /\ ~dirty[b]

Caches(b, k) == blockno[b] = k

\* The first part of bget: the block is cached.
BgetCached(p, k) ==
  LET at == {i \in Bufs : Caches(lru[i], k)}
      i == CHOOSE i \in at : \A j \in at : i <= j
  IN  /\ at # {}
      /\ refcnt' = [refcnt EXCEPT ![lru[i]] = @ + 1]
      /\ mybuf' = [mybuf EXCEPT ![p] = lru[i]]
      /\ UNCHANGED <<blockno, valid, dirty>>

\* The second part: the least recently used buffer that is free is recycled.
BgetRecycle(p, k) ==
  LET at == {i \in Bufs : Unused(lru[i])}
      i == CHOOSE i \in at : \A j \in at : j <= i
      b == lru[i]
  IN  /\ \A c \in Bufs : ~Caches(c, k)
      /\ at # {}
      /\ blockno' = [blockno EXCEPT ![b] = k]
      /\ valid' = [valid EXCEPT ![b] = FALSE]
      /\ dirty' = [dirty EXCEPT ![b] = FALSE]
      /\ refcnt' = [refcnt EXCEPT ![b] = 1]
      /\ mybuf' = [mybuf EXCEPT ![p] = b]

\* bread up to the lock of the buffer, or panic("bget: no buffers").
Bget(p, k) ==
  /\ pc[p] = "idle"
  /\ IF \A b \in Bufs : ~Caches(b, k) /\ ~Unused(b)
     THEN pc' = [pc EXCEPT ![p] = "nobufs"] /\ UNCHANGED <<blockno, valid, dirty, refcnt, mybuf>>
     ELSE pc' = [pc EXCEPT ![p] = "lock"] /\ (BgetCached(p, k) \/ BgetRecycle(p, k))
  /\ want' = [want EXCEPT ![p] = k]
  /\ UNCHANGED <<data, lru, holder, ide, chan>>

\* Mutant: the loop around sleep is an if; who is woken takes the lock.
LockFreeOnce(p, b) == holder[b] = NoProc \/ pc[p] = "relock"

NeedsDisk(b) == ~valid[b]

\* The test of acquiresleep.
LockFree(p, b) == holder[b] = NoProc

\* acquiresleep, and bread's test of B_VALID.
Acquiresleep(p) ==
  LET b == mybuf[p] IN
  /\ pc[p] \in {"lock", "relock"} /\ chan[p] = Awake
  /\ IF LockFree(p, b)
     THEN /\ holder' = [holder EXCEPT ![b] = p]
          /\ pc' = [pc EXCEPT ![p] = IF NeedsDisk(b) THEN "iderw" ELSE "use"]
          /\ UNCHANGED chan
     ELSE /\ chan' = [chan EXCEPT ![p] = LockChan(b)]
          /\ pc' = [pc EXCEPT ![p] = "relock"]
          /\ UNCHANGED holder
  /\ UNCHANGED <<bufs, ide, want, mybuf>>

\* The caller changes the data and calls bwrite, up to iderw or panic("bwrite").
Bwrite(p, v) ==
  LET b == mybuf[p] IN
  /\ pc[p] = "use"
  /\ data' = [data EXCEPT ![b] = v]
  /\ IF holder[b] # p
     THEN pc' = [pc EXCEPT ![p] = "panic"] /\ UNCHANGED dirty
     ELSE /\ dirty' = [dirty EXCEPT ![b] = TRUE]
          /\ pc' = [pc EXCEPT ![p] = "iderw"]
  /\ UNCHANGED <<blockno, valid, refcnt, lru, holder, ide, want, mybuf, chan>>

\* The caller changes the data and calls log_write, as far as it concerns the
\* buffer.  The log pins no more than MaxPinned buffers.
LogWrite(p, v) ==
  LET b == mybuf[p] IN
  /\ pc[p] = "use"
  /\ Cardinality({c \in Bufs : dirty[c]} \cup {b}) <= MaxPinned
  /\ data' = [data EXCEPT ![b] = v]
  /\ dirty' = [dirty EXCEPT ![b] = TRUE]
  /\ UNCHANGED <<blockno, valid, refcnt, lru, holder, ide, pc, want, mybuf, chan>>

\* wakeup(lk) in releasesleep.
ReleaseWakes(b) == Wakeup(LockChan(b))

\* brelse up to releasesleep, or panic("brelse").
Brelse(p) ==
  LET b == mybuf[p] IN
  /\ pc[p] = "use"
  /\ IF holder[b] # p
     THEN pc' = [pc EXCEPT ![p] = "panic"] /\ UNCHANGED <<holder, chan>>
     ELSE /\ holder' = [holder EXCEPT ![b] = NoProc]
          /\ chan' = ReleaseWakes(b)
          /\ pc' = [pc EXCEPT ![p] = "put"]
  /\ UNCHANGED <<bufs, ide, want, mybuf>>

\* The list with b taken out and put in front: the ones before b move up.
MoveToHead(b) ==
  [i \in Bufs |-> IF i = 1 THEN b
                  ELSE IF \E j \in 1 .. i - 1 : lru[j] = b THEN lru[i] ELSE lru[i - 1]]

\* Mutant: the count goes down only when nobody waits for the buffer.
DroppedLast(b) == IF refcnt[b] = 1 THEN [refcnt EXCEPT ![b] = 0] ELSE refcnt

Dropped(b) == [refcnt EXCEPT ![b] = @ - 1]

\* The rest of brelse; an unused buffer becomes the most recently used one.
Bput(p) ==
  LET b == mybuf[p] IN
  /\ pc[p] = "put"
  /\ refcnt' = Dropped(b)
  /\ lru' = IF refcnt[b] = 1 THEN MoveToHead(b) ELSE lru
  /\ want' = [want EXCEPT ![p] = NoBlock]
  /\ mybuf' = [mybuf EXCEPT ![p] = NoBuf]
  /\ pc' = [pc EXCEPT ![p] = "idle"]
  /\ UNCHANGED <<blockno, valid, dirty, data, holder, ide, chan>>

-----------------------------------------------------------------------------
(* ide.c *)

Ready(b) == valid[b] /\ ~dirty[b]

\* idestart: a write hands the data to the disk.
Idestart(b) == [block |-> blockno[b], write |-> dirty[b], val |-> data[b]]

\* iderw up to the first sleep, with the tests in front.
Iderw(p) ==
  LET b == mybuf[p] IN
  /\ pc[p] = "iderw"
  /\ IF holder[b] # p \/ Ready(b)
     THEN pc' = [pc EXCEPT ![p] = "panic"] /\ UNCHANGED <<idequeue, drive, chan>>
     ELSE /\ idequeue' = Append(idequeue, b)
          /\ drive' = IF idequeue = <<>> THEN Idestart(b) ELSE drive
          /\ chan' = [chan EXCEPT ![p] = IoChan(b)]
          /\ pc' = [pc EXCEPT ![p] = "wait"]
  /\ UNCHANGED <<bufs, holder, disk, want, mybuf>>

\* iderw after sleep.
IderwResume(p) ==
  LET b == mybuf[p] IN
  /\ pc[p] = "wait" /\ chan[p] = Awake
  /\ IF Ready(b) THEN pc' = [pc EXCEPT ![p] = "use"] /\ UNCHANGED chan
     ELSE chan' = [chan EXCEPT ![p] = IoChan(b)] /\ UNCHANGED pc
  /\ UNCHANGED <<bufs, holder, ide, want, mybuf>>

\* Mutant: the next request is not started.
IdeNextNone(q) == NoRequest

\* "Start disk on next buf in queue."
IdeNext(q) == IF q # <<>> THEN Idestart(Head(q)) ELSE NoRequest

\* ideintr: the disk has finished the request of the first buffer.
Ideintr ==
  LET b == Head(idequeue) IN
  /\ drive # NoRequest /\ idequeue # <<>>
  /\ idequeue' = Tail(idequeue)
  /\ disk' = IF drive.write THEN [disk EXCEPT ![drive.block] = drive.val] ELSE disk
  /\ data' = IF dirty[b] THEN data ELSE [data EXCEPT ![b] = disk[drive.block]]
  /\ valid' = [valid EXCEPT ![b] = TRUE]
  /\ dirty' = [dirty EXCEPT ![b] = FALSE]
  /\ chan' = Wakeup(IoChan(b))
  /\ drive' = IdeNext(Tail(idequeue))
  /\ UNCHANGED <<blockno, refcnt, lru, holder, pc, want, mybuf>>

-----------------------------------------------------------------------------
Call(p) ==
  \/ \E k \in Blocks : Bget(p, k)
  \/ \E v \in Vals : Bwrite(p, v) \/ LogWrite(p, v)

\* What a process does without a choice of its caller.
Continue(p) ==
  Acquiresleep(p) \/ Iderw(p) \/ IderwResume(p) \/ Brelse(p) \/ Bput(p)

Next == Ideintr \/ \E p \in Procs : Call(p) \/ Continue(p)

Spec == Init /\ [][Next]_vars

-----------------------------------------------------------------------------
\* The processes that have a buffer, or wait for its lock or for the disk.
Users == {p \in Procs : pc[p] \notin {"idle", "nobufs", "panic"}}

\* No two buffers cache the same block, whatever bget recycles while other
\* processes look blocks up, wait for locks and drop references.  While a process
\* waits for the lock of a buffer or for the disk its buffer is not recycled for
\* another block, and once bread has returned the process alone holds it, with
\* contents (bget keeps refcnt > 0 over acquiresleep).
BufferStaysMine ==
  /\ \A b, c \in Bufs : blockno[b] = blockno[c] /\ blockno[b] # NoBlock => b = c
  /\ \A p \in Users :
       /\ blockno[mybuf[p]] = want[p]
       /\ pc[p] = "use" => valid[mybuf[p]] /\ holder[mybuf[p]] = p

\* No reference to a buffer outlives its user, whatever bget, brelse and ideintr do
\* at the same time: bget panics ("no buffers") only when at least NBUF buffers are in
\* use, one for each user and one for each block that is dirty.  (Nothing in the code
\* keeps it from that: NBUF is 30, with up to 64 processes and 30 blocks in the log.)
\* The panics of iderw, bwrite and brelse are never reached.
PanicsOnlyWhenFull ==
  [][\A p \in Procs :
       /\ pc'[p] # "panic"
       /\ pc[p] # "nobufs" /\ pc'[p] = "nobufs" =>
            NBUF <= Cardinality(Users) + Cardinality({b \in Bufs : dirty[b]})]_vars

\* The cache implements one synchronized value per block: a block is what its
\* valid buffer holds, or else what the disk holds, and its user is the holder
\* of the sleep lock.  No write is lost when a buffer is recycled and none
\* appears out of nowhere when the disk finishes a request (bio.c, ide.c).
Holding(k) == {b \in Bufs : blockno[b] = k}

Value(k) ==
  IF \E b \in Holding(k) : valid[b]
  THEN data[CHOOSE b \in Holding(k) : valid[b]] ELSE disk[k]

User(k) ==
  IF \E b \in Holding(k) : holder[b] # NoProc
  THEN holder[CHOOSE b \in Holding(k) : holder[b] # NoProc] ELSE NoProc

Store == INSTANCE BlockStore WITH
  content <- [k \in Blocks |-> Value(k)], user <- [k \in Blocks |-> User(k)]

StoreSpec == Store!Spec

\* The disk is never idle while requests are queued, it works on the first one,
\* and who sleeps for a buffer has it in the queue: no request is forgotten and
\* none is left without an interrupt to come (iderw, ideintr, idestart).  Who
\* sleeps for the lock of a buffer that nobody holds has been woken (releasesleep).
WaitersServed ==
  /\ idequeue # <<>> => drive # NoRequest /\ drive = Idestart(Head(idequeue))
  /\ \A p \in Procs : pc[p] = "wait" /\ chan[p] # Awake => \E i \in DOMAIN idequeue : idequeue[i] = mybuf[p]
  /\ \A i, j \in DOMAIN idequeue : idequeue[i] = idequeue[j] => i = j
  /\ \A p \in Procs, b \in Bufs : chan[p] = LockChan(b) => holder[b] # NoProc

=============================================================================
