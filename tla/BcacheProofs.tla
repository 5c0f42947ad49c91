---------------------------- MODULE BcacheProofs -----------------------------
(***************************************************************************)
(* The buffer cache keeps a buffer for its users, panics only when it has  *)
(* no buffer left, serves who waits and implements BlockStore, for any     *)
(* numbers of processes, buffers and blocks.  One lemma per action, one    *)
(* step per conjunct of the inductive invariant BInv.                      *)
(***************************************************************************)
EXTENDS Bcache, NatFacts, FiniteSetTheorems

PCs == {"idle", "lock", "relock", "iderw", "wait", "use", "put", "nobufs"}
Locked == {"iderw", "wait", "use"}       \* with the sleep lock
Chans == {Awake} \cup {LockChan(b) : b \in Bufs} \cup {IoChan(b) : b \in Bufs}

TypeOK ==
  /\ blockno \in [Bufs -> Blocks \cup {NoBlock}] /\ data \in [Bufs -> Vals]
  /\ valid \in [Bufs -> BOOLEAN] /\ dirty \in [Bufs -> BOOLEAN]
  /\ refcnt \in [Bufs -> Nat] /\ lru \in [Bufs -> Bufs]
  /\ holder \in [Bufs -> Procs \cup {NoProc}]
  /\ idequeue \in Seq(Bufs) /\ disk \in [Blocks -> Vals]
  /\ pc \in [Procs -> PCs] /\ chan \in [Procs -> Chans]
  /\ want \in [Procs -> Blocks \cup {NoBlock}] /\ mybuf \in [Procs -> Bufs \cup {NoBuf}]

\* The list reaches every buffer.
LruComplete == \A b \in Bufs : \E i \in Bufs : lru[i] = b

\* refcnt counts the processes between bget and the end of brelse.
UsersOf(b) == {p \in Procs : mybuf[p] = b}
RefsCounted == \A b \in Bufs : refcnt[b] = Cardinality(UsersOf(b))

OneBuffer == \A b, c \in Bufs : blockno[b] = blockno[c] /\ blockno[b] # NoBlock => b = c

\* A process and its buffer, and the sleep lock of the buffer.
ProcOK(p) ==
  /\ pc[p] = "idle" \/ pc[p] = "nobufs" => mybuf[p] = NoBuf
  /\ pc[p] # "idle" /\ pc[p] # "nobufs" =>
       mybuf[p] \in Bufs /\ want[p] \in Blocks /\ blockno[mybuf[p]] = want[p]
  /\ pc[p] \in Locked => holder[mybuf[p]] = p
  /\ pc[p] = "use" => valid[mybuf[p]]
  /\ pc[p] = "iderw" => ~Ready(mybuf[p])
  /\ pc[p] = "wait" /\ chan[p] = Awake => Ready(mybuf[p])
  /\ pc[p] = "wait" /\ chan[p] # Awake =>
       chan[p] = IoChan(mybuf[p]) /\ \E i \in 1 .. Len(idequeue) : idequeue[i] = mybuf[p]
  /\ pc[p] # "wait" /\ chan[p] # Awake =>
       pc[p] = "relock" /\ chan[p] = LockChan(mybuf[p]) /\ holder[mybuf[p]] # NoProc

HolderOK == \A b \in Bufs : holder[b] # NoProc => mybuf[holder[b]] = b /\ pc[holder[b]] \in Locked

\* The queue of the disk: every entry has one process that sleeps for it.
QueueOK ==
  /\ \A i \in 1 .. Len(idequeue) : \E p \in Procs :
       mybuf[p] = idequeue[i] /\ pc[p] = "wait" /\ chan[p] # Awake
  /\ \A i, j \in 1 .. Len(idequeue) : idequeue[i] = idequeue[j] => i = j
  /\ idequeue = <<>> => drive = NoRequest
  /\ idequeue # <<>> => drive = Idestart(Head(idequeue))

\* What a buffer holds.
BufferOK(b) ==
  /\ valid[b] => blockno[b] \in Blocks
  /\ dirty[b] => valid[b]
  /\ valid[b] /\ ~dirty[b] => data[b] = disk[blockno[b]]

BInv ==
  /\ TypeOK /\ LruComplete /\ RefsCounted /\ OneBuffer /\ HolderOK /\ QueueOK
  /\ (\A p \in Procs : ProcOK(p)) /\ (\A b \in Bufs : BufferOK(b))
-----------------------------------------------------------------------------
(* Facts about the state. *)

\* Every non-empty set of natural numbers has a least element.
LEMMA NatMin ==
  ASSUME NEW T \in SUBSET Nat, T # {}
  PROVE  \E x \in T : \A y \in T : x <= y
<1>. DEFINE R == OpToRel(<, Nat)
<1>1. IsWellFoundedOn(R, Nat)
  BY NatLessThanWellFounded
<1>. HIDE DEF R
<1>2. PICK x \in T : \A y \in T : ~(<<y, x>> \in R)
  BY <1>1, WFMin
<1>3. \A m, n \in Nat : m < n => <<m, n>> \in R
  BY DEF R, OpToRel
<1>4. ASSUME NEW y \in T PROVE x <= y
  <2>1. x \in Nat /\ y \in Nat
    OBVIOUS
  <2>2. ~(y < x)
    BY <1>2, <1>3, <2>1, Zenon
  <2>. QED
    BY <2>1, <2>2
<1>. QED
  BY <1>4

\* Every non-empty set of numbers up to n has a greatest element.
LEMMA IntervalMax ==
  ASSUME NEW n \in Nat, NEW T \in SUBSET (1 .. n), T # {}
  PROVE  \E x \in T : \A y \in T : y <= x
<1>. DEFINE U == {n - x : x \in T}
<1>1. U \in SUBSET Nat
  OBVIOUS
<1>2. U # {}
  OBVIOUS
<1>3. \E u \in U : \A w \in U : u <= w
  BY <1>1, <1>2, NatMin
<1>4. PICK x \in T : \A w \in U : n - x <= w
  BY <1>3
<1>5. ASSUME NEW y \in T PROVE y <= x
  <2>1. n - x <= n - y
    BY <1>4
  <2>. QED
    BY <2>1
<1>. QED
  BY <1>5

\* Nobody waits on two addresses at once.
LEMMA ChanFacts ==
  \A b, c \in Bufs :
    /\ LockChan(b) # Awake /\ IoChan(b) # Awake /\ LockChan(b) # IoChan(c)
    /\ LockChan(b) = LockChan(c) => b = c
    /\ IoChan(b) = IoChan(c) => b = c
    /\ LockChan(b) \in Chans /\ IoChan(b) \in Chans /\ Awake \in Chans
<1>. QED
  BY Zenon DEF LockChan, IoChan, Awake, Chans

\* wakeup wakes whoever sleeps on the address and nobody else.
LEMMA WakeupFacts ==
  ASSUME TypeOK, NEW ch
  PROVE  /\ Wakeup(ch) \in [Procs -> Chans]
         /\ \A p \in Procs : Wakeup(ch)[p] = IF chan[p] = ch THEN Awake ELSE chan[p]
<1>. QED
  BY Zenon DEF Wakeup, TypeOK, Chans

\* The users of a buffer are finitely many, and none exactly if refcnt is 0.
LEMMA UsersFinite ==
  ASSUME BInv, NEW b \in Bufs
  PROVE  /\ IsFiniteSet(UsersOf(b)) /\ refcnt[b] = Cardinality(UsersOf(b))
         /\ refcnt[b] = 0 <=> \A p \in Procs : mybuf[p] # b
<1>1. IsFiniteSet(UsersOf(b))
  BY BcacheAssumption, FS_Subset, Zenon DEF UsersOf
<1>2. refcnt[b] = Cardinality(UsersOf(b))
  BY Zenon DEF BInv, RefsCounted
<1>3. Cardinality(UsersOf(b)) = 0 <=> UsersOf(b) = {}
  BY <1>1, FS_EmptySet, Zenon
<1>. QED
  BY <1>1, <1>2, <1>3, Zenon DEF UsersOf

\* A locked buffer has one process that is past acquiresleep.
LEMMA OneHolder ==
  ASSUME BInv, NEW p \in Procs, NEW q \in Procs, pc[p] \in Locked, pc[q] \in Locked, mybuf[p] = mybuf[q]
  PROVE  p = q
<1>. QED
  BY DEF BInv, ProcOK

\* The buffer of a process that is not in iderw is not queued.
LEMMA NotQueued ==
  ASSUME BInv, NEW p \in Procs, pc[p] \in {"use", "iderw"}
  PROVE  \A i \in 1 .. Len(idequeue) : idequeue[i] # mybuf[p]
<1>. SUFFICES ASSUME NEW i \in 1 .. Len(idequeue), idequeue[i] = mybuf[p]
              PROVE  FALSE
  BY Zenon
<1>1. PICK q \in Procs : mybuf[q] = idequeue[i] /\ pc[q] = "wait"
  BY Zenon DEF BInv, QueueOK
<1>2. p = q
  BY <1>1, OneHolder, Zenon DEF Locked
<1>. QED
  BY <1>1, <1>2, Zenon

\* What the queue of the disk says of its buffers and of the request.
LEMMA Queued ==
  ASSUME BInv
  PROVE  /\ \A i \in 1 .. Len(idequeue) : \E p \in Procs :
              mybuf[p] = idequeue[i] /\ pc[p] = "wait" /\ chan[p] # Awake
         /\ idequeue # <<>> => drive = Idestart(Head(idequeue))
<1>. QED
  BY Zenon DEF BInv, QueueOK

\* A queue that stays as it is needs its sleepers and its first request.
LEMMA QueueKept ==
  ASSUME BInv, idequeue' = idequeue, drive' = drive,
         \A i \in 1 .. Len(idequeue) : \E q \in Procs :
           mybuf'[q] = idequeue[i] /\ pc'[q] = "wait" /\ chan'[q] # Awake,
         idequeue # <<>> => Idestart(Head(idequeue))' = Idestart(Head(idequeue))
  PROVE  QueueOK'
<1>1. QueueOK
  BY Zenon DEF BInv
<1>. QED
  BY <1>1 DEF QueueOK

\* The sleepers of the queue are not disturbed by a process that is not one of them.
LEMMA SleepersStay ==
  ASSUME BInv, NEW p \in Procs, pc[p] # "wait" \/ chan[p] = Awake,
         \A q \in Procs : q # p => mybuf'[q] = mybuf[q] /\ pc'[q] = pc[q] /\ chan'[q] = chan[q]
  PROVE  \A i \in 1 .. Len(idequeue) : \E q \in Procs :
           mybuf'[q] = idequeue[i] /\ pc'[q] = "wait" /\ chan'[q] # Awake
<1>. TAKE i \in 1 .. Len(idequeue)
<1>1. PICK q \in Procs : mybuf[q] = idequeue[i] /\ pc[q] = "wait" /\ chan[q] # Awake
  BY Queued, Zenon
<1>2. q # p
  BY <1>1, Zenon
<1>. QED
  BY <1>1, <1>2, Zenon

\* A process that a step of another one leaves alone, its buffer included.
LEMMA ProcKept ==
  ASSUME BInv, NEW q \in Procs,
         pc'[q] = pc[q], mybuf'[q] = mybuf[q], want'[q] = want[q], chan'[q] = chan[q],
         mybuf[q] \in Bufs => blockno'[mybuf[q]] = blockno[mybuf[q]],
         pc[q] \in Locked =>
           /\ holder'[mybuf[q]] = holder[mybuf[q]]
           /\ valid'[mybuf[q]] = valid[mybuf[q]] /\ dirty'[mybuf[q]] = dirty[mybuf[q]],
         (\E i \in 1 .. Len(idequeue) : idequeue[i] = mybuf[q]) /\ pc[q] = "wait" /\ chan[q] # Awake
           => \E i \in 1 .. Len(idequeue') : idequeue'[i] = mybuf[q],
         pc[q] # "wait" /\ chan[q] # Awake => holder'[mybuf[q]] # NoProc
  PROVE  ProcOK(q)'
<1>1. ProcOK(q)
  BY Zenon DEF BInv
<1>. QED
  BY <1>1, Zenon DEF ProcOK, Ready, Locked

\* When every buffer is referenced or dirty, there are as many users and dirty
\* buffers as there are buffers: refcnt counts users only.
LEMMA NoneLeft ==
  ASSUME BInv, \A b \in Bufs : ~Unused(b)
  PROVE  NBUF <= Cardinality(Users) + Cardinality({b \in Bufs : dirty[b]})
<1>. DEFINE D == {b \in Bufs : dirty[b]}
            T == {mybuf[q] : q \in Users}
            f == [q \in Users |-> mybuf[q]]
<1>1. IsFiniteSet(Bufs) /\ Cardinality(Bufs) = NBUF
  BY BcacheAssumption, FS_Interval DEF Bufs
<1>2. IsFiniteSet(D)
  BY <1>1, FS_Subset, Zenon
<1>3. IsFiniteSet(Users)
  BY BcacheAssumption, FS_Subset, Zenon DEF Users
<1>4. IsFiniteSet(T) /\ Cardinality(T) <= Cardinality(Users)
  <2>1. f \in Surjection(Users, T)
    BY Zenon DEF Surjection
  <2>. HIDE DEF f, T
  <2>. QED
    BY <1>3, <2>1, FS_Surjection, Zenon
<1>5. ASSUME NEW b \in Bufs, b \notin T PROVE b \in D
  <2>1. ASSUME NEW q \in Procs PROVE mybuf[q] # b
    <3>1. ProcOK(q) /\ NoBuf \notin Bufs /\ pc[q] \in PCs
      BY DEF BInv, TypeOK, NoBuf, Bufs
    <3>2. pc[q] # "panic"
      BY <3>1, Zenon DEF PCs
    <3>3. q \in Users \/ pc[q] = "idle" \/ pc[q] = "nobufs"
      BY <3>2, Zenon DEF Users
    <3>4. q \in Users => mybuf[q] \in T
      BY Zenon
    <3>. QED
      BY <1>5, <3>1, <3>3, <3>4, Zenon DEF ProcOK
  <2>2. refcnt[b] = 0
    BY <2>1, UsersFinite, Zenon
  <2>. QED
    BY <2>2, Zenon DEF Unused
<1>. HIDE DEF T, D
<1>6. Bufs \subseteq T \cup D
  BY <1>5, Zenon
<1>7. /\ IsFiniteSet(T \cup D)
      /\ Cardinality(T \cup D) = Cardinality(T) + Cardinality(D) - Cardinality(T \cap D)
  BY <1>2, <1>4, FS_Union, Zenon
<1>8. Cardinality(T \cap D) \in Nat
  BY <1>4, FS_Intersection, FS_CardinalityType, Zenon
<1>9. Cardinality(Bufs) <= Cardinality(T \cup D)
  BY <1>6, <1>7, FS_Subset, Zenon
<1>10. Cardinality(T) \in Nat /\ Cardinality(D) \in Nat /\ Cardinality(Users) \in Nat /\ NBUF \in Nat
  BY <1>2, <1>3, <1>4, BcacheAssumption, FS_CardinalityType, Zenon
<1>11. NBUF <= Cardinality(Users) + Cardinality(D)
  BY <1>1, <1>4, <1>7, <1>8, <1>9, <1>10
<1>. QED
  BY <1>11, Zenon DEF D

-----------------------------------------------------------------------------
(* The steps. *)

LEMMA InitBInv ==
  ASSUME Init
  PROVE  BInv
<1>. USE BcacheAssumption DEF Init, Bufs, NoBuf
<1>1. TypeOK
  <2>1. PICK v \in Vals : disk = [k \in Blocks |-> v] /\ data = [b \in Bufs |-> v]
    BY Zenon
  <2>2. lru \in [Bufs -> Bufs]
    OBVIOUS
  <2>3. chan \in [Procs -> Chans] /\ pc \in [Procs -> PCs]
    BY Zenon DEF Chans, PCs
  <2>4. idequeue \in Seq(Bufs)
    OBVIOUS
  <2>. QED
    BY <2>1, <2>2, <2>3, <2>4, Zenon DEF TypeOK
<1>2. LruComplete
  <2>. SUFFICES ASSUME NEW b \in Bufs PROVE \E i \in Bufs : lru[i] = b
    BY Zenon DEF LruComplete
  <2>1. NBUF + 1 - b \in Bufs /\ lru[NBUF + 1 - b] = b
    OBVIOUS
  <2>. QED
    BY <2>1, Zenon
<1>3. RefsCounted
  <2>1. \A b \in Bufs : UsersOf(b) = {}
    BY DEF UsersOf
  <2>. QED
    BY <2>1, FS_EmptySet, Zenon DEF RefsCounted
<1>4. OneBuffer /\ HolderOK
  BY Zenon DEF OneBuffer, HolderOK
<1>5. QueueOK
  BY DEF QueueOK
<1>6. \A p \in Procs : ProcOK(p)
  BY Zenon DEF ProcOK, Locked
<1>7. \A b \in Bufs : BufferOK(b)
  BY Zenon DEF BufferOK
<1>. QED
  BY <1>1, <1>2, <1>3, <1>4, <1>5, <1>6, <1>7, Zenon DEF BInv

\* Some buffer caches the block or can be recycled for it.
Available(k) == \E b \in Bufs : Caches(b, k) \/ Unused(b)

\* bget finds the block cached or recycles a buffer.
LEMMA BgetFinds ==
  ASSUME BInv, NEW p \in Procs, NEW k \in Blocks, Bget(p, k), Available(k)
  PROVE  /\ pc[p] = "idle" /\ pc' = [pc EXCEPT ![p] = "lock"] /\ want' = [want EXCEPT ![p] = k]
         /\ UNCHANGED <<data, lru, holder, ide, chan>>
         /\ \E b \in Bufs :
              /\ mybuf' = [mybuf EXCEPT ![p] = b]
              /\ \/ /\ blockno[b] = k
                    /\ refcnt' = [refcnt EXCEPT ![b] = @ + 1]
                    /\ UNCHANGED <<blockno, valid, dirty>>
                 \/ /\ \A c \in Bufs : blockno[c] # k
                    /\ refcnt[b] = 0 /\ ~dirty[b]
                    /\ blockno' = [blockno EXCEPT ![b] = k]
                    /\ valid' = [valid EXCEPT ![b] = FALSE]
                    /\ dirty' = [dirty EXCEPT ![b] = FALSE]
                    /\ refcnt' = [refcnt EXCEPT ![b] = 1]
<1>1. /\ pc[p] = "idle" /\ pc' = [pc EXCEPT ![p] = "lock"] /\ want' = [want EXCEPT ![p] = k]
      /\ UNCHANGED <<data, lru, holder, ide, chan>>
      /\ BgetCached(p, k) \/ BgetRecycle(p, k)
  BY Zenon DEF Bget, Available
<1>2. lru \in [Bufs -> Bufs] /\ NBUF \in Nat
  BY BcacheAssumption, Zenon DEF BInv, TypeOK
<1>3. CASE BgetCached(p, k)
  <2>. DEFINE at == {i \in Bufs : Caches(lru[i], k)}
              i == CHOOSE i \in at : \A j \in at : i <= j
  <2>1. at \in SUBSET Nat /\ at # {}
    BY <1>3 DEF BgetCached, Bufs
  <2>. HIDE DEF at
  <2>2. \E x \in at : \A j \in at : x <= j
    BY <2>1, NatMin, Zenon
  <2>3. i \in at
    BY <2>2, Zenon
  <2>. HIDE DEF i
  <2>4. lru[i] \in Bufs /\ blockno[lru[i]] = k
    BY <2>3, <1>2, Zenon DEF at, Caches
  <2>5. /\ refcnt' = [refcnt EXCEPT ![lru[i]] = @ + 1]
        /\ mybuf' = [mybuf EXCEPT ![p] = lru[i]]
        /\ UNCHANGED <<blockno, valid, dirty>>
    BY <1>3, Zenon DEF BgetCached, at, i
  <2>. QED
    BY <1>1, <2>4, <2>5, Zenon
<1>4. CASE BgetRecycle(p, k)
  <2>. DEFINE at == {i \in Bufs : Unused(lru[i])}
              i == CHOOSE i \in at : \A j \in at : j <= i
  <2>1. at \in SUBSET (1 .. NBUF) /\ at # {}
    BY <1>4, Zenon DEF BgetRecycle, Bufs
  <2>. HIDE DEF at
  <2>2. \E x \in at : \A j \in at : j <= x
    BY <2>1, <1>2, IntervalMax, Zenon
  <2>3. i \in at
    BY <2>2, Zenon
  <2>. HIDE DEF i
  <2>4. lru[i] \in Bufs /\ refcnt[lru[i]] = 0 /\ ~dirty[lru[i]]
    BY <2>3, <1>2, Zenon DEF at, Unused
  <2>5. /\ \A c \in Bufs : blockno[c] # k
        /\ blockno' = [blockno EXCEPT ![lru[i]] = k]
        /\ valid' = [valid EXCEPT ![lru[i]] = FALSE]
        /\ dirty' = [dirty EXCEPT ![lru[i]] = FALSE]
        /\ refcnt' = [refcnt EXCEPT ![lru[i]] = 1]
        /\ mybuf' = [mybuf EXCEPT ![p] = lru[i]]
    BY <1>4, Zenon DEF BgetRecycle, Caches, at, i
  <2>. QED
    BY <1>1, <2>4, <2>5, Zenon
<1>. QED
  BY <1>1, <1>3, <1>4, Zenon

\* bget with a buffer for the block keeps the invariant.
LEMMA BgetFoundStep ==
  ASSUME BInv, NEW p \in Procs, NEW k \in Blocks, Bget(p, k), Available(k)
  PROVE  BInv'
<1>. USE BcacheAssumption DEF Ready
<1>1. /\ pc[p] = "idle" /\ pc' = [pc EXCEPT ![p] = "lock"] /\ want' = [want EXCEPT ![p] = k]
      /\ UNCHANGED <<data, lru, holder, idequeue, drive, disk, chan>>
  BY BgetFinds DEF ide
<1>2. PICK b \in Bufs :
        /\ mybuf' = [mybuf EXCEPT ![p] = b]
        /\ \/ /\ blockno[b] = k
              /\ refcnt' = [refcnt EXCEPT ![b] = @ + 1]
              /\ UNCHANGED <<blockno, valid, dirty>>
           \/ /\ \A c \in Bufs : blockno[c] # k
              /\ refcnt[b] = 0 /\ ~dirty[b]
              /\ blockno' = [blockno EXCEPT ![b] = k]
              /\ valid' = [valid EXCEPT ![b] = FALSE]
              /\ dirty' = [dirty EXCEPT ![b] = FALSE]
              /\ refcnt' = [refcnt EXCEPT ![b] = 1]
  BY BgetFinds
<1>3. /\ mybuf[p] = NoBuf /\ NoBuf \notin Bufs /\ chan[p] = Awake
  BY <1>1 DEF BInv, ProcOK, NoBuf, Bufs
<1>4. TypeOK'
  <2>1. pc' \in [Procs -> PCs] /\ want' \in [Procs -> Blocks \cup {NoBlock}]
    BY <1>1, Zenon DEF BInv, TypeOK, PCs
  <2>2. mybuf' \in [Procs -> Bufs \cup {NoBuf}]
    BY <1>2, Zenon DEF BInv, TypeOK
  <2>3. blockno' \in [Bufs -> Blocks \cup {NoBlock}]
    BY <1>2, Zenon DEF BInv, TypeOK
  <2>5. refcnt' \in [Bufs -> Nat]
    BY <1>2 DEF BInv, TypeOK
  <2>4. valid' \in [Bufs -> BOOLEAN] /\ dirty' \in [Bufs -> BOOLEAN]
    BY <1>2, Zenon DEF BInv, TypeOK
  <2>. QED
    BY <1>1, <2>1, <2>2, <2>3, <2>4, <2>5, Zenon DEF BInv, TypeOK
<1>5. LruComplete'
  BY <1>1, Zenon DEF BInv, LruComplete
<1>6. RefsCounted'
  <2>. SUFFICES ASSUME NEW c \in Bufs PROVE refcnt'[c] = Cardinality(UsersOf(c)')
    BY Zenon DEF RefsCounted
  <2>1. UsersOf(c)' = IF c = b THEN UsersOf(c) \cup {p} ELSE UsersOf(c)
    BY <1>2, <1>3 DEF UsersOf, BInv, TypeOK
  <2>2. p \notin UsersOf(c) /\ IsFiniteSet(UsersOf(c)) /\ refcnt[c] = Cardinality(UsersOf(c))
    BY <1>3, UsersFinite, Zenon DEF UsersOf
  <2>3. Cardinality(UsersOf(c) \cup {p}) = refcnt[c] + 1
    BY <2>2, FS_AddElement, Zenon
  <2>. QED
    BY <1>2, <2>1, <2>2, <2>3 DEF BInv, TypeOK
<1>7. OneBuffer'
  <2>1. CASE blockno' = blockno
    BY <2>1, Zenon DEF BInv, OneBuffer
  <2>2. CASE /\ \A c \in Bufs : blockno[c] # k
             /\ blockno' = [blockno EXCEPT ![b] = k]
    <3>1. \A c \in Bufs : blockno'[c] = IF c = b THEN k ELSE blockno[c]
      BY <2>2, Zenon DEF BInv, TypeOK
    <3>. QED
      BY <2>2, <3>1 DEF BInv, OneBuffer
  <2>. QED
    BY <2>1, <2>2, <1>2, Zenon
<1>8. ASSUME NEW q \in Procs, q # p
      PROVE  /\ pc'[q] = pc[q] /\ mybuf'[q] = mybuf[q] /\ want'[q] = want[q]
             /\ mybuf[q] \in Bufs =>
                  /\ blockno'[mybuf[q]] = blockno[mybuf[q]] /\ valid'[mybuf[q]] = valid[mybuf[q]]
                  /\ dirty'[mybuf[q]] = dirty[mybuf[q]]
  BY <1>1, <1>2, <1>8, UsersFinite DEF BInv, TypeOK
<1>9. ASSUME NEW q \in Procs PROVE ProcOK(q)'
  <2>1. CASE q = p
    <3>1. /\ pc'[p] = "lock" /\ mybuf'[p] = b /\ want'[p] = k /\ chan'[p] = Awake
          /\ blockno'[b] = k
      BY <1>1, <1>2, <1>3, Zenon DEF BInv, TypeOK
    <3>. QED
      BY <2>1, <3>1, Zenon DEF ProcOK, Locked
  <2>2. CASE q # p
    <3>1. ProcOK(q)
      BY Zenon DEF BInv
    <3>2. pc[q] # "idle" /\ pc[q] # "nobufs" => mybuf[q] \in Bufs
      BY <3>1, Zenon DEF ProcOK
    <3>. QED
      BY <2>2, <3>1, <3>2, <1>1, <1>8, ProcKept, Zenon DEF ProcOK, Locked
  <2>. QED
    BY <2>1, <2>2, Zenon
<1>10. HolderOK'
  BY <1>1, <1>3, <1>8 DEF BInv, HolderOK, TypeOK, Locked
<1>11. QueueOK'
  <2>1. ASSUME NEW i \in 1 .. Len(idequeue)
        PROVE  /\ idequeue[i] \in Bufs
               /\ \E q \in Procs : mybuf'[q] = idequeue[i] /\ pc'[q] = "wait" /\ chan'[q] # Awake
               /\ blockno'[idequeue[i]] = blockno[idequeue[i]] /\ dirty'[idequeue[i]] = dirty[idequeue[i]]
    <3>1. PICK q \in Procs : mybuf[q] = idequeue[i] /\ pc[q] = "wait" /\ chan[q] # Awake
      BY Zenon DEF BInv, QueueOK
    <3>2. q # p /\ idequeue[i] \in Bufs
      BY <3>1, <1>1 DEF BInv, TypeOK
    <3>. QED
      BY <3>1, <3>2, <1>1, <1>8, Zenon
  <2>2. idequeue # <<>> => 1 \in 1 .. Len(idequeue) /\ Head(idequeue) = idequeue[1]
    BY DEF BInv, TypeOK
  <2>3. idequeue # <<>> => Idestart(Head(idequeue))' = Idestart(Head(idequeue))
    BY <2>1, <2>2, <1>1, Zenon DEF Idestart
  <2>. QED
    BY <2>1, <2>3, <1>1, QueueKept, Zenon
<1>12. ASSUME NEW c \in Bufs PROVE BufferOK(c)'
  <2>1. \/ blockno'[c] = blockno[c] /\ valid'[c] = valid[c] /\ dirty'[c] = dirty[c]
        \/ valid'[c] = FALSE /\ dirty'[c] = FALSE
    BY <1>2, Zenon DEF BInv, TypeOK
  <2>. QED
    BY <2>1, <1>1, Zenon DEF BInv, BufferOK
<1>. QED
  BY <1>4, <1>5, <1>6, <1>7, <1>9, <1>10, <1>11, <1>12, Zenon DEF BInv

\* bget without a buffer panics and changes nothing in the cache.
LEMMA BgetPanics ==
  ASSUME BInv, NEW p \in Procs, NEW k \in Blocks, Bget(p, k), ~Available(k)
  PROVE  /\ pc[p] = "idle" /\ pc' = [pc EXCEPT ![p] = "nobufs"] /\ want' = [want EXCEPT ![p] = k]
         /\ UNCHANGED <<blockno, valid, dirty, refcnt, data, lru, holder, idequeue, drive, disk,
                        mybuf, chan>>
<1>. QED
  BY Zenon DEF Bget, Available, ide

LEMMA BgetPanicStep ==
  ASSUME BInv, NEW p \in Procs, NEW k \in Blocks, Bget(p, k), ~Available(k)
  PROVE  BInv'
<1>1. /\ pc[p] = "idle" /\ pc' = [pc EXCEPT ![p] = "nobufs"] /\ want' = [want EXCEPT ![p] = k]
      /\ UNCHANGED <<blockno, valid, dirty, refcnt, data, lru, holder, idequeue, drive, disk,
                     mybuf, chan>>
  BY BgetPanics, Zenon
<1>2. /\ pc'[p] = "nobufs" /\ want'[p] = k
      /\ \A q \in Procs : q # p => pc'[q] = pc[q] /\ want'[q] = want[q]
  BY <1>1, Zenon DEF BInv, TypeOK
<1>3. TypeOK'
  <2>1. pc' \in [Procs -> PCs] /\ want' \in [Procs -> Blocks \cup {NoBlock}]
    BY <1>1, Zenon DEF BInv, TypeOK, PCs
  <2>. QED
    BY <1>1, <2>1, Zenon DEF BInv, TypeOK
<1>4. LruComplete' /\ OneBuffer'
  BY <1>1, Zenon DEF BInv, LruComplete, OneBuffer
<1>5. RefsCounted'
  BY <1>1, Zenon DEF BInv, RefsCounted, UsersOf
<1>6. ASSUME NEW q \in Procs PROVE ProcOK(q)'
  <2>0. ProcOK(q)
    BY Zenon DEF BInv
  <2>1. CASE q = p
    BY <2>0, <2>1, <1>1, <1>2, Zenon DEF ProcOK, Locked
  <2>2. CASE q # p
    BY <2>0, <2>2, <1>1, <1>2, Zenon DEF ProcOK, Ready
  <2>. QED
    BY <2>1, <2>2, Zenon
<1>7. HolderOK'
  <2>. SUFFICES ASSUME NEW c \in Bufs, holder[c] # NoProc
                PROVE  mybuf[holder[c]] = c /\ pc'[holder[c]] \in Locked
    BY <1>1, Zenon DEF HolderOK
  <2>1. holder[c] \in Procs /\ mybuf[holder[c]] = c /\ pc[holder[c]] \in Locked
    BY Zenon DEF BInv, HolderOK, TypeOK
  <2>2. holder[c] # p
    BY <2>1, <1>1, Zenon DEF Locked
  <2>. QED
    BY <2>1, <2>2, <1>2, Zenon
<1>8. QueueOK'
  <2>1. \A i \in 1 .. Len(idequeue) : \E q \in Procs :
          mybuf'[q] = idequeue[i] /\ pc'[q] = "wait" /\ chan'[q] # Awake
    BY <1>1, <1>2, SleepersStay, Zenon
  <2>2. Idestart(Head(idequeue))' = Idestart(Head(idequeue))
    BY <1>1, Zenon DEF Idestart
  <2>. QED
    BY <2>1, <2>2, <1>1, QueueKept, Zenon
<1>9. \A c \in Bufs : BufferOK(c)'
  BY <1>1, Zenon DEF BInv, BufferOK
<1>. QED
  BY <1>3, <1>4, <1>5, <1>6, <1>7, <1>8, <1>9, Zenon DEF BInv

LEMMA BgetStep ==
  ASSUME BInv, NEW p \in Procs, NEW k \in Blocks, Bget(p, k)
  PROVE  BInv'
<1>. QED
  BY BgetFoundStep, BgetPanicStep, Zenon

\* acquiresleep: the lock, or sleep on it.
LEMMA AcquiresleepStep ==
  ASSUME BInv, NEW p \in Procs, Acquiresleep(p)
  PROVE  BInv'
<1>. USE BcacheAssumption DEF Ready
<1>. DEFINE b == mybuf[p]
<1>1. /\ pc[p] \in {"lock", "relock"} /\ chan[p] = Awake /\ b \in Bufs
      /\ UNCHANGED <<blockno, valid, dirty, refcnt, data, lru, idequeue, drive, disk, want, mybuf>>
  BY Zenon DEF Acquiresleep, bufs, ide, BInv, ProcOK
<1>2. \/ /\ holder[b] = NoProc /\ holder' = [holder EXCEPT ![b] = p] /\ chan' = chan
         /\ pc' = [pc EXCEPT ![p] = IF ~valid[b] THEN "iderw" ELSE "use"]
      \/ /\ holder[b] # NoProc /\ holder' = holder /\ chan' = [chan EXCEPT ![p] = LockChan(b)]
         /\ pc' = [pc EXCEPT ![p] = "relock"]
  BY Zenon DEF Acquiresleep, LockFree, NeedsDisk
<1>3. TypeOK'
  <2>1. pc' \in [Procs -> PCs]
    BY <1>2, Zenon DEF BInv, TypeOK, PCs
  <2>2. chan' \in [Procs -> Chans]
    BY <1>1, <1>2, ChanFacts, ZenonT(60) DEF BInv, TypeOK
  <2>3. holder' \in [Bufs -> Procs \cup {NoProc}]
    BY <1>2 DEF BInv, TypeOK
  <2>. QED
    BY <1>1, <2>1, <2>2, <2>3, Zenon DEF BInv, TypeOK
<1>4. LruComplete' /\ OneBuffer'
  BY <1>1, Zenon DEF BInv, LruComplete, OneBuffer
<1>5. RefsCounted'
  BY <1>1, Zenon DEF BInv, RefsCounted, UsersOf
<1>6. ASSUME NEW q \in Procs, q # p
      PROVE  pc'[q] = pc[q] /\ chan'[q] = chan[q]
  BY <1>2, <1>6, Zenon DEF BInv, TypeOK
<1>7. ASSUME NEW q \in Procs PROVE ProcOK(q)'
  <2>1. CASE q = p
    <3>0. ProcOK(p) /\ pc[p] \in {"lock", "relock"} /\ mybuf[p] \in Bufs /\ b \in Bufs
      BY <1>1, Zenon DEF BInv, TypeOK, Acquiresleep
    <3>1. CASE holder[b] = NoProc
      <4>1. holder'[b] = p /\ chan' = chan /\ pc'[p] = IF ~valid[b] THEN "iderw" ELSE "use"
        BY <1>2, <3>0, <3>1, Zenon DEF BInv, TypeOK
      <4>2. chan[p] = Awake
        BY <1>1, <3>0, <3>1, Zenon DEF ProcOK
      <4>3. CASE valid[b]
        <5>1. pc'[p] = "use"
          BY <4>1, <4>3, Zenon
        <5>. QED
          BY <2>1, <1>1, <3>0, <4>1, <4>2, <4>3, <5>1, Zenon DEF ProcOK
      <4>4. CASE ~valid[b]
        <5>1. pc'[p] = "iderw"
          BY <4>1, <4>4, Zenon
        <5>. QED
          BY <2>1, <1>1, <3>0, <4>1, <4>2, <4>4, <5>1, Zenon DEF ProcOK, Ready
      <4>. QED
        BY <4>3, <4>4, Zenon
    <3>2. CASE holder[b] # NoProc
      <4>1. holder' = holder /\ chan'[p] = LockChan(b) /\ pc'[p] = "relock"
        BY <1>2, <3>2, Zenon DEF BInv, TypeOK
      <4>. QED
        BY <2>1, <1>1, <3>0, <3>2, <4>1, Zenon DEF ProcOK, Locked
    <3>. QED
      BY <3>1, <3>2, Zenon
  <2>2. CASE q # p
    <3>1. ProcOK(q)
      BY Zenon DEF BInv
    <3>2. mybuf[q] \in Bufs => holder'[mybuf[q]] = holder[mybuf[q]] \/ holder[mybuf[q]] = NoProc
      BY <1>1, <1>2, Zenon DEF BInv, TypeOK
    <3>3. mybuf[q] \in Bufs /\ holder[mybuf[q]] # NoProc => holder'[mybuf[q]] = holder[mybuf[q]]
      BY <1>1, <1>2, Zenon DEF BInv, TypeOK
    <3>. QED
      BY <2>2, <1>1, <1>6, <3>1, <3>2, <3>3, Zenon DEF ProcOK, Locked
  <2>. QED
    BY <2>1, <2>2, Zenon
<1>8. HolderOK'
  <2>. SUFFICES ASSUME NEW c \in Bufs, holder'[c] # NoProc
                PROVE  mybuf'[holder'[c]] = c /\ pc'[holder'[c]] \in Locked
    BY Zenon DEF HolderOK
  <2>1. CASE holder'[c] = holder[c]
    <3>1. holder[c] \in Procs /\ mybuf[holder[c]] = c /\ pc[holder[c]] \in Locked
      BY <2>1, Zenon DEF BInv, HolderOK, TypeOK
    <3>. QED
      BY <2>1, <3>1, <1>1, <1>6, Zenon DEF Locked
  <2>2. CASE c = b /\ holder'[c] = p /\ pc'[p] \in Locked
    BY <2>2, <1>1, Zenon
  <2>3. holder'[c] = holder[c] \/ (c = b /\ holder'[c] = p /\ pc'[p] \in Locked)
    BY <1>1, <1>2, Zenon DEF BInv, TypeOK, Locked
  <2>. QED
    BY <2>1, <2>2, <2>3, Zenon
<1>9. QueueOK'
  <2>1. \A i \in 1 .. Len(idequeue) : \E q \in Procs :
          mybuf'[q] = idequeue[i] /\ pc'[q] = "wait" /\ chan'[q] # Awake
    BY <1>1, <1>6, SleepersStay, Zenon
  <2>2. Idestart(Head(idequeue))' = Idestart(Head(idequeue))
    BY <1>1, Zenon DEF Idestart
  <2>. QED
    BY <2>1, <2>2, <1>1, QueueKept, Zenon
<1>10. \A c \in Bufs : BufferOK(c)'
  BY <1>1, Zenon DEF BInv, BufferOK
<1>. QED
  BY <1>3, <1>4, <1>5, <1>7, <1>8, <1>9, <1>10, Zenon DEF BInv
\* The user of a buffer changes it, and pins it or hands it to iderw.
LEMMA ChangeStep ==
  ASSUME BInv, NEW p \in Procs, NEW v \in Vals, Bwrite(p, v) \/ LogWrite(p, v)
  PROVE  BInv'
<1>. USE BcacheAssumption DEF Ready
<1>. DEFINE b == mybuf[p]
<1>1. /\ pc[p] = "use" /\ b \in Bufs /\ valid[b] /\ chan[p] = Awake
      /\ data' = [data EXCEPT ![b] = v] /\ dirty' = [dirty EXCEPT ![b] = TRUE]
      /\ UNCHANGED <<blockno, valid, refcnt, lru, holder, idequeue, drive, disk, want, mybuf, chan>>
      /\ pc' = pc \/ pc' = [pc EXCEPT ![p] = "iderw"]
  BY Zenon DEF Bwrite, LogWrite, ide, BInv, ProcOK, Locked
<1>2. pc' = pc \/ pc' = [pc EXCEPT ![p] = "iderw"]
  BY <1>1, Zenon
<1>3. TypeOK'
  <2>1. pc' \in [Procs -> PCs]
    BY <1>2, Zenon DEF BInv, TypeOK, PCs
  <2>2. data' \in [Bufs -> Vals] /\ dirty' \in [Bufs -> BOOLEAN]
    BY <1>1, Zenon DEF BInv, TypeOK
  <2>. QED
    BY <1>1, <2>1, <2>2, Zenon DEF BInv, TypeOK
<1>4. LruComplete' /\ OneBuffer'
  BY <1>1, Zenon DEF BInv, LruComplete, OneBuffer
<1>5. RefsCounted'
  BY <1>1, Zenon DEF BInv, RefsCounted, UsersOf
<1>6. ASSUME NEW q \in Procs, q # p PROVE pc'[q] = pc[q]
  BY <1>2, <1>6, Zenon DEF BInv, TypeOK
<1>7. \A c \in Bufs : c # b => dirty'[c] = dirty[c] /\ data'[c] = data[c]
  BY <1>1, Zenon DEF BInv, TypeOK
<1>8. dirty'[b] /\ data'[b] = v /\ pc'[p] \in {"use", "iderw"}
  BY <1>1, <1>2, Zenon DEF BInv, TypeOK
<1>9. ASSUME NEW q \in Procs PROVE ProcOK(q)'
  <2>1. CASE q = p
    BY <2>1, <1>1, <1>8, Zenon DEF BInv, ProcOK, Locked
  <2>2. CASE q # p
    <3>1. ProcOK(q) /\ ProcOK(p)
      BY Zenon DEF BInv
    <3>2. pc[q] \in Locked => mybuf[q] # b
      BY <2>2, <1>1, OneHolder, Zenon DEF Locked
    <3>3. pc[q] # "idle" /\ pc[q] # "nobufs" => mybuf[q] \in Bufs
      BY <3>1, Zenon DEF ProcOK
    <3>. QED
      BY <3>1, <3>2, <3>3, <1>1, <1>6, <1>7, <2>2, ProcKept, Zenon DEF ProcOK, Locked
  <2>. QED
    BY <2>1, <2>2, Zenon
<1>10. HolderOK'
  <2>. SUFFICES ASSUME NEW c \in Bufs, holder[c] # NoProc
                PROVE  mybuf[holder[c]] = c /\ pc'[holder[c]] \in Locked
    BY <1>1, Zenon DEF HolderOK
  <2>1. holder[c] \in Procs /\ mybuf[holder[c]] = c /\ pc[holder[c]] \in Locked
    BY Zenon DEF BInv, HolderOK, TypeOK
  <2>. QED
    BY <2>1, <1>6, <1>8, Zenon DEF Locked
<1>11. QueueOK'
  <2>1. \A i \in 1 .. Len(idequeue) : idequeue[i] # b /\ idequeue[i] \in Bufs
    BY <1>1, NotQueued DEF BInv, TypeOK
  <2>2. \A i \in 1 .. Len(idequeue) : \E q \in Procs :
          mybuf'[q] = idequeue[i] /\ pc'[q] = "wait" /\ chan'[q] # Awake
    BY <1>1, <1>6, SleepersStay, Zenon
  <2>3. idequeue # <<>> => 1 \in 1 .. Len(idequeue) /\ Head(idequeue) = idequeue[1]
    BY DEF BInv, TypeOK
  <2>4. idequeue # <<>> => Idestart(Head(idequeue))' = Idestart(Head(idequeue))
    BY <1>1, <1>7, <2>1, <2>3, Zenon DEF Idestart
  <2>. QED
    BY <2>2, <2>4, <1>1, QueueKept, Zenon
<1>12. ASSUME NEW c \in Bufs PROVE BufferOK(c)'
  BY <1>1, <1>7, <1>8, Zenon DEF BInv, BufferOK
<1>. QED
  BY <1>3, <1>4, <1>5, <1>9, <1>10, <1>11, <1>12, Zenon DEF BInv

\* brelse releases the sleep lock and wakes everybody who waits for it.
LEMMA BrelseStep ==
  ASSUME BInv, NEW p \in Procs, Brelse(p)
  PROVE  BInv'
<1>. USE BcacheAssumption DEF Ready
<1>. DEFINE b == mybuf[p]
<1>1. /\ pc[p] = "use" /\ b \in Bufs /\ chan[p] = Awake /\ holder[b] = p
      /\ holder' = [holder EXCEPT ![b] = NoProc] /\ chan' = Wakeup(LockChan(b))
      /\ pc' = [pc EXCEPT ![p] = "put"]
      /\ UNCHANGED <<blockno, valid, dirty, refcnt, data, lru, idequeue, drive, disk, want, mybuf>>
  BY Zenon DEF Brelse, ReleaseWakes, bufs, ide, BInv, ProcOK, Locked
<1>2. /\ chan' \in [Procs -> Chans]
      /\ \A q \in Procs : chan'[q] = IF chan[q] = LockChan(b) THEN Awake ELSE chan[q]
  BY <1>1, WakeupFacts, Zenon DEF BInv
<1>3. TypeOK'
  <2>1. pc' \in [Procs -> PCs] /\ holder' \in [Bufs -> Procs \cup {NoProc}]
    BY <1>1, Zenon DEF BInv, TypeOK, PCs
  <2>. QED
    BY <1>1, <1>2, <2>1, Zenon DEF BInv, TypeOK
<1>4. LruComplete' /\ OneBuffer'
  BY <1>1, Zenon DEF BInv, LruComplete, OneBuffer
<1>5. RefsCounted'
  BY <1>1, Zenon DEF BInv, RefsCounted, UsersOf
<1>6. /\ \A q \in Procs : q # p => pc'[q] = pc[q]
      /\ \A c \in Bufs : holder'[c] = IF c = b THEN NoProc ELSE holder[c]
      /\ pc'[p] = "put"
  BY <1>1, Zenon DEF BInv, TypeOK
<1>7. ASSUME NEW q \in Procs PROVE ProcOK(q)'
  <2>0. ProcOK(q)
    BY Zenon DEF BInv
  <2>1. CASE q = p
    BY <2>0, <2>1, <1>1, <1>2, <1>6, ChanFacts, Zenon DEF ProcOK, Locked
  <2>2. CASE q # p
    <3>1. pc[q] \in Locked => mybuf[q] # b
      BY <2>2, <1>1, OneHolder, Zenon DEF Locked
    <3>2. CASE pc[q] = "wait"
      <4>1. chan'[q] = chan[q]
        BY <2>0, <3>2, <1>1, <1>2, ChanFacts DEF ProcOK
      <4>2. mybuf[q] \in Bufs /\ mybuf[q] # b
        BY <2>0, <3>1, <3>2, Zenon DEF ProcOK, Locked
      <4>. QED
        BY <2>2, <3>2, <4>1, <4>2, <1>1, <1>6, ProcKept, Zenon
    <3>3. CASE pc[q] # "wait"
      <4>1. chan'[q] # Awake => chan'[q] = chan[q] /\ mybuf[q] # b
        BY <2>0, <3>3, <1>1, <1>2, Zenon DEF ProcOK
      <4>2. CASE chan'[q] = Awake
        BY <2>0, <2>2, <3>1, <3>3, <4>2, <1>1, <1>6 DEF ProcOK, Locked
      <4>3. CASE chan'[q] # Awake
        <5>1. pc[q] = "relock" /\ mybuf[q] \in Bufs /\ holder[mybuf[q]] # NoProc
          BY <2>0, <3>3, <4>1, <4>3, Zenon DEF ProcOK
        <5>2. pc[q] \notin Locked
          BY <5>1, Zenon DEF Locked
        <5>. QED
          BY <2>2, <3>3, <4>1, <4>3, <5>1, <5>2, <1>1, <1>6, ProcKept, SMT
      <4>. QED
        BY <4>2, <4>3, Zenon
    <3>. QED
      BY <3>2, <3>3, Zenon
  <2>. QED
    BY <2>1, <2>2, Zenon
<1>8. HolderOK'
  <2>0. mybuf' = mybuf
    BY <1>1, Zenon
  <2>. SUFFICES ASSUME NEW c \in Bufs, c # b, holder[c] # NoProc
                PROVE  mybuf[holder[c]] = c /\ pc'[holder[c]] \in Locked
    BY <1>6, <2>0, Zenon DEF HolderOK
  <2>1. holder[c] \in Procs /\ mybuf[holder[c]] = c /\ pc[holder[c]] \in Locked
    BY Zenon DEF BInv, HolderOK, TypeOK
  <2>. QED
    BY <2>1, <1>6, Zenon DEF Locked
<1>9. QueueOK'
  <2>1. ASSUME NEW i \in 1 .. Len(idequeue)
        PROVE  \E q \in Procs : mybuf'[q] = idequeue[i] /\ pc'[q] = "wait" /\ chan'[q] # Awake
    <3>1. PICK q \in Procs : mybuf[q] = idequeue[i] /\ pc[q] = "wait" /\ chan[q] # Awake
      BY Zenon DEF BInv, QueueOK
    <3>2. q # p /\ chan[q] = IoChan(mybuf[q]) /\ mybuf[q] \in Bufs
      BY <3>1, <1>1, Zenon DEF BInv, ProcOK
    <3>3. chan'[q] = chan[q]
      BY <3>2, <1>1, <1>2, ChanFacts, Zenon
    <3>. QED
      BY <3>1, <3>2, <3>3, <1>1, <1>6, Zenon
  <2>2. Idestart(Head(idequeue))' = Idestart(Head(idequeue))
    BY <1>1, Zenon DEF Idestart
  <2>. QED
    BY <2>1, <2>2, <1>1, QueueKept, Zenon
<1>10. \A c \in Bufs : BufferOK(c)'
  BY <1>1, Zenon DEF BInv, BufferOK
<1>. QED
  BY <1>3, <1>4, <1>5, <1>7, <1>8, <1>9, <1>10, Zenon DEF BInv
\* Moving a buffer to the head of the list loses none.
LEMMA MoveToHeadComplete ==
  ASSUME BInv, NEW b \in Bufs
  PROVE  /\ MoveToHead(b) \in [Bufs -> Bufs]
         /\ \A c \in Bufs : \E i \in Bufs : MoveToHead(b)[i] = c
<1>. USE BcacheAssumption DEF Bufs
<1>1. lru \in [Bufs -> Bufs]
  BY Zenon DEF BInv, TypeOK
<1>2. PICK n \in Bufs : lru[n] = b
  BY Zenon DEF BInv, LruComplete
<1>3. MoveToHead(b) \in [Bufs -> Bufs]
  <2>1. \A i \in Bufs : lru[i] \in Bufs /\ (i # 1 => lru[i - 1] \in Bufs)
    BY <1>1
  <2>. QED
    BY <2>1, Zenon DEF MoveToHead
<1>4. ASSUME NEW c \in Bufs PROVE \E i \in Bufs : MoveToHead(b)[i] = c
  <2>1. CASE c = b
    <3>1. 1 \in Bufs /\ MoveToHead(b)[1] = b
      BY DEF MoveToHead
    <3>. QED
      BY <2>1, <3>1, Zenon
  <2>2. CASE c # b
    <3>1. PICK m \in Bufs : lru[m] = c
      BY Zenon DEF BInv, LruComplete
    <3>2. CASE \E j \in 1 .. m - 1 : lru[j] = b
      <4>1. MoveToHead(b)[m] = c
        BY <3>1, <3>2 DEF MoveToHead
      <4>. QED
        BY <4>1, Zenon
    <3>3. CASE ~\E j \in 1 .. m - 1 : lru[j] = b
      <4>1. m < n /\ m + 1 \in Bufs
        BY <1>2, <2>2, <3>1, <3>3
      <4>2. ~\E j \in 1 .. (m + 1) - 1 : lru[j] = b
        BY <2>2, <3>1, <3>3
      <4>3. MoveToHead(b)[m + 1] = c
        BY <3>1, <4>1, <4>2 DEF MoveToHead
      <4>. QED
        BY <4>1, <4>3, Zenon
    <3>. QED
      BY <3>2, <3>3, Zenon
  <2>. QED
    BY <2>1, <2>2, Zenon
<1>. QED
  BY <1>3, <1>4, Zenon

\* The rest of brelse drops the reference.
LEMMA BputStep ==
  ASSUME BInv, NEW p \in Procs, Bput(p)
  PROVE  BInv'
<1>. USE BcacheAssumption DEF Ready
<1>. DEFINE b == mybuf[p]
<1>1. /\ pc[p] = "put" /\ b \in Bufs /\ chan[p] = Awake
      /\ refcnt' = [refcnt EXCEPT ![b] = @ - 1] /\ want' = [want EXCEPT ![p] = NoBlock]
      /\ lru' = lru \/ lru' = MoveToHead(b)
      /\ mybuf' = [mybuf EXCEPT ![p] = NoBuf] /\ pc' = [pc EXCEPT ![p] = "idle"]
      /\ UNCHANGED <<blockno, valid, dirty, data, holder, idequeue, drive, disk, chan>>
  BY Zenon DEF Bput, Dropped, ide, BInv, ProcOK
<1>2. NoBuf \notin Bufs
  BY DEF NoBuf, Bufs
<1>3. LruComplete' /\ lru' \in [Bufs -> Bufs]
  <2>1. CASE lru' = lru
    BY <2>1, Zenon DEF BInv, LruComplete, TypeOK
  <2>2. CASE lru' = MoveToHead(b)
    <3>. HIDE DEF b
    <3>. QED
      BY <2>2, <1>1, MoveToHeadComplete, Zenon DEF LruComplete
  <2>. QED
    BY <2>1, <2>2, <1>1, Zenon
<1>4. p \in UsersOf(b) /\ IsFiniteSet(UsersOf(b)) /\ refcnt[b] = Cardinality(UsersOf(b))
  BY <1>1, UsersFinite, Zenon DEF UsersOf
<1>5. Cardinality(UsersOf(b) \ {p}) = refcnt[b] - 1 /\ refcnt[b] - 1 \in Nat
  <2>. HIDE DEF b
  <2>1. IsFiniteSet(UsersOf(b) \ {p}) /\ Cardinality(UsersOf(b) \ {p}) = Cardinality(UsersOf(b)) - 1
    BY <1>4, FS_RemoveElement, Zenon
  <2>. QED
    BY <1>4, <2>1, FS_CardinalityType, Zenon
<1>6. TypeOK'
  <2>1. pc' \in [Procs -> PCs] /\ want' \in [Procs -> Blocks \cup {NoBlock}]
    BY <1>1, Zenon DEF BInv, TypeOK, PCs
  <2>2. mybuf' \in [Procs -> Bufs \cup {NoBuf}]
    BY <1>1, Zenon DEF BInv, TypeOK
  <2>3. refcnt' \in [Bufs -> Nat]
    BY <1>1, <1>5, Zenon DEF BInv, TypeOK
  <2>. QED
    BY <1>1, <1>3, <2>1, <2>2, <2>3, Zenon DEF BInv, TypeOK
<1>7. /\ \A q \in Procs : q # p => pc'[q] = pc[q] /\ mybuf'[q] = mybuf[q] /\ want'[q] = want[q]
      /\ pc'[p] = "idle" /\ mybuf'[p] = NoBuf
  BY <1>1, Zenon DEF BInv, TypeOK
<1>8. RefsCounted'
  <2>. SUFFICES ASSUME NEW c \in Bufs PROVE refcnt'[c] = Cardinality(UsersOf(c)')
    BY Zenon DEF RefsCounted
  <2>1. CASE c = b
    <3>1. UsersOf(c)' = UsersOf(b) \ {p}
      BY <2>1, <1>2, <1>7, Zenon DEF UsersOf
    <3>. QED
      BY <2>1, <3>1, <1>1, <1>5, Zenon DEF BInv, TypeOK
  <2>2. CASE c # b
    <3>1. UsersOf(c)' = UsersOf(c)
      BY <2>2, <1>2, <1>7, Zenon DEF UsersOf
    <3>. QED
      BY <2>2, <3>1, <1>1, Zenon DEF BInv, TypeOK, RefsCounted
  <2>. QED
    BY <2>1, <2>2, Zenon
<1>9. OneBuffer'
  BY <1>1, Zenon DEF BInv, OneBuffer
<1>10. ASSUME NEW q \in Procs PROVE ProcOK(q)'
  <2>1. CASE q = p
    BY <2>1, <1>1, <1>7, Zenon DEF ProcOK, Locked
  <2>2. CASE q # p
    <3>1. ProcOK(q)
      BY Zenon DEF BInv
    <3>2. pc[q] # "wait" /\ chan[q] # Awake => holder[mybuf[q]] # NoProc
      BY <3>1, Zenon DEF ProcOK
    <3>. QED
      BY <2>2, <3>2, <1>1, <1>7, ProcKept, Zenon
  <2>. QED
    BY <2>1, <2>2, Zenon
<1>11. HolderOK'
  <2>. SUFFICES ASSUME NEW c \in Bufs, holder[c] # NoProc
                PROVE  mybuf'[holder[c]] = c /\ pc'[holder[c]] \in Locked
    BY <1>1, Zenon DEF HolderOK
  <2>1. holder[c] \in Procs /\ mybuf[holder[c]] = c /\ pc[holder[c]] \in Locked
    BY Zenon DEF BInv, HolderOK, TypeOK
  <2>2. holder[c] # p
    BY <2>1, <1>1, Zenon DEF Locked
  <2>. QED
    BY <2>1, <2>2, <1>7, Zenon
<1>12. QueueOK'
  <2>1. \A i \in 1 .. Len(idequeue) : \E q \in Procs :
          mybuf'[q] = idequeue[i] /\ pc'[q] = "wait" /\ chan'[q] # Awake
    BY <1>1, <1>7, SleepersStay, Zenon
  <2>2. Idestart(Head(idequeue))' = Idestart(Head(idequeue))
    BY <1>1, Zenon DEF Idestart
  <2>. QED
    BY <2>1, <2>2, <1>1, QueueKept, Zenon
<1>13. \A c \in Bufs : BufferOK(c)'
  BY <1>1, Zenon DEF BInv, BufferOK
<1>. QED
  BY <1>3, <1>6, <1>8, <1>9, <1>10, <1>11, <1>12, <1>13, Zenon DEF BInv

\* iderw passes its tests and queues the buffer.
LEMMA IderwStep ==
  ASSUME BInv, NEW p \in Procs, Iderw(p)
  PROVE  BInv'
<1>. USE BcacheAssumption DEF Ready
<1>. DEFINE b == mybuf[p]
            n == Len(idequeue)
<1>1. /\ pc[p] = "iderw" /\ b \in Bufs /\ holder[b] = p /\ ~Ready(b)
  BY Zenon DEF Iderw, BInv, ProcOK, Locked
<1>2. /\ idequeue' = Append(idequeue, b)
      /\ drive' = IF idequeue = <<>> THEN Idestart(b) ELSE drive
      /\ chan' = [chan EXCEPT ![p] = IoChan(b)]
      /\ pc' = [pc EXCEPT ![p] = "wait"]
      /\ UNCHANGED <<blockno, valid, dirty, refcnt, data, lru, holder, disk, want, mybuf>>
  BY <1>1, Zenon DEF Iderw, bufs
<1>3. /\ n \in Nat /\ Len(idequeue') = n + 1 /\ idequeue'[n + 1] = b
      /\ \A i \in 1 .. n : idequeue'[i] = idequeue[i] /\ idequeue[i] \in Bufs
  BY <1>1, <1>2 DEF BInv, TypeOK
<1>4. TypeOK'
  <2>1. pc' \in [Procs -> PCs]
    BY <1>2, Zenon DEF BInv, TypeOK, PCs
  <2>2. chan' \in [Procs -> Chans]
    BY <1>1, <1>2, ChanFacts, Zenon DEF BInv, TypeOK
  <2>3. idequeue' \in Seq(Bufs)
    BY <1>1, <1>2 DEF BInv, TypeOK
  <2>. QED
    BY <1>2, <2>1, <2>2, <2>3, Zenon DEF BInv, TypeOK
<1>5. LruComplete' /\ OneBuffer'
  BY <1>2, Zenon DEF BInv, LruComplete, OneBuffer
<1>6. RefsCounted'
  BY <1>2, Zenon DEF BInv, RefsCounted, UsersOf
<1>7. /\ \A q \in Procs : q # p => pc'[q] = pc[q] /\ chan'[q] = chan[q]
      /\ pc'[p] = "wait" /\ chan'[p] = IoChan(b) /\ chan'[p] # Awake
  BY <1>1, <1>2, ChanFacts, Zenon DEF BInv, TypeOK
<1>8. ASSUME NEW q \in Procs PROVE ProcOK(q)'
  <2>0. ProcOK(q)
    BY Zenon DEF BInv
  <2>1. CASE q = p
    <3>1. n + 1 \in 1 .. Len(idequeue')
      BY <1>3
    <3>. QED
      BY <2>0, <2>1, <3>1, <1>1, <1>2, <1>3, <1>7, Zenon DEF ProcOK, Locked
  <2>2. CASE q # p
    <3>1. (\E i \in 1 .. n : idequeue[i] = mybuf[q]) => \E i \in 1 .. Len(idequeue') : idequeue'[i] = mybuf[q]
      BY <1>3
    <3>. QED
      BY <2>0, <2>2, <3>1, <1>2, <1>7, Zenon DEF ProcOK, Locked
  <2>. QED
    BY <2>1, <2>2, Zenon
<1>9. HolderOK'
  <2>. SUFFICES ASSUME NEW c \in Bufs, holder[c] # NoProc
                PROVE  mybuf[holder[c]] = c /\ pc'[holder[c]] \in Locked
    BY <1>2, Zenon DEF HolderOK
  <2>1. holder[c] \in Procs /\ mybuf[holder[c]] = c /\ pc[holder[c]] \in Locked
    BY Zenon DEF BInv, HolderOK, TypeOK
  <2>. QED
    BY <2>1, <1>7, Zenon DEF Locked
<1>10. QueueOK'
  <2>1. ASSUME NEW i \in 1 .. n + 1
        PROVE  \E q \in Procs : mybuf'[q] = idequeue'[i] /\ pc'[q] = "wait" /\ chan'[q] # Awake
    <3>1. CASE i = n + 1
      BY <3>1, <1>2, <1>3, <1>7, Zenon
    <3>2. CASE i \in 1 .. n
      BY <3>2, <1>2, <1>3, <1>7 DEF BInv, QueueOK
    <3>. QED
      BY <3>1, <3>2, <1>3
  <2>2. ASSUME NEW i \in 1 .. n + 1, NEW j \in 1 .. n + 1, idequeue'[i] = idequeue'[j]
        PROVE  i = j
    <3>1. \A m \in 1 .. n : idequeue[m] # b
      BY <1>1, NotQueued, Zenon
    <3>2. (i \in 1 .. n \/ i = n + 1) /\ (j \in 1 .. n \/ j = n + 1)
      BY <1>3
    <3>. HIDE DEF n
    <3>. QED
      BY <2>2, <3>1, <3>2, <1>3 DEF BInv, QueueOK, n
  <2>3. idequeue' # <<>> /\ drive' = Idestart(Head(idequeue))'
    <3>1. CASE idequeue = <<>>
      <4>1. Head(idequeue') = b
        BY <3>1, <1>2, <1>3
      <4>2. drive' = Idestart(b)
        BY <3>1, <1>2, Zenon
      <4>3. Idestart(Head(idequeue))' = Idestart(b)
        BY <4>1, <1>2 DEF Idestart
      <4>4. idequeue' # <<>>
        BY <3>1, <1>2, <1>3
      <4>. QED
        BY <4>2, <4>3, <4>4, Zenon
    <3>2. CASE idequeue # <<>>
      <4>1. Head(idequeue') = Head(idequeue)
        BY <3>2, <1>2, <1>3 DEF BInv, TypeOK
      <4>. QED
        BY <3>2, <4>1, <1>2, <1>3 DEF Idestart, BInv, QueueOK
    <3>. QED
      BY <3>1, <3>2, Zenon
  <2>. QED
    BY <2>1, <2>2, <2>3, <1>3, Zenon DEF QueueOK
<1>11. \A c \in Bufs : BufferOK(c)'
  BY <1>2, Zenon DEF BInv, BufferOK
<1>. QED
  BY <1>4, <1>5, <1>6, <1>8, <1>9, <1>10, <1>11, Zenon DEF BInv
\* iderw after a wakeup: the buffer is ready.
LEMMA IderwResumeStep ==
  ASSUME BInv, NEW p \in Procs, IderwResume(p)
  PROVE  BInv'
<1>. USE BcacheAssumption DEF Ready
<1>. DEFINE b == mybuf[p]
<1>1. /\ pc[p] = "wait" /\ chan[p] = Awake /\ b \in Bufs /\ valid[b] /\ ~dirty[b]
      /\ pc' = [pc EXCEPT ![p] = "use"]
      /\ UNCHANGED <<blockno, valid, dirty, refcnt, data, lru, holder, idequeue, drive, disk,
                     want, mybuf, chan>>
  BY Zenon DEF IderwResume, BInv, ProcOK, bufs, ide
<1>2. TypeOK'
  BY <1>1, Zenon DEF BInv, TypeOK, PCs
<1>3. LruComplete' /\ OneBuffer'
  BY <1>1, Zenon DEF BInv, LruComplete, OneBuffer
<1>4. RefsCounted'
  BY <1>1, Zenon DEF BInv, RefsCounted, UsersOf
<1>5. (\A q \in Procs : q # p => pc'[q] = pc[q]) /\ pc'[p] = "use"
  BY <1>1, Zenon DEF BInv, TypeOK
<1>6. ASSUME NEW q \in Procs PROVE ProcOK(q)'
  <2>1. CASE q = p
    BY <2>1, <1>1, <1>5, Zenon DEF BInv, ProcOK, Locked
  <2>2. CASE q # p
    <3>1. ProcOK(q)
      BY Zenon DEF BInv
    <3>2. pc[q] # "wait" /\ chan[q] # Awake => holder[mybuf[q]] # NoProc
      BY <3>1, Zenon DEF ProcOK
    <3>. QED
      BY <2>2, <3>2, <1>1, <1>5, ProcKept, Zenon
  <2>. QED
    BY <2>1, <2>2, Zenon
<1>7. HolderOK'
  <2>. SUFFICES ASSUME NEW c \in Bufs, holder[c] # NoProc
                PROVE  mybuf[holder[c]] = c /\ pc'[holder[c]] \in Locked
    BY <1>1, Zenon DEF HolderOK
  <2>1. holder[c] \in Procs /\ mybuf[holder[c]] = c /\ pc[holder[c]] \in Locked
    BY Zenon DEF BInv, HolderOK, TypeOK
  <2>. QED
    BY <2>1, <1>5, Zenon DEF Locked
<1>8. QueueOK'
  <2>1. \A i \in 1 .. Len(idequeue) : \E q \in Procs :
          mybuf'[q] = idequeue[i] /\ pc'[q] = "wait" /\ chan'[q] # Awake
    BY <1>1, <1>5, SleepersStay, Zenon
  <2>2. Idestart(Head(idequeue))' = Idestart(Head(idequeue))
    BY <1>1, Zenon DEF Idestart
  <2>. QED
    BY <2>1, <2>2, <1>1, QueueKept, Zenon
<1>9. \A c \in Bufs : BufferOK(c)'
  BY <1>1, Zenon DEF BInv, BufferOK
<1>. QED
  BY <1>2, <1>3, <1>4, <1>6, <1>7, <1>8, <1>9, Zenon DEF BInv

\* ideintr finishes the request of the first buffer and starts the next one.
LEMMA IdeintrStep ==
  ASSUME BInv, Ideintr
  PROVE  BInv'
<1>. USE BcacheAssumption DEF Ready
<1>. DEFINE b == Head(idequeue)
            n == Len(idequeue)
            k == blockno[b]
<1>1. /\ n \in Nat /\ n > 0 /\ b = idequeue[1] /\ b \in Bufs /\ idequeue # <<>>
      /\ idequeue' = Tail(idequeue) /\ Len(idequeue') = n - 1 /\ idequeue' \in Seq(Bufs)
      /\ \A i \in 1 .. n - 1 : idequeue'[i] = idequeue[i + 1]
      /\ \A i \in 1 .. n : idequeue[i] \in Bufs
  <2>1. idequeue \in Seq(Bufs) /\ idequeue # <<>> /\ idequeue' = Tail(idequeue)
    BY Zenon DEF Ideintr, BInv, TypeOK
  <2>. QED
    BY <2>1
<1>2. PICK w \in Procs : mybuf[w] = b /\ pc[w] = "wait" /\ chan[w] # Awake
  <2>1. 1 \in 1 .. n
    BY <1>1
  <2>. QED
    BY <2>1, <1>1, Queued, Zenon
<1>3. /\ chan[w] = IoChan(b) /\ holder[b] = w /\ k \in Blocks
  <2>1. ProcOK(w)
    BY Zenon DEF BInv
  <2>. QED
    BY <2>1, <1>1, <1>2, Zenon DEF ProcOK, Locked
<1>4. drive.block = k /\ drive.write = dirty[b] /\ drive.val = data[b]
  <2>1. drive = Idestart(b)
    BY <1>1, Queued, Zenon
  <2>. QED
    BY <2>1, Zenon DEF Idestart
<1>5. /\ disk' = IF dirty[b] THEN [disk EXCEPT ![k] = data[b]] ELSE disk
      /\ data' = IF dirty[b] THEN data ELSE [data EXCEPT ![b] = disk[k]]
      /\ valid' = [valid EXCEPT ![b] = TRUE] /\ dirty' = [dirty EXCEPT ![b] = FALSE]
      /\ chan' = Wakeup(IoChan(b)) /\ drive' = IdeNext(Tail(idequeue))
      /\ UNCHANGED <<blockno, refcnt, lru, holder, pc, want, mybuf>>
  BY <1>4, Zenon DEF Ideintr
<1>. HIDE DEF b, n, k
<1>6. /\ chan' \in [Procs -> Chans]
      /\ \A q \in Procs : chan'[q] = IF chan[q] = IoChan(b) THEN Awake ELSE chan[q]
  BY <1>5, WakeupFacts, Zenon DEF BInv
<1>7. TypeOK'
  <2>1. disk' \in [Blocks -> Vals]
    BY <1>1, <1>3, <1>5, Zenon DEF BInv, TypeOK
  <2>2. data' \in [Bufs -> Vals]
    BY <1>1, <1>3, <1>5, Zenon DEF BInv, TypeOK
  <2>3. valid' \in [Bufs -> BOOLEAN] /\ dirty' \in [Bufs -> BOOLEAN]
    BY <1>5, Zenon DEF BInv, TypeOK
  <2>. QED
    BY <1>1, <1>5, <1>6, <2>1, <2>2, <2>3, Zenon DEF BInv, TypeOK
<1>8. LruComplete' /\ OneBuffer'
  BY <1>5, Zenon DEF BInv, LruComplete, OneBuffer
<1>9. RefsCounted'
  BY <1>5, Zenon DEF BInv, RefsCounted, UsersOf
<1>10. HolderOK'
  BY <1>5, Zenon DEF BInv, HolderOK
<1>11. /\ valid'[b] /\ ~dirty'[b]
       /\ \A c \in Bufs : c # b => valid'[c] = valid[c] /\ dirty'[c] = dirty[c] /\ data'[c] = data[c]
  BY <1>1, <1>5, Zenon DEF BInv, TypeOK
<1>12. ASSUME NEW q \in Procs PROVE ProcOK(q)'
  <2>0. ProcOK(q)
    BY Zenon DEF BInv
  <2>1. CASE q = w
    <3>1. chan'[q] = Awake
      BY <2>1, <1>3, <1>6, Zenon
    <3>. QED
      BY <2>0, <2>1, <3>1, <1>2, <1>5, <1>11, Zenon DEF ProcOK, Locked
  <2>2. CASE q # w
    <3>1. pc[q] \in Locked => mybuf[q] # b
      BY <2>2, <1>2, OneHolder, Zenon DEF Locked
    <3>2. chan'[q] = chan[q]
      <4>1. chan[q] = IoChan(b) => pc[q] = "wait" /\ mybuf[q] \in Bufs /\ chan[q] = IoChan(mybuf[q])
        BY <2>0, <1>1, ChanFacts DEF ProcOK
      <4>. QED
        BY <3>1, <4>1, <1>1, <1>6, ChanFacts DEF Locked
    <3>3. (\E i \in 1 .. n : idequeue[i] = mybuf[q]) /\ mybuf[q] # b
            => \E i \in 1 .. n - 1 : idequeue'[i] = mybuf[q]
      <4>. SUFFICES ASSUME NEW i \in 1 .. n, idequeue[i] = mybuf[q], mybuf[q] # b
                    PROVE  \E j \in 1 .. n - 1 : idequeue'[j] = mybuf[q]
        BY Zenon
      <4>1. i - 1 \in 1 .. n - 1 /\ idequeue'[i - 1] = idequeue[(i - 1) + 1] /\ (i - 1) + 1 = i
        BY <1>1
      <4>. QED
        BY <4>1, Zenon
    <3>4. /\ pc[q] \in Locked => mybuf[q] \in Bufs
          /\ pc[q] # "wait" /\ chan[q] # Awake => holder[mybuf[q]] # NoProc
      BY <2>0, Zenon DEF ProcOK, Locked
    <3>. QED
      BY <3>1, <3>2, <3>3, <3>4, <1>1, <1>5, <1>11, ProcKept, Zenon DEF Locked, n
  <2>. QED
    BY <2>1, <2>2, Zenon
<1>13. QueueOK'
  <2>1. ASSUME NEW i \in 1 .. n - 1
        PROVE  /\ idequeue'[i] # b
               /\ \E q \in Procs : mybuf'[q] = idequeue'[i] /\ pc'[q] = "wait" /\ chan'[q] # Awake
    <3>1. i + 1 \in 1 .. n /\ idequeue'[i] = idequeue[i + 1] /\ idequeue[i + 1] # b
      <4>1. i + 1 \in 1 .. n /\ 1 \in 1 .. n /\ i + 1 # 1
        BY <1>1
      <4>. QED
        BY <4>1, <1>1, Zenon DEF BInv, QueueOK, n
    <3>2. PICK q \in Procs : mybuf[q] = idequeue[i + 1] /\ pc[q] = "wait" /\ chan[q] # Awake
      BY <3>1, Zenon DEF BInv, QueueOK, n
    <3>3. chan[q] = IoChan(mybuf[q]) /\ mybuf[q] \in Bufs
      BY <3>2, Zenon DEF BInv, ProcOK
    <3>4. chan'[q] = chan[q]
      BY <3>1, <3>2, <3>3, <1>1, <1>6, ChanFacts
    <3>. QED
      BY <3>1, <3>2, <3>4, <1>5, Zenon
  <2>2. ASSUME NEW i \in 1 .. n - 1, NEW j \in 1 .. n - 1, idequeue'[i] = idequeue'[j]
        PROVE  i = j
    <3>1. i + 1 \in 1 .. n /\ j + 1 \in 1 .. n /\ idequeue[i + 1] = idequeue[j + 1]
      BY <2>2, <1>1
    <3>2. i + 1 = j + 1
      BY <3>1, Zenon DEF BInv, QueueOK, n
    <3>. QED
      BY <3>2
  <2>3. idequeue' = <<>> => drive' = NoRequest
    BY <1>1, <1>5, Zenon DEF IdeNext
  <2>4. idequeue' # <<>> => drive' = Idestart(Head(idequeue))'
    <3>. SUFFICES ASSUME idequeue' # <<>> PROVE drive' = Idestart(Head(idequeue))'
      BY Zenon
    <3>. DEFINE c == Head(idequeue')
    <3>1. 1 \in 1 .. n - 1 /\ c = idequeue'[1] /\ c \in Bufs
      BY <1>1
    <3>2. c # b
      BY <2>1, <3>1, Zenon
    <3>3. drive' = [block |-> blockno[c], write |-> dirty[c], val |-> data[c]]
      BY <1>1, <1>5, Zenon DEF IdeNext, Idestart
    <3>4. blockno'[c] = blockno[c] /\ dirty'[c] = dirty[c] /\ data'[c] = data[c]
      BY <3>1, <3>2, <1>5, <1>11, Zenon
    <3>. QED
      BY <3>3, <3>4, Zenon DEF Idestart
  <2>. QED
    BY <2>1, <2>2, <2>3, <2>4, <1>1, Zenon DEF QueueOK
<1>14. ASSUME NEW c \in Bufs PROVE BufferOK(c)'
  <2>1. BufferOK(c) /\ BufferOK(b)
    BY <1>1, Zenon DEF BInv
  <2>2. CASE c = b
    <3>1. data'[b] = disk'[k] /\ blockno'[b] = k
      BY <1>1, <1>3, <1>5, Zenon DEF BInv, TypeOK, k
    <3>. QED
      BY <2>2, <3>1, <1>3, <1>11, Zenon DEF BufferOK
  <2>3. CASE c # b
    <3>1. valid[c] => blockno[c] # k
      BY <2>1, <2>3, <1>1, <1>3, Zenon DEF BufferOK, BInv, OneBuffer, k
    <3>2. valid[c] => disk'[blockno[c]] = disk[blockno[c]]
      BY <2>1, <3>1, <1>3, <1>5, Zenon DEF BufferOK, BInv, TypeOK
    <3>. QED
      BY <2>1, <2>3, <3>2, <1>5, <1>11, Zenon DEF BufferOK
  <2>. QED
    BY <2>2, <2>3, Zenon
<1>. QED
  BY <1>7, <1>8, <1>9, <1>10, <1>12, <1>13, <1>14, Zenon DEF BInv

\* Every step of the cache and of the disk driver keeps the invariant.
LEMMA NextBInv ==
  ASSUME BInv, [Next]_vars
  PROVE  BInv'
<1>1. CASE UNCHANGED vars
  <2>1. TypeOK' /\ LruComplete' /\ OneBuffer' /\ HolderOK'
    BY <1>1, Zenon DEF vars, bufs, ide, BInv, TypeOK, LruComplete, OneBuffer, HolderOK
  <2>2. RefsCounted' /\ (\A b \in Bufs : BufferOK(b)')
    BY <1>1, Zenon DEF vars, bufs, ide, BInv, RefsCounted, UsersOf, BufferOK
  <2>3. QueueOK'
    <3>1. QueueOK
      BY Zenon DEF BInv
    <3>. QED
      BY <1>1, <3>1, Zenon DEF vars, bufs, ide, QueueOK, Idestart
  <2>4. ASSUME NEW p \in Procs PROVE ProcOK(p)'
    <3>1. ProcOK(p)
      BY Zenon DEF BInv
    <3>. QED
      BY <1>1, <3>1, Zenon DEF vars, bufs, ide, ProcOK, Ready
  <2>. QED
    BY <2>1, <2>2, <2>3, <2>4, Zenon DEF BInv
<1>2. CASE Next
  BY <1>2, BgetStep, ChangeStep, AcquiresleepStep, IderwStep, IderwResumeStep, BrelseStep, BputStep,
     IdeintrStep, Zenon DEF Next, Call, Continue
<1>. QED
  BY <1>1, <1>2, Zenon

-----------------------------------------------------------------------------
(* Theorems. *)

\* BInv is an invariant of the buffer cache.
THEOREM BcacheInvariant == Spec => []BInv
<1>1. Init => BInv
  BY InitBInv, Zenon
<1>2. BInv /\ [Next]_vars => BInv'
  BY NextBInv, Zenon
<1>. QED
  BY <1>1, <1>2, PTL DEF Spec

\* One buffer per block, and a buffer stays with its users while they wait.
THEOREM BcacheBufferStaysMine == Spec => []BufferStaysMine
<1>1. BInv => BufferStaysMine
  BY Zenon DEF BInv, OneBuffer, ProcOK, TypeOK, Locked, Users, BufferStaysMine
<1>. QED
  BY <1>1, BcacheInvariant, PTL

\* The step property of PanicsOnlyWhenFull.
PanicsFull ==
  \A p \in Procs :
    /\ pc'[p] # "panic"
    /\ pc[p] # "nobufs" /\ pc'[p] = "nobufs" =>
         NBUF <= Cardinality(Users) + Cardinality({b \in Bufs : dirty[b]})

LEMMA NextPanicsFull ==
  ASSUME BInv, Next
  PROVE  PanicsFull
<1>1. BInv'
  BY NextBInv, Zenon
<1>. SUFFICES ASSUME NEW p \in Procs
              PROVE  /\ pc'[p] # "panic"
                     /\ pc[p] # "nobufs" /\ pc'[p] = "nobufs" =>
                          NBUF <= Cardinality(Users) + Cardinality({b \in Bufs : dirty[b]})
  BY Zenon DEF PanicsFull
<1>2. pc'[p] # "panic"
  <2>1. pc'[p] \in PCs
    BY <1>1, Zenon DEF BInv, TypeOK
  <2>. QED
    BY <2>1, Zenon DEF PCs
<1>3. ASSUME pc[p] # "nobufs", pc'[p] = "nobufs"
      PROVE  NBUF <= Cardinality(Users) + Cardinality({b \in Bufs : dirty[b]})
  <2>1. PICK q \in Procs : Call(q) \/ Continue(q)
    BY <1>3, Zenon DEF Next, Ideintr
  <2>2. pc \in [Procs -> PCs]
    BY Zenon DEF BInv, TypeOK
  <2>3. PICK k \in Blocks : Bget(q, k)
    <3>1. ~Acquiresleep(q)
      BY <1>3, <2>2 DEF Acquiresleep
    <3>2. ~Iderw(q) /\ ~IderwResume(q)
      BY <1>3, <2>2 DEF Iderw, IderwResume
    <3>3. ~Brelse(q) /\ ~Bput(q)
      BY <1>3, <2>2 DEF Brelse, Bput
    <3>4. \A v \in Vals : ~Bwrite(q, v) /\ ~LogWrite(q, v)
      BY <1>3, <2>2 DEF Bwrite, LogWrite
    <3>. QED
      BY <2>1, <3>1, <3>2, <3>3, <3>4, Zenon DEF Call, Continue
  <2>4. ~Available(k)
    <3>1. SUFFICES ASSUME Available(k) PROVE FALSE
      BY Zenon
    <3>2. pc' = [pc EXCEPT ![q] = "lock"]
      BY <2>3, <3>1, BgetFinds, Zenon
    <3>. QED
      BY <3>2, <2>2, <1>3
  <2>. QED
    BY <2>4, NoneLeft, Zenon DEF Available
<1>. QED
  BY <1>2, <1>3, Zenon

\* bget panics only when users and dirty blocks together are as many as the buffers, so
\* brelse leaks no reference; iderw, bwrite and brelse never panic: whoever calls them
\* holds the lock of its buffer, and iderw always has something to do.
THEOREM BcachePanicsOnlyWhenFull == Spec => PanicsOnlyWhenFull
<1>1. BInv /\ [Next]_vars => [PanicsFull]_vars
  BY NextPanicsFull, Zenon
<1>. QED
  BY <1>1, BcacheInvariant, PTL DEF Spec, PanicsOnlyWhenFull, PanicsFull

\* The disk works on the first request as long as there is one, and nobody
\* sleeps whose wakeup is past.
THEOREM BcacheWaitersServed == Spec => []WaitersServed
<1>1. BInv => WaitersServed
  <2>. SUFFICES ASSUME BInv PROVE WaitersServed
    BY Zenon
  <2>0. DOMAIN idequeue = 1 .. Len(idequeue)
    BY DEF BInv, TypeOK
  <2>1. idequeue # <<>> => drive # NoRequest /\ drive = Idestart(Head(idequeue))
    <3>. SUFFICES ASSUME idequeue # <<>> PROVE drive # NoRequest /\ drive = Idestart(Head(idequeue))
      BY Zenon
    <3>1. 1 \in 1 .. Len(idequeue) /\ Head(idequeue) = idequeue[1]
      BY DEF BInv, TypeOK
    <3>2. PICK p \in Procs : mybuf[p] = Head(idequeue) /\ pc[p] = "wait"
      BY <3>1, Zenon DEF BInv, QueueOK
    <3>3. blockno[Head(idequeue)] # NoBlock
      <4>1. ProcOK(p)
        BY Zenon DEF BInv
      <4>. QED
        BY <3>2, <4>1, BcacheAssumption, Zenon DEF ProcOK
    <3>4. drive = Idestart(Head(idequeue)) /\ drive.block # NoBlock
      <4>1. drive = Idestart(Head(idequeue))
        BY Queued, Zenon
      <4>. QED
        BY <3>3, <4>1 DEF Idestart
    <3>. QED
      BY <3>4 DEF NoRequest
  <2>2. ASSUME NEW p \in Procs, NEW b \in Bufs, chan[p] = LockChan(b) PROVE holder[b] # NoProc
    <3>1. ProcOK(p)
      BY Zenon DEF BInv
    <3>2. chan[p] # Awake /\ mybuf[p] \in Bufs
      BY <2>2, <3>1, ChanFacts, Zenon DEF ProcOK
    <3>. QED
      BY <2>2, <3>1, <3>2, ChanFacts, Zenon DEF ProcOK
  <2>. QED
    BY <2>0, <2>1, <2>2, Zenon DEF BInv, ProcOK, QueueOK, WaitersServed
<1>. QED
  BY <1>1, BcacheInvariant, PTL
-----------------------------------------------------------------------------
(* The cache implements BlockStore. *)

Content == [k \in Blocks |-> Value(k)]
UserOf == [k \in Blocks |-> User(k)]

\* A cached block is what its one buffer says, any other one what the disk says.
Meaning ==
  /\ \A b \in Bufs : blockno[b] \in Blocks =>
       /\ Value(blockno[b]) = IF valid[b] THEN data[b] ELSE disk[blockno[b]]
       /\ User(blockno[b]) = holder[b]
  /\ \A k \in Blocks : (\A b \in Bufs : blockno[b] # k) => Value(k) = disk[k] /\ User(k) = NoProc

LEMMA BlockMeaning == BInv => Meaning
<1>. SUFFICES ASSUME BInv PROVE Meaning
  BY Zenon
<1>1. ASSUME NEW b \in Bufs, blockno[b] \in Blocks
      PROVE  /\ Value(blockno[b]) = IF valid[b] THEN data[b] ELSE disk[blockno[b]]
             /\ User(blockno[b]) = holder[b]
  <2>1. Holding(blockno[b]) = {b}
    BY <1>1, BcacheAssumption, Zenon DEF Holding, BInv, OneBuffer
  <2>2. valid[b] => (CHOOSE c \in {b} : valid[c]) = b
    BY Zenon
  <2>3. holder[b] # NoProc => (CHOOSE c \in {b} : holder[c] # NoProc) = b
    BY Zenon
  <2>. QED
    BY <2>1, <2>2, <2>3, Zenon DEF Value, User
<1>2. ASSUME NEW k \in Blocks, \A b \in Bufs : blockno[b] # k
      PROVE  Value(k) = disk[k] /\ User(k) = NoProc
  <2>1. Holding(k) = {}
    BY <1>2, Zenon DEF Holding
  <2>. QED
    BY <2>1, Zenon DEF Value, User
<1>. QED
  BY <1>1, <1>2, Zenon DEF Meaning

LEMMA BlockMeaningNext == (BInv => Meaning)'
<1>. QED
  BY BlockMeaning, PTL

\* Nothing that Value and User look at has changed.
LEMMA SameMeaning ==
  ASSUME UNCHANGED <<blockno, valid, data, disk, holder>>
  PROVE  Content' = Content /\ UserOf' = UserOf
<1>. QED
  BY Zenon DEF Content, UserOf, Value, User, Holding

\* Looking a block up or recycling a buffer changes no block.
LEMMA BgetRefines ==
  ASSUME BInv, NEW p \in Procs, NEW k \in Blocks, Bget(p, k)
  PROVE  Content' = Content /\ UserOf' = UserOf
<1>1. BInv' /\ UNCHANGED <<data, disk, holder>>
  BY BgetStep, BgetFinds, BgetPanics, Zenon DEF ide
<1>2. CASE UNCHANGED <<blockno, valid>>
  BY <1>1, <1>2, SameMeaning, Zenon
<1>3. CASE ~UNCHANGED <<blockno, valid>>
  <2>1. PICK b \in Bufs :
          /\ \A c \in Bufs : blockno[c] # k
          /\ refcnt[b] = 0 /\ ~dirty[b]
          /\ blockno' = [blockno EXCEPT ![b] = k]
          /\ valid' = [valid EXCEPT ![b] = FALSE]
    <3>1. Available(k)
      BY <1>3, BgetPanics, Zenon
    <3>. QED
      BY <1>3, <3>1, BgetFinds
  <2>2. holder[b] = NoProc
    BY <2>1, UsersFinite DEF BInv, HolderOK, TypeOK
  <2>3. Meaning /\ Meaning'
    BY <1>1, BlockMeaning, BlockMeaningNext, Zenon
  <2>4. /\ \A c \in Bufs : c # b => blockno'[c] = blockno[c] /\ valid'[c] = valid[c]
        /\ blockno'[b] = k /\ ~valid'[b]
    BY <2>1, Zenon DEF BInv, TypeOK
  <2>5. ASSUME NEW j \in Blocks PROVE Value(j)' = Value(j) /\ User(j)' = User(j)
    <3>1. CASE j = k
      <4>1. Value(j) = disk[j] /\ User(j) = NoProc
        BY <3>1, <2>1, <2>3, Zenon DEF Meaning
      <4>2. Value(j)' = disk'[j] /\ User(j)' = holder'[b]
        BY <3>1, <2>3, <2>4, Zenon DEF Meaning
      <4>. QED
        BY <4>1, <4>2, <1>1, <2>2, Zenon
    <3>2. CASE j # k /\ blockno[b] = j
      <4>1. \A c \in Bufs : blockno'[c] # j
        BY <3>2, <2>4, BcacheAssumption, Zenon DEF BInv, OneBuffer
      <4>2. Value(j)' = disk[j] /\ User(j)' = NoProc
        BY <4>1, <1>1, <2>3, Zenon DEF Meaning
      <4>3. valid[b] => data[b] = disk[j]
        BY <3>2, <2>1, Zenon DEF BInv, BufferOK
      <4>. QED
        BY <3>2, <4>2, <4>3, <2>2, <2>3, Zenon DEF Meaning
    <3>3. CASE j # k /\ \E c \in Bufs : c # b /\ blockno[c] = j
      <4>1. PICK c \in Bufs : c # b /\ blockno[c] = j
        BY <3>3, Zenon
      <4>2. Value(j) = (IF valid[c] THEN data[c] ELSE disk[j]) /\ User(j) = holder[c]
        BY <4>1, <2>3, Zenon DEF Meaning
      <4>3. Value(j)' = (IF valid'[c] THEN data'[c] ELSE disk'[j]) /\ User(j)' = holder'[c]
        BY <4>1, <2>3, <2>4, Zenon DEF Meaning
      <4>. QED
        BY <4>1, <4>2, <4>3, <1>1, <2>4, Zenon
    <3>4. CASE j # k /\ \A c \in Bufs : blockno[c] # j
      <4>1. \A c \in Bufs : blockno'[c] # j
        BY <3>4, <2>4, Zenon
      <4>. QED
        BY <3>4, <4>1, <1>1, <2>3, Zenon DEF Meaning
    <3>. QED
      BY <3>1, <3>2, <3>3, <3>4, Zenon
  <2>. QED
    BY <2>5, Zenon DEF Content, UserOf
<1>. QED
  BY <1>2, <1>3, Zenon

\* Finishing a request changes no block: what was written was the value already,
\* and what is read is the value from then on.
LEMMA IdeintrRefines ==
  ASSUME BInv, Ideintr
  PROVE  Content' = Content /\ UserOf' = UserOf
<1>. DEFINE b == Head(idequeue)
            k == blockno[b]
<1>1. BInv' /\ blockno' = blockno /\ holder' = holder
  BY IdeintrStep, Zenon DEF Ideintr
<1>2. b = idequeue[1] /\ b \in Bufs /\ idequeue # <<>> /\ 1 \in 1 .. Len(idequeue)
  BY DEF Ideintr, BInv, TypeOK
<1>3. PICK w \in Procs : mybuf[w] = b /\ pc[w] = "wait"
  BY <1>2, Zenon DEF BInv, QueueOK
<1>4. k \in Blocks /\ drive.block = k /\ drive.write = dirty[b] /\ drive.val = data[b]
  <2>1. ProcOK(w)
    BY Zenon DEF BInv
  <2>2. k \in Blocks
    BY <2>1, <1>2, <1>3, Zenon DEF ProcOK
  <2>3. drive = Idestart(b)
    BY <1>2, Queued, Zenon
  <2>. QED
    BY <2>2, <2>3, Zenon DEF Idestart
<1>5. /\ disk' = IF dirty[b] THEN [disk EXCEPT ![k] = data[b]] ELSE disk
      /\ data' = IF dirty[b] THEN data ELSE [data EXCEPT ![b] = disk[k]]
      /\ valid' = [valid EXCEPT ![b] = TRUE]
  BY <1>4, Zenon DEF Ideintr
<1>6. Meaning /\ Meaning'
  BY <1>1, BlockMeaning, BlockMeaningNext, Zenon
<1>. HIDE DEF b
<1>7. dirty[b] => valid[b]
  BY <1>2, Zenon DEF BInv, BufferOK
<1>8. valid[b] /\ ~dirty[b] => data[b] = disk[k]
  BY <1>2, Zenon DEF BInv, BufferOK
<1>9. /\ \A c \in Bufs : c # b => valid'[c] = valid[c] /\ data'[c] = data[c]
      /\ valid'[b] /\ data'[b] = IF dirty[b] THEN data[b] ELSE disk[k]
      /\ \A j \in Blocks : j # k => disk'[j] = disk[j]
  BY <1>2, <1>4, <1>5, Zenon DEF BInv, TypeOK
<1>. HIDE DEF k
<1>10. ASSUME NEW j \in Blocks PROVE Value(j)' = Value(j) /\ User(j)' = User(j)
  <2>1. CASE j = k
    <3>1. Value(j) = (IF valid[b] THEN data[b] ELSE disk[k]) /\ User(j) = holder[b]
      BY <2>1, <1>2, <1>6, Zenon DEF Meaning, k
    <3>2. Value(j)' = data'[b] /\ User(j)' = holder'[b]
      BY <2>1, <1>1, <1>2, <1>6, <1>9, Zenon DEF Meaning, k
    <3>. QED
      BY <3>1, <3>2, <1>1, <1>7, <1>8, <1>9, Zenon
  <2>2. CASE j # k /\ \E c \in Bufs : blockno[c] = j
    <3>1. PICK c \in Bufs : blockno[c] = j
      BY <2>2, Zenon
    <3>2. c # b
      BY <2>2, <3>1, Zenon DEF k
    <3>. QED
      BY <2>2, <3>1, <3>2, <1>1, <1>6, <1>9 DEF Meaning
  <2>3. CASE j # k /\ \A c \in Bufs : blockno[c] # j
    BY <2>3, <1>1, <1>6, <1>9 DEF Meaning
  <2>. QED
    BY <2>1, <2>2, <2>3, Zenon
<1>. QED
  BY <1>10, Zenon DEF Content, UserOf

\* A step that only hands a buffer's sleep lock to p changes the user of its block.
LEMMA UserChanges ==
  ASSUME BInv, Meaning, Meaning', NEW b \in Bufs, NEW k \in Blocks, blockno[b] = k, NEW p,
         blockno' = blockno, holder' = [holder EXCEPT ![b] = p]
  PROVE  UserOf' = [UserOf EXCEPT ![k] = p]
<1>1. holder'[b] = p /\ \A c \in Bufs : c # b => holder'[c] = holder[c]
  BY Zenon DEF BInv, TypeOK
<1>2. ASSUME NEW j \in Blocks PROVE User(j)' = IF j = k THEN p ELSE User(j)
  <2>1. CASE j = k
    BY <2>1, <1>1, Zenon DEF Meaning
  <2>2. CASE j # k /\ \E c \in Bufs : blockno[c] = j
    BY <2>2, <1>1 DEF Meaning
  <2>3. CASE j # k /\ \A c \in Bufs : blockno[c] # j
    BY <2>3, <1>1, Zenon DEF Meaning
  <2>. QED
    BY <2>1, <2>2, <2>3, Zenon
<1>. QED
  BY <1>2, Zenon DEF UserOf

\* Getting the sleep lock is Take of the block asked for; to wait for it is no step.
LEMMA AcquiresleepRefines ==
  ASSUME BInv, NEW p \in Procs, Acquiresleep(p)
  PROVE  \/ Content' = Content /\ UserOf' = UserOf
         \/ \E k \in Blocks : Store!Take(p, k)
<1>. DEFINE b == mybuf[p]
            k == want[p]
<1>1. b \in Bufs /\ k \in Blocks /\ blockno[b] = k
  BY Zenon DEF Acquiresleep, BInv, ProcOK
<1>2. CASE ~LockFree(p, b)
  BY <1>2, SameMeaning, Zenon DEF Acquiresleep, bufs, ide
<1>3. CASE LockFree(p, b)
  <2>1. /\ holder[b] = NoProc /\ holder' = [holder EXCEPT ![b] = p]
        /\ UNCHANGED <<blockno, valid, data, disk>>
    BY <1>3, Zenon DEF Acquiresleep, LockFree, bufs, ide
  <2>2. Meaning /\ Meaning'
    BY AcquiresleepStep, BlockMeaning, BlockMeaningNext, Zenon
  <2>. HIDE DEF b, k
  <2>3. UserOf[k] = NoProc
    BY <1>1, <2>1, <2>2, Zenon DEF Meaning, UserOf
  <2>4. Content' = Content
    BY <2>1, Zenon DEF Content, Value, Holding
  <2>5. UserOf' = [UserOf EXCEPT ![k] = p]
    BY <1>1, <2>1, <2>2, UserChanges, Zenon
  <2>. QED
    BY <1>1, <2>3, <2>4, <2>5, Zenon DEF Store!Take, Content, UserOf
<1>. QED
  BY <1>2, <1>3, Zenon

\* brelse gives the block back.
LEMMA BrelseRefines ==
  ASSUME BInv, NEW p \in Procs, Brelse(p)
  PROVE  \E k \in Blocks : Store!Give(p, k)
<1>. DEFINE b == mybuf[p]
            k == want[p]
<1>1. b \in Bufs /\ k \in Blocks /\ blockno[b] = k /\ holder[b] = p
  BY Zenon DEF Brelse, BInv, ProcOK, Locked
<1>2. holder' = [holder EXCEPT ![b] = NoProc] /\ UNCHANGED <<blockno, valid, data, disk>>
  BY <1>1, Zenon DEF Brelse, bufs, ide
<1>3. Meaning /\ Meaning'
  BY BrelseStep, BlockMeaning, BlockMeaningNext, Zenon
<1>. HIDE DEF b, k
<1>4. UserOf[k] = p
  BY <1>1, <1>3, Zenon DEF Meaning, UserOf
<1>5. Content' = Content
  BY <1>2, Zenon DEF Content, Value, Holding
<1>6. UserOf' = [UserOf EXCEPT ![k] = NoProc]
  BY <1>1, <1>2, <1>3, UserChanges, Zenon
<1>. QED
  BY <1>1, <1>4, <1>5, <1>6, Zenon DEF Store!Give, Content, UserOf

\* The two ways to change a block change the one that the process uses.
LEMMA ChangeRefines ==
  ASSUME BInv, NEW p \in Procs, NEW v \in Vals, Bwrite(p, v) \/ LogWrite(p, v)
  PROVE  \E k \in Blocks : Store!Change(p, k, v)
<1>. DEFINE b == mybuf[p]
            k == want[p]
<1>1. b \in Bufs /\ k \in Blocks /\ blockno[b] = k /\ holder[b] = p /\ valid[b]
  BY Zenon DEF Bwrite, LogWrite, BInv, ProcOK, Locked
<1>2. data' = [data EXCEPT ![b] = v] /\ UNCHANGED <<blockno, valid, holder, disk>>
  BY Zenon DEF Bwrite, LogWrite, ide
<1>3. Meaning /\ Meaning'
  BY ChangeStep, BlockMeaning, BlockMeaningNext, Zenon
<1>. HIDE DEF b, k
<1>4. UserOf[k] = p
  BY <1>1, <1>3, Zenon DEF Meaning, UserOf
<1>5. UserOf' = UserOf
  BY <1>2, Zenon DEF UserOf, User, Holding
<1>6. data'[b] = v /\ \A c \in Bufs : c # b => data'[c] = data[c]
  BY <1>1, <1>2, Zenon DEF BInv, TypeOK
<1>7. ASSUME NEW j \in Blocks PROVE Value(j)' = IF j = k THEN v ELSE Value(j)
  <2>1. CASE j = k
    BY <2>1, <1>1, <1>2, <1>3, <1>6, Zenon DEF Meaning
  <2>2. CASE j # k /\ \E c \in Bufs : blockno[c] = j
    <3>1. PICK c \in Bufs : blockno[c] = j
      BY <2>2, Zenon
    <3>2. c # b
      BY <2>2, <3>1, <1>1, Zenon
    <3>. QED
      <4>1. Value(j) = IF valid[c] THEN data[c] ELSE disk[j]
        BY <3>1, <1>3, Zenon DEF Meaning
      <4>2. Value(j)' = IF valid'[c] THEN data'[c] ELSE disk'[j]
        BY <3>1, <1>2, <1>3, Zenon DEF Meaning
      <4>. QED
        BY <2>2, <3>2, <4>1, <4>2, <1>2, <1>6, Zenon
  <2>3. CASE j # k /\ \A c \in Bufs : blockno[c] # j
    BY <2>3, <1>2, <1>3, Zenon DEF Meaning
  <2>. QED
    BY <2>1, <2>2, <2>3, Zenon
<1>8. Content' = [Content EXCEPT ![k] = v]
  BY <1>7, Zenon DEF Content
<1>. QED
  BY <1>1, <1>4, <1>5, <1>8, Zenon DEF Store!Change, Content, UserOf

LEMMA InitRefines ==
  ASSUME Init
  PROVE  Store!Init
<1>1. PICK v \in Vals : disk = [k \in Blocks |-> v]
  BY BcacheAssumption, Zenon DEF Init
<1>2. \A k \in Blocks : Value(k) = v /\ User(k) = NoProc
  BY <1>1, BcacheAssumption, Zenon DEF Init, Value, User, Holding
<1>. QED
  BY <1>1, <1>2, Zenon DEF Store!Init

LEMMA NextRefines ==
  ASSUME BInv, [Next]_vars
  PROVE  [Store!Next]_(Store!vars)
<1>. SUFFICES ASSUME ~(Content' = Content /\ UserOf' = UserOf)
              PROVE  Store!Next
  BY Zenon DEF Store!vars, Content, UserOf
<1>1. ~UNCHANGED vars
  BY SameMeaning, Zenon DEF vars, bufs, ide
<1>2. ~Ideintr
  BY IdeintrRefines, Zenon
<1>3. PICK p \in Procs : Call(p) \/ Continue(p)
  BY <1>1, <1>2, Zenon DEF Next
<1>4. ~Iderw(p) /\ ~IderwResume(p) /\ ~Bput(p)
  BY SameMeaning, Zenon DEF Iderw, IderwResume, Bput, bufs, ide
<1>5. \A k \in Blocks : ~Bget(p, k)
  BY BgetRefines, Zenon
<1>6. CASE Acquiresleep(p)
  BY <1>6, AcquiresleepRefines, Zenon DEF Store!Next
<1>7. CASE Brelse(p)
  BY <1>7, BrelseRefines, Zenon DEF Store!Next
<1>8. CASE \E v \in Vals : Bwrite(p, v) \/ LogWrite(p, v)
  BY <1>8, ChangeRefines, Zenon DEF Store!Next
<1>. QED
  BY <1>3, <1>4, <1>5, <1>6, <1>7, <1>8, Zenon DEF Call, Continue

\* bread, bwrite, log_write and brelse over any number of buffers behave like one
\* value per block that only its user changes: recycling a buffer loses no write
\* and finishing a request invents none (bio.c, ide.c).
THEOREM BcacheImplementsStore == Spec => StoreSpec
<1>1. Init => Store!Init
  BY InitRefines, Zenon
<1>2. BInv /\ [Next]_vars => [Store!Next]_(Store!vars)
  BY NextRefines, Zenon
<1>. QED
  BY <1>1, <1>2, BcacheInvariant, PTL DEF Spec, StoreSpec, Store!Spec
=============================================================================
