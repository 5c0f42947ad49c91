------------------------------ MODULE LogProofs ------------------------------
(***************************************************************************)
(* The log never panics, keeps its buffers and its sleepers safe, and      *)
(* implements AtomicDisk, for any number of processes and blocks and any   *)
(* sizes that LogAssumption allows.  One lemma per action, one step per    *)
(* conjunct of the inductive invariant LInv.                               *)
(***************************************************************************)
EXTENDS Log, FiniteSetTheorems, TLAPS

PCs == {"idle", "begin", "sleep", "op", "log", "commit"}
Commits == {"write_log", "write_head", "install", "clear"}
Recovery == {"boot", "redo", "reclear"}

TypeOK ==
  /\ disk \in [Blocks -> Vals] /\ dlog \in [LogBlocks -> Vals] /\ dhead \in Seq(Blocks)
  /\ cache \in [Blocks -> Vals] /\ dirty \in [Blocks -> BOOLEAN]
  /\ lh \in Seq(Blocks) /\ outstanding \in Nat /\ committing \in BOOLEAN
  /\ pc \in [Procs -> PCs]
  /\ wrote \in [Procs -> SUBSET Blocks] /\ buf \in [Procs -> SUBSET Blocks]
  /\ step \in {"none"} \cup Commits \cup Recovery /\ tail \in Nat

\* The calls between begin_op and end_op.
Active == {p \in Procs : pc[p] \in {"op", "log"}}

\* The blocks these calls may still add to the log, one credit for each.
Credits == {c \in Active \X (1 .. OpBlocks) : c[2] > Cardinality(wrote[c[1]])}

\* begin_op's reservation: what is logged and what may still come stays below
\* both limits that log_write tests.
Budget ==
  /\ outstanding = Cardinality(Active)
  /\ Len(lh) + Cardinality(Credits) <= LOGSIZE - 2
  /\ Len(dhead) <= LOGSIZE - 2

\* What a call has logged, and the buffer it has locked in log_write.
CallOK(p) ==
  /\ pc[p] \in {"op", "log"} =>
       /\ wrote[p] \subseteq Logged
       /\ IsFiniteSet(wrote[p]) /\ Cardinality(wrote[p]) <= OpBlocks
  /\ pc[p] # "log" => buf[p] = {}
  /\ pc[p] = "log" =>
       \E b \in Blocks : buf[p] = {b} /\ (b \in wrote[p] \/ Cardinality(wrote[p]) < OpBlocks)

\* end_op: only the last call commits, alone, and every logged block is
\* committed before the next call begins.
CommitAlone ==
  /\ \A p \in Procs : pc[p] = "commit" => committing
  /\ \A p, q \in Procs : pc[p] = "commit" /\ pc[q] = "commit" => p = q
  /\ committing => Active = {}
  /\ step \in Commits => committing /\ lh # << >>
  /\ Active = {} /\ step = "none" => lh = << >>
  /\ step \in Recovery => ~committing /\ \A p \in Procs : pc[p] = "idle"
  /\ step = "boot" => lh = << >> /\ tail = 0

Distinct(s) == \A i, j \in 1 .. Len(s) : s[i] = s[j] => i = j

\* "prevent eviction": only logged blocks are pinned, none once all are home.
PinnedLogged ==
  /\ Distinct(lh) /\ Distinct(dhead)
  /\ \A b \in Blocks : dirty[b] => b \in Logged
  /\ step \in Recovery \cup {"clear"} => \A b \in Blocks : ~dirty[b]

\* The copies on disk at each place of commit() and of recover_from_log().
InLog(n) == \A i \in 1 .. n : dlog[i] = cache[lh[i]]
AtHome(n) == \A i \in 1 .. n : disk[lh[i]] = dlog[i] /\ ~dirty[lh[i]]

Copies ==
  /\ step \in {"none", "write_log", "write_head"} => dhead = << >>
  /\ step \in {"install", "clear", "redo", "reclear"} => dhead = lh
  /\ step \in {"write_log", "install", "redo"} => tail < Len(lh)
  /\ step = "write_head" => tail = 0
  /\ step = "write_log" => InLog(tail)
  /\ step \in {"write_head", "install"} => InLog(Len(lh))
  /\ step \in {"install", "redo"} => AtHome(tail)
  /\ step \in {"clear", "reclear"} => AtHome(Len(lh))

LInv ==
  /\ TypeOK /\ NeverPanics /\ CleanIsOnDisk /\ SleeperHasWaker
  /\ Budget /\ (\A p \in Procs : CallOK(p)) /\ CommitAlone /\ PinnedLogged /\ Copies
-----------------------------------------------------------------------------
(* Counting. *)

\* At most OpBlocks credits for each call.
LEMMA CreditsOfCalls ==
  ASSUME NEW A \in SUBSET Procs, NEW C \in SUBSET (A \X (1 .. OpBlocks))
  PROVE  /\ IsFiniteSet(A) /\ Cardinality(A) \in Nat
         /\ IsFiniteSet(C) /\ Cardinality(C) \in Nat
         /\ Cardinality(C) <= Cardinality(A) * OpBlocks
<1>1. IsFiniteSet(A) /\ Cardinality(A) \in Nat
  BY LogAssumption, FS_Subset, FS_CardinalityType, Zenon
<1>2. IsFiniteSet(1 .. OpBlocks) /\ Cardinality(1 .. OpBlocks) = OpBlocks
  BY LogAssumption, FS_Interval
<1>3. /\ IsFiniteSet(A \X (1 .. OpBlocks))
      /\ Cardinality(A \X (1 .. OpBlocks)) = Cardinality(A) * OpBlocks
  BY <1>1, <1>2, FS_Product, Zenon
<1>. QED
  BY <1>1, <1>3, FS_Subset, FS_CardinalityType, Zenon

\* Two or more calls of fewer than MAXOPBLOCKS blocks leave two places free.
LEMMA Reservation ==
  ASSUME NEW k \in Nat, k >= 2, NEW n \in Nat, NEW c \in Nat,
         n + k * MAXOPBLOCKS <= LOGSIZE, c <= k * OpBlocks
  PROVE  n + c <= LOGSIZE - 2
<1>. DEFINE free == MAXOPBLOCKS - 1 - OpBlocks
            saved == k * free
            asked == k * OpBlocks
<1>1. free \in Nat /\ MAXOPBLOCKS = OpBlocks + free + 1
  BY LogAssumption
<1>2. saved \in Nat /\ asked \in Nat
  BY <1>1, LogAssumption
<1>3. k * MAXOPBLOCKS = asked + saved + k
  BY <1>1, LogAssumption
<1>4. n + asked + saved + k <= LOGSIZE /\ c <= asked
  BY <1>3, <1>2
<1>. HIDE DEF saved, asked
<1>. QED
  BY <1>2, <1>4, LogAssumption

\* The calls and their credits are finitely many.
LEMMA CreditsBound ==
  /\ IsFiniteSet(Active) /\ Cardinality(Active) \in Nat
  /\ IsFiniteSet(Credits) /\ Cardinality(Credits) \in Nat
<1>. QED
  BY CreditsOfCalls, Zenon DEF Active, Credits

\* Fewer calls or more blocks written leave no more credits.
LEMMA CreditsShrink ==
  ASSUME Credits' \subseteq Credits
  PROVE  Cardinality(Credits') \in Nat /\ Cardinality(Credits') <= Cardinality(Credits)
<1>. QED
  BY CreditsBound, FS_Subset, FS_CardinalityType, Zenon

\* The log leaves room for one more block, and its blocks have a place on disk.
LEMMA LogFits ==
  ASSUME TypeOK, Budget
  PROVE  /\ Len(lh) \in Nat /\ Len(lh) <= LOGSIZE - 2 /\ ~TooBig
         /\ \A i \in 1 .. Len(lh) : i \in LogBlocks /\ lh[i] \in Blocks
         /\ \A i \in 1 .. Len(dhead) : i \in LogBlocks /\ dhead[i] \in Blocks
<1>1. Cardinality(Credits) \in Nat
  BY CreditsBound, Zenon
<1>2. Len(lh) \in Nat /\ Len(dhead) \in Nat
  BY DEF TypeOK
<1>. QED
  BY <1>1, <1>2, LogAssumption DEF TypeOK, Budget, TooBig, LogBlocks
-----------------------------------------------------------------------------
(* The steps. *)

LEMMA InitLInv ==
  ASSUME Init
  PROVE  LInv
<1>. USE LogAssumption DEF Init
<1>1. TypeOK
  <2>1. disk \in [Blocks -> Vals] /\ dlog \in [LogBlocks -> Vals] /\ cache \in [Blocks -> Vals]
    BY Zenon
  <2>2. wrote \in [Procs -> SUBSET Blocks] /\ buf \in [Procs -> SUBSET Blocks]
    BY Zenon
  <2>3. dhead \in Seq(Blocks) /\ lh \in Seq(Blocks) /\ outstanding \in Nat /\ tail \in Nat
    OBVIOUS
  <2>4. pc \in [Procs -> PCs] /\ step \in Recovery
    BY Zenon DEF PCs, Recovery
  <2>. QED
    BY <2>1, <2>2, <2>3, <2>4, Zenon DEF TypeOK
<1>2. Active = {} /\ Credits = {}
  BY Zenon DEF Active, Credits
<1>3. Budget
  BY <1>2, FS_EmptySet DEF Budget
<1>4. CleanIsOnDisk
  BY Zenon DEF CleanIsOnDisk
<1>5. \A p \in Procs : CallOK(p)
  BY Zenon DEF CallOK
<1>6. CommitAlone
  BY Zenon DEF CommitAlone, Active, Commits, Recovery
<1>7. PinnedLogged
  BY DEF PinnedLogged, Distinct
<1>8. Copies
  BY Zenon DEF Copies
<1>. QED
  BY <1>1, <1>3, <1>4, <1>5, <1>6, <1>7, <1>8, Zenon DEF LInv, NeverPanics, SleeperHasWaker

\* A process calls begin_op.
LEMMA EnterStep ==
  ASSUME LInv, NEW p \in Procs, Enter(p)
  PROVE  LInv'
<1>. USE LogAssumption DEF LInv, TypeOK, Enter, durables, bufs, log
<1>1. TypeOK'
  BY Zenon DEF PCs
<1>2. Active' = Active
  BY Zenon DEF Active
<1>3. Credits' = Credits
  BY <1>2, Zenon DEF Credits
<1>4. Budget'
  BY <1>2, <1>3, Zenon DEF Budget
<1>5. CleanIsOnDisk'
  BY Zenon DEF CleanIsOnDisk, Held
<1>6. ASSUME NEW q \in Procs PROVE CallOK(q)'
  <2>1. CASE q = p
    BY <2>1, Zenon DEF CallOK, Logged
  <2>2. CASE q # p
    BY <2>2 DEF CallOK, Logged
  <2>. QED
    BY <2>1, <2>2, Zenon
<1>7. CommitAlone'
  BY <1>2, Zenon DEF CommitAlone, Up, Recovery
<1>8. PinnedLogged'
  BY DEF PinnedLogged, Distinct, Logged
<1>9. Copies'
  BY Zenon DEF Copies, InLog, AtHome
<1>10. SleeperHasWaker'
  BY Zenon DEF SleeperHasWaker
<1>. QED
  BY <1>1, <1>4, <1>5, <1>6, <1>7, <1>8, <1>9, <1>10, Zenon DEF NeverPanics

\* begin_op: sleep, or reserve space.
LEMMA BeginOpStep ==
  ASSUME LInv, NEW p \in Procs, BeginOp(p)
  PROVE  LInv'
<1>. USE LogAssumption DEF LInv, durables, bufs
<1>0. step \notin Recovery
  BY Zenon DEF BeginOp, Up, Recovery
<1>1. CASE committing \/ ~Room
  <2>. USE <1>1 DEF BeginOp
  <2>1. TypeOK'
    BY Zenon DEF TypeOK, PCs
  <2>2. Active' = Active
    BY Zenon DEF Active, TypeOK
  <2>3. Credits' = Credits
    BY <2>2, Zenon DEF Credits
  <2>4. Budget'
    BY <2>2, <2>3, Zenon DEF Budget
  <2>5. CleanIsOnDisk'
    BY Zenon DEF CleanIsOnDisk, Held
  <2>6. \A q \in Procs : CallOK(q)'
    BY DEF CallOK, Logged, TypeOK
  <2>7. CommitAlone'
    BY <2>2, <1>0 DEF CommitAlone, TypeOK
  <2>8. PinnedLogged'
    BY DEF PinnedLogged, Distinct, Logged
  <2>9. Copies'
    BY Zenon DEF Copies, InLog, AtHome
  <2>10. SleeperHasWaker'
    <3>1. SUFFICES ASSUME ~committing, outstanding = 0
                   PROVE  FALSE
      BY DEF SleeperHasWaker, TypeOK
    <3>2. Active = {}
      BY <3>1, CreditsBound, FS_EmptySet, Zenon DEF Budget
    <3>3. lh = << >>
      BY <3>1, <3>2, <1>0, Zenon DEF CommitAlone, Up, Commits
    <3>. QED
      BY <1>1, <3>1, <3>3 DEF Room
  <2>. QED
    BY <2>1, <2>4, <2>5, <2>6, <2>7, <2>8, <2>9, <2>10, Zenon DEF NeverPanics
<1>2. CASE ~committing /\ Room
  <2>. USE <1>2 DEF BeginOp
  <2>1. TypeOK'
    <3>1. pc' \in [Procs -> PCs] /\ outstanding' \in Nat
      BY DEF TypeOK, PCs
    <3>2. wrote' \in [Procs -> SUBSET Blocks]
      BY Zenon DEF TypeOK
    <3>. QED
      BY <3>1, <3>2, Zenon DEF TypeOK
  <2>2. Active' = Active \cup {p} /\ p \notin Active
    BY Zenon DEF Active, TypeOK
  <2>3. outstanding' = Cardinality(Active')
    BY <2>2, CreditsBound, FS_AddElement, Zenon DEF Budget
  <2>4. Len(lh) + Cardinality(Credits') <= LOGSIZE - 2
    <3>1. /\ Cardinality(Credits') \in Nat /\ outstanding' \in Nat
          /\ Cardinality(Credits') <= outstanding' * OpBlocks
      <4>1. Active' \in SUBSET Procs /\ Credits' \in SUBSET (Active' \X (1 .. OpBlocks))
        BY Zenon DEF Active, Credits
      <4>. QED
        BY <4>1, <2>1, <2>3, CreditsOfCalls, Zenon DEF TypeOK
    <3>2. CASE outstanding = 0
      <4>1. lh = << >>
        BY <3>2, <1>0, CreditsBound, FS_EmptySet, Zenon DEF CommitAlone, Up, Commits, Budget
      <4>. QED
        BY <3>1, <3>2, <4>1
    <3>3. CASE outstanding > 0
      <4>1. outstanding' = outstanding + 1 /\ outstanding' >= 2
        BY <3>3 DEF TypeOK
      <4>2. Len(lh) + outstanding' * MAXOPBLOCKS <= LOGSIZE /\ Len(lh) \in Nat
        BY <4>1 DEF Room, TypeOK
      <4>. QED
        BY <3>1, <4>1, <4>2, Reservation, Zenon
    <3>. QED
      BY <3>2, <3>3 DEF TypeOK
  <2>5. Budget'
    BY <2>3, <2>4, Zenon DEF Budget
  <2>6. CleanIsOnDisk'
    BY Zenon DEF CleanIsOnDisk, Held
  <2>7. \A q \in Procs : CallOK(q)'
    <3>. TAKE q \in Procs
    <3>1. CASE q = p
      <4>1. pc'[p] = "op" /\ wrote'[p] = {} /\ buf'[p] = {}
        BY Zenon DEF TypeOK, CallOK
      <4>2. IsFiniteSet({}) /\ Cardinality({}) = 0
        BY FS_EmptySet, Zenon
      <4>. QED
        BY <3>1, <4>1, <4>2 DEF CallOK
    <3>2. CASE q # p
      <4>1. /\ pc'[q] = pc[q] /\ wrote'[q] = wrote[q] /\ buf'[q] = buf[q] /\ lh' = lh
        BY <3>2, Zenon DEF TypeOK
      <4>. QED
        BY <4>1 DEF CallOK, Logged
    <3>. QED
      BY <3>1, <3>2, Zenon
  <2>8. CommitAlone'
    BY <2>2, <1>0, Zenon DEF CommitAlone, TypeOK, Up, Commits
  <2>9. PinnedLogged'
    BY DEF PinnedLogged, Distinct, Logged
  <2>10. Copies'
    BY Zenon DEF Copies, InLog, AtHome
  <2>11. SleeperHasWaker'
    BY DEF SleeperHasWaker, TypeOK
  <2>. QED
    BY <2>1, <2>5, <2>6, <2>7, <2>8, <2>9, <2>10, <2>11, Zenon DEF NeverPanics
<1>. QED
  BY <1>1, <1>2, Zenon

\* bread and the tests of log_write, which all succeed.
LEMMA ModifyStep ==
  ASSUME LInv, NEW p \in Procs, NEW b \in Blocks, NEW v \in Vals, Modify(p, b, v)
  PROVE  LInv'
<1>. USE LogAssumption DEF LInv, durables, log
<1>1. p \in Active /\ step \notin Recovery
  BY Zenon DEF Modify, Active, Up, Recovery
<1>2. ~TooBig /\ outstanding >= 1
  BY <1>1, LogFits, CreditsBound, FS_EmptySet DEF Budget
<1>3. /\ cache' = [cache EXCEPT ![b] = v] /\ buf' = [buf EXCEPT ![p] = {b}]
      /\ pc' = [pc EXCEPT ![p] = "log"] /\ pc[p] = "op"
      /\ b \in wrote[p] \/ Cardinality(wrote[p]) < OpBlocks
      /\ UNCHANGED <<durables, dirty, log, wrote, step, tail>>
  BY <1>2 DEF Modify, TypeOK
<1>4. TypeOK'
  BY <1>3, Zenon DEF TypeOK, PCs
<1>5. Active' = Active
  BY <1>3, Zenon DEF Active, TypeOK
<1>6. Credits' = Credits
  BY <1>3, <1>5, Zenon DEF Credits
<1>7. Budget'
  BY <1>3, <1>5, <1>6, Zenon DEF Budget
<1>8. CleanIsOnDisk'
  <2>1. buf[p] = {}
    BY <1>3, Zenon DEF CallOK
  <2>2. Held' = Held \cup {b}
    BY <2>1, <1>3 DEF Held, TypeOK
  <2>. QED
    BY <2>2, <1>3, Zenon DEF CleanIsOnDisk, TypeOK
<1>9. \A q \in Procs : CallOK(q)'
  <2>. TAKE q \in Procs
  <2>1. CASE q = p
    BY <2>1, <1>3 DEF CallOK, Logged, TypeOK
  <2>2. CASE q # p
    BY <2>2, <1>3 DEF CallOK, Logged, TypeOK
  <2>. QED
    BY <2>1, <2>2, Zenon
<1>10. CommitAlone'
  BY <1>1, <1>3, <1>5, Zenon DEF CommitAlone, TypeOK
<1>11. PinnedLogged'
  BY <1>3 DEF PinnedLogged, Distinct, Logged
<1>12. Copies'
  BY <1>1, <1>3, Zenon DEF Copies, CommitAlone, InLog, AtHome, Commits, Recovery
<1>13. SleeperHasWaker'
  BY <1>3, Zenon DEF SleeperHasWaker, TypeOK
<1>. QED
  BY <1>3, <1>4, <1>7, <1>8, <1>9, <1>10, <1>11, <1>12, <1>13, Zenon DEF NeverPanics
\* The rest of log_write: a block that is new in the log uses up a credit.
LEMMA LogWriteStep ==
  ASSUME LInv, NEW p \in Procs, NEW b \in Blocks, LogWrite(p, b)
  PROVE  LInv'
<1>. USE LogAssumption DEF LInv, durables
<1>1. /\ pc[p] = "log" /\ buf[p] = {b}
      /\ b \in wrote[p] \/ Cardinality(wrote[p]) < OpBlocks
      /\ wrote[p] \subseteq Logged /\ IsFiniteSet(wrote[p])
      /\ Cardinality(wrote[p]) \in Nat /\ Cardinality(wrote[p]) <= OpBlocks
  BY FS_CardinalityType, Zenon DEF LogWrite, CallOK
<1>2. /\ dirty' = [dirty EXCEPT ![b] = TRUE]
      /\ lh' = IF b \in Logged THEN lh ELSE Append(lh, b)
      /\ wrote' = [wrote EXCEPT ![p] = @ \cup {b}]
      /\ buf' = [buf EXCEPT ![p] = {}] /\ pc' = [pc EXCEPT ![p] = "op"]
      /\ UNCHANGED <<durables, cache, outstanding, committing, step, tail>>
  BY Zenon DEF LogWrite, Pin, Absorb
<1>3. p \in Active /\ ~committing /\ step = "none"
  BY <1>1, Zenon DEF Active, CommitAlone, TypeOK, LogWrite, Up, Recovery, Commits
<1>4. TypeOK'
  BY <1>2 DEF TypeOK, PCs
<1>5. Active' = Active
  BY <1>1, <1>2, Zenon DEF Active, TypeOK
<1>6. Logged' = Logged \cup {b} /\ Len(lh) \in Nat
  <2>1. CASE b \in Logged
    BY <2>1, <1>2 DEF Logged, TypeOK
  <2>2. CASE b \notin Logged
    <3>1. /\ lh' = Append(lh, b) /\ Len(lh') = Len(lh) + 1 /\ lh'[Len(lh) + 1] = b
          /\ \A i \in 1 .. Len(lh) : lh'[i] = lh[i]
          /\ Len(lh) \in Nat
      BY <2>2, <1>2 DEF TypeOK
    <3>. QED
      BY <3>1 DEF Logged
  <2>. QED
    BY <2>1, <2>2, Zenon
<1>7. /\ IsFiniteSet(wrote'[p]) /\ wrote'[p] = wrote[p] \cup {b}
      /\ Cardinality(wrote'[p]) = IF b \in wrote[p] THEN Cardinality(wrote[p])
                                  ELSE Cardinality(wrote[p]) + 1
  BY <1>1, <1>2, FS_AddElement, Zenon DEF TypeOK
<1>8. Budget'
  <2>1. CASE b \in Logged
    <3>1. Credits' \subseteq Credits
      BY <1>1, <1>2, <1>5, <1>7 DEF Credits, TypeOK
    <3>. QED
      BY <2>1, <1>2, <1>5, <3>1, CreditsBound, CreditsShrink DEF Budget, TypeOK
  <2>2. CASE b \notin Logged
    <3>. DEFINE used == <<p, Cardinality(wrote[p]) + 1>>
    <3>1. b \notin wrote[p]
      BY <1>1, <2>2, Zenon
    <3>2. used \in Credits
      BY <1>1, <1>3, <3>1 DEF Credits
    <3>3. Credits' = Credits \ {used}
      <4>1. ASSUME NEW q \in Active, NEW n \in 1 .. OpBlocks
            PROVE  n > Cardinality(wrote'[q]) <=> n > Cardinality(wrote[q]) /\ <<q, n>> # used
        <5>1. CASE q = p
          BY <5>1, <1>1, <1>7, <3>1
        <5>2. CASE q # p
          BY <5>2, <1>2, Zenon DEF TypeOK, Active
        <5>. QED
          BY <5>1, <5>2, Zenon
      <4>. QED
        BY <4>1, <1>5 DEF Credits
    <3>. HIDE DEF used
    <3>4. Cardinality(Credits') = Cardinality(Credits) - 1
      BY <3>2, <3>3, CreditsBound, FS_RemoveElement, Zenon
    <3>5. Len(lh') = Len(lh) + 1
      BY <2>2, <1>2 DEF TypeOK
    <3>. QED
      BY <1>2, <1>5, <1>6, <3>4, <3>5, CreditsBound DEF Budget
  <2>. QED
    BY <2>1, <2>2, Zenon
<1>9. CleanIsOnDisk'
  <2>1. Held \subseteq Held' \cup {b}
    BY <1>1, <1>2, Zenon DEF Held, TypeOK
  <2>. QED
    BY <2>1, <1>2, Zenon DEF CleanIsOnDisk, TypeOK
<1>10. \A q \in Procs : CallOK(q)'
  <2>. TAKE q \in Procs
  <2>1. CASE q = p
    <3>1. pc'[p] = "op" /\ buf'[p] = {}
      BY <1>2, Zenon DEF TypeOK
    <3>2. wrote'[p] \subseteq Logged' /\ Cardinality(wrote'[p]) <= OpBlocks
      BY <1>1, <1>6, <1>7
    <3>. QED
      BY <2>1, <3>1, <3>2, <1>7, Zenon DEF CallOK
  <2>2. CASE q # p
    <3>1. pc'[q] = pc[q] /\ wrote'[q] = wrote[q] /\ buf'[q] = buf[q]
      BY <2>2, <1>2, Zenon DEF TypeOK
    <3>. QED
      BY <3>1, <1>6, Zenon DEF CallOK
  <2>. QED
    BY <2>1, <2>2, Zenon
<1>11. CommitAlone'
  BY <1>2, <1>3, <1>5, Zenon DEF CommitAlone, TypeOK, Commits, Recovery
<1>12. PinnedLogged'
  <2>1. Distinct(lh')
    <3>1. CASE b \in Logged
      BY <3>1, <1>2, Zenon DEF PinnedLogged
    <3>2. CASE b \notin Logged
      <4>1. /\ Len(lh') = Len(lh) + 1 /\ lh'[Len(lh) + 1] = b
            /\ \A i \in 1 .. Len(lh) : lh'[i] = lh[i] /\ lh[i] # b
        BY <3>2, <1>2 DEF TypeOK, Logged
      <4>2. ASSUME NEW i \in 1 .. Len(lh'), NEW j \in 1 .. Len(lh'), lh'[i] = lh'[j]
            PROVE  i = j
        <5>1. (i \in 1 .. Len(lh) \/ i = Len(lh) + 1) /\ (j \in 1 .. Len(lh) \/ j = Len(lh) + 1)
          BY <4>1, LogFits
        <5>2. \A m, n \in 1 .. Len(lh) : lh[m] = lh[n] => m = n
          BY Zenon DEF LInv, PinnedLogged, Distinct
        <5>. QED
          BY <4>1, <4>2, <5>1, <5>2, Zenon
      <4>. QED
        BY <4>2, Zenon DEF Distinct
    <3>. QED
      BY <3>1, <3>2, Zenon
  <2>2. \A x \in Blocks : dirty'[x] => x \in Logged'
    BY <1>2, <1>6, Zenon DEF PinnedLogged, TypeOK
  <2>. QED
    BY <2>1, <2>2, <1>2, <1>3, Zenon DEF PinnedLogged, Distinct, Recovery
<1>13. Copies'
  BY <1>2, <1>3, Zenon DEF Copies
<1>14. SleeperHasWaker'
  BY <1>2, Zenon DEF SleeperHasWaker, TypeOK
<1>. QED
  BY <1>2, <1>4, <1>8, <1>9, <1>10, <1>11, <1>12, <1>13, <1>14, Zenon DEF NeverPanics

\* end_op: the call leaves, and the last one starts the commit.
LEMMA EndOpStep ==
  ASSUME LInv, NEW p \in Procs, EndOp(p)
  PROVE  LInv'
<1>. USE LogAssumption DEF LInv, durables, bufs
<1>1. p \in Active /\ ~committing /\ step = "none" /\ pc[p] = "op"
  BY Zenon DEF EndOp, Active, CommitAlone, TypeOK, Up, Recovery, Commits
<1>2. /\ outstanding' = outstanding - 1 /\ committing' = IsLast
      /\ pc' = IF IsLast THEN [pc EXCEPT ![p] = "commit"] ELSE [Woken EXCEPT ![p] = "idle"]
      /\ step' = IF IsLast /\ lh # << >> THEN "write_log" ELSE step
      /\ tail' = 0 /\ UNCHANGED <<durables, bufs, lh, wrote, buf>>
  BY <1>1, Zenon DEF EndOp
<1>3. Active' = Active \ {p}
  BY <1>1, <1>2, Zenon DEF Active, Woken, TypeOK
<1>4. outstanding' \in Nat /\ outstanding' = Cardinality(Active') /\ IsFiniteSet(Active')
  BY <1>1, <1>2, <1>3, CreditsBound, FS_RemoveElement, FS_EmptySet DEF Budget
<1>5. IsLast <=> Active' = {}
  BY <1>2, <1>4, FS_EmptySet, Zenon DEF IsLast
<1>6. TypeOK'
  <2>1. pc' \in [Procs -> PCs]
    BY <1>2, Zenon DEF TypeOK, PCs, Woken
  <2>2. step' \in {"none"} \cup Commits \cup Recovery /\ committing' \in BOOLEAN
    BY <1>1, <1>2, Zenon DEF Commits, IsLast
  <2>. QED
    BY <1>2, <1>4, <2>1, <2>2, Zenon DEF TypeOK
<1>7. Budget'
  <2>1. Credits' \subseteq Credits
    BY <1>2, <1>3, Zenon DEF Credits
  <2>. QED
    BY <2>1, <1>2, <1>4, CreditsShrink, CreditsBound DEF Budget, TypeOK
<1>8. CleanIsOnDisk'
  BY <1>2, Zenon DEF CleanIsOnDisk, Held
<1>9. \A q \in Procs : CallOK(q)'
  <2>. TAKE q \in Procs
  <2>1. CASE q = p
    BY <2>1, <1>1, <1>2, Zenon DEF CallOK, TypeOK, Woken
  <2>2. CASE q # p
    <3>1. /\ pc'[q] = pc[q] \/ (pc[q] = "sleep" /\ pc'[q] = "begin")
          /\ wrote'[q] = wrote[q] /\ buf'[q] = buf[q] /\ lh' = lh
      BY <2>2, <1>2, Zenon DEF TypeOK, Woken
    <3>. QED
      BY <3>1, Zenon DEF CallOK, Logged
  <2>. QED
    BY <2>1, <2>2, Zenon
<1>10. CommitAlone'
  <2>1. \A q \in Procs : pc'[q] = "commit" => q = p /\ IsLast
    BY <1>1, <1>2, Zenon DEF CommitAlone, Woken, TypeOK
  <2>. QED
    BY <2>1, <1>1, <1>2, <1>5, Zenon DEF CommitAlone, Commits, Recovery
<1>11. PinnedLogged'
  BY <1>1, <1>2 DEF PinnedLogged, Distinct, Logged, Recovery
<1>12. Copies'
  <2>1. Len(lh) \in Nat /\ (lh # << >> => 0 < Len(lh))
    BY DEF TypeOK
  <2>. QED
    BY <2>1, <1>1, <1>2 DEF Copies, InLog
<1>13. SleeperHasWaker'
  <2>1. outstanding' # 0 => outstanding' > 0
    BY <1>4
  <2>. QED
    BY <2>1, <1>2, Zenon DEF SleeperHasWaker, IsLast
<1>. QED
  BY <1>1, <1>2, <1>6, <1>7, <1>8, <1>9, <1>10, <1>11, <1>12, <1>13, Zenon DEF NeverPanics

\* end_op after commit(): everybody who waits is woken.
LEMMA CommitDoneStep ==
  ASSUME LInv, NEW p \in Procs, CommitDone(p)
  PROVE  LInv'
<1>. USE LogAssumption DEF LInv, durables, bufs, CommitDone
<1>1. pc[p] = "commit" /\ step = "none" /\ committing /\ Active = {} /\ lh = << >>
  BY Zenon DEF CommitAlone, TypeOK
<1>2. Active' = {}
  BY <1>1, Zenon DEF Active, Woken, TypeOK
<1>3. TypeOK'
  BY Zenon DEF TypeOK, PCs, Woken
<1>4. Budget'
  <2>1. Credits = {} /\ Credits' = {}
    BY <1>1, <1>2, Zenon DEF Credits
  <2>. QED
    BY <2>1, <1>1, <1>2, Zenon DEF Budget
<1>5. CleanIsOnDisk'
  BY Zenon DEF CleanIsOnDisk, Held
<1>6. \A q \in Procs : CallOK(q)'
  <2>. TAKE q \in Procs
  <2>1. CASE q = p
    BY <2>1, <1>1, Zenon DEF CallOK, TypeOK, Woken
  <2>2. CASE q # p
    <3>1. /\ pc'[q] = pc[q] \/ (pc[q] = "sleep" /\ pc'[q] = "begin")
          /\ wrote'[q] = wrote[q] /\ buf'[q] = buf[q] /\ lh' = lh
      BY <2>2, Zenon DEF TypeOK, Woken
    <3>. QED
      BY <3>1, Zenon DEF CallOK, Logged
  <2>. QED
    BY <2>1, <2>2, Zenon
<1>7. CommitAlone'
  BY <1>1, <1>2, Zenon DEF CommitAlone, Woken, TypeOK, Commits, Recovery
<1>8. PinnedLogged'
  BY DEF PinnedLogged, Distinct, Logged
<1>9. Copies'
  BY <1>1, Zenon DEF Copies
<1>10. SleeperHasWaker'
  BY Zenon DEF SleeperHasWaker, Woken, TypeOK
<1>. QED
  BY <1>3, <1>4, <1>5, <1>6, <1>7, <1>8, <1>9, <1>10, Zenon DEF NeverPanics
\* What the steps of commit() and of recovery leave alone, they keep.
LEMMA CallsUntouched ==
  ASSUME LInv, UNCHANGED <<outstanding, committing, pc, wrote, buf>>
  PROVE  /\ Active' = Active /\ Credits' = Credits /\ Held' = Held
         /\ SleeperHasWaker'
         /\ Active = {} => \A q \in Procs : CallOK(q)'
<1>1. Active' = Active /\ Held' = Held
  BY Zenon DEF Active, Held
<1>2. Credits' = Credits
  BY <1>1, Zenon DEF Credits
<1>3. SleeperHasWaker'
  BY Zenon DEF LInv, SleeperHasWaker
<1>4. ASSUME Active = {}, NEW q \in Procs PROVE CallOK(q)'
  <2>1. pc[q] \notin {"op", "log"} /\ buf[q] = {}
    BY <1>4, Zenon DEF Active, LInv, CallOK
  <2>. QED
    BY <2>1, Zenon DEF CallOK
<1>. QED
  BY <1>1, <1>2, <1>3, <1>4, Zenon

\* No call is under way in commit() or in recovery, so no buffer is locked.
LEMMA NoCalls ==
  ASSUME LInv, step \in Commits \cup Recovery
  PROVE  /\ Active = {} /\ Held = {}
         /\ Len(lh) \in Nat /\ (lh # << >> => 0 < Len(lh))
         /\ \A i \in 1 .. Len(lh) : i \in LogBlocks /\ lh[i] \in Blocks
<1>1. Active = {}
  BY Zenon DEF LInv, CommitAlone, Active, Commits, Recovery
<1>2. \A p \in Procs : buf[p] = {}
  BY <1>1, Zenon DEF LInv, CallOK, Active
<1>3. lh # << >> => 0 < Len(lh)
  BY DEF LInv, TypeOK
<1>. QED
  BY <1>1, <1>2, <1>3, LogFits, Zenon DEF Held, LInv

\* The counter of the copying loops, back at 0 when it reaches its end.
LEMMA NextTail ==
  ASSUME NEW t \in Nat, NEW n \in Nat, t + 1 <= n
  PROVE  (t + 1) % n = IF t + 1 = n THEN 0 ELSE t + 1
<1>1. CASE t + 1 = n
  BY <1>1
<1>2. CASE t + 1 < n
  BY <1>2
<1>. QED
  BY <1>1, <1>2

\* write_log copies one block into the log.
LEMMA WriteLogStep ==
  ASSUME LInv, WriteLog
  PROVE  LInv'
<1>. USE LogAssumption DEF WriteLog, bufs, log
<1>1. /\ step \in Commits /\ tail \in Nat /\ tail + 1 <= Len(lh) /\ tail + 1 \in 1 .. Len(lh)
      /\ lh \in Seq(Blocks)
  BY NoCalls DEF LInv, TypeOK, Commits, Copies
<1>2. /\ Active = {} /\ Len(lh) \in Nat /\ 0 < Len(lh)
      /\ \A i \in 1 .. Len(lh) : i \in LogBlocks /\ lh[i] \in Blocks
  BY <1>1, NoCalls, Zenon DEF LInv, CommitAlone
<1>3. tail' = IF tail + 1 = Len(lh) THEN 0 ELSE tail + 1
  BY <1>1, <1>2, NextTail, Zenon
<1>4. TypeOK'
  BY <1>1, <1>2, <1>3 DEF LInv, TypeOK, Commits
<1>5. Budget'
  BY CallsUntouched, Zenon DEF LInv, Budget
<1>6. CleanIsOnDisk'
  BY CallsUntouched, Zenon DEF LInv, CleanIsOnDisk
<1>7. \A q \in Procs : CallOK(q)'
  BY <1>2, CallsUntouched, Zenon
<1>8. CommitAlone'
  BY CallsUntouched, Zenon DEF LInv, CommitAlone, Commits, Recovery
<1>9. PinnedLogged'
  BY Zenon DEF LInv, PinnedLogged, Distinct, Logged, Commits, Recovery
<1>10. Copies'
  <2>1. ASSUME NEW i \in 1 .. tail + 1 PROVE dlog'[i] = cache[lh[i]]
    BY <1>1, <1>2 DEF LInv, TypeOK, Copies, InLog
  <2>2. CASE tail + 1 = Len(lh)
    BY <2>1, <2>2, <1>1, <1>2, <1>3, Zenon DEF LInv, Copies, InLog
  <2>3. CASE tail + 1 # Len(lh)
    BY <2>1, <2>3, <1>1, <1>2, <1>3 DEF LInv, Copies, InLog
  <2>. QED
    BY <2>2, <2>3, Zenon
<1>. QED
  BY <1>4, <1>5, <1>6, <1>7, <1>8, <1>9, <1>10, CallsUntouched, Zenon DEF LInv, NeverPanics

\* write_head, "the real commit".
LEMMA WriteHeadStep ==
  ASSUME LInv, WriteHead
  PROVE  LInv'
<1>. USE LogAssumption DEF WriteHead, bufs, log
<1>1. step \in Commits
  BY Zenon DEF Commits
<1>2. Active = {} /\ Len(lh) \in Nat /\ 0 < Len(lh)
  BY <1>1, NoCalls, Zenon DEF LInv, CommitAlone
<1>3. TypeOK'
  BY Zenon DEF LInv, TypeOK, Commits
<1>4. Budget'
  BY <1>2, CallsUntouched, LogFits, Zenon DEF LInv, Budget
<1>5. CleanIsOnDisk'
  BY CallsUntouched, Zenon DEF LInv, CleanIsOnDisk
<1>6. \A q \in Procs : CallOK(q)'
  BY <1>2, CallsUntouched, Zenon
<1>7. CommitAlone'
  BY CallsUntouched, Zenon DEF LInv, CommitAlone, Commits, Recovery
<1>8. PinnedLogged'
  BY Zenon DEF LInv, PinnedLogged, Distinct, Logged, Commits, Recovery
<1>9. Copies'
  BY <1>2 DEF LInv, Copies, InLog, AtHome
<1>. QED
  BY <1>3, <1>4, <1>5, <1>6, <1>7, <1>8, <1>9, CallsUntouched, Zenon DEF LInv, NeverPanics

\* install_trans copies one block home, in commit() and in recovery.
LEMMA InstallStep ==
  ASSUME LInv, InstallTrans \/ RecoverTrans
  PROVE  LInv'
<1>. USE LogAssumption DEF log
<1>. DEFINE b == lh[tail + 1]
<1>1. /\ step \in {"install", "redo"} /\ step \in Commits \cup Recovery
      /\ disk' = [disk EXCEPT ![b] = dlog[tail + 1]]
      /\ cache' = [cache EXCEPT ![b] = dlog[tail + 1]]
      /\ dirty' = [dirty EXCEPT ![b] = FALSE]
      /\ tail' = (tail + 1) % Len(lh)
      /\ UNCHANGED <<dlog, dhead, log, pc, wrote, buf>>
      /\ step = "install" => step' = IF tail + 1 = Len(lh) THEN "clear" ELSE step
      /\ step = "redo" => step' = IF tail + 1 = Len(lh) THEN "reclear" ELSE step
  BY Zenon DEF InstallTrans, RecoverTrans, Install, Commits, Recovery
<1>2. /\ Active = {} /\ Held = {} /\ Len(lh) \in Nat
      /\ \A i \in 1 .. Len(lh) : i \in LogBlocks /\ lh[i] \in Blocks
  BY <1>1, NoCalls, Zenon
<1>3. tail \in Nat /\ tail + 1 <= Len(lh) /\ tail + 1 \in 1 .. Len(lh) /\ b \in Blocks
  BY <1>1, <1>2 DEF LInv, TypeOK, Copies
<1>4. tail' = IF tail + 1 = Len(lh) THEN 0 ELSE tail + 1
  BY <1>1, <1>2, <1>3
<1>5. TypeOK'
  BY <1>1, <1>2, <1>3, <1>4 DEF LInv, TypeOK, Commits, Recovery
<1>6. Budget'
  BY <1>1, CallsUntouched, Zenon DEF LInv, Budget
<1>7. CleanIsOnDisk'
  BY <1>1, <1>3, CallsUntouched, Zenon DEF LInv, CleanIsOnDisk, TypeOK
<1>8. \A q \in Procs : CallOK(q)'
  BY <1>1, <1>2, CallsUntouched, Zenon
<1>9. CommitAlone'
  BY <1>1, CallsUntouched, Zenon DEF LInv, CommitAlone, Commits, Recovery
<1>10. ASSUME NEW i \in 1 .. tail + 1
       PROVE  disk'[lh[i]] = dlog[i] /\ ~dirty'[lh[i]]
  <2>1. i \in 1 .. Len(lh) /\ lh[i] \in Blocks /\ (lh[i] = b => i = tail + 1)
    BY <1>2, <1>3 DEF LInv, PinnedLogged, Distinct
  <2>2. i # tail + 1 => disk[lh[i]] = dlog[i] /\ ~dirty[lh[i]]
    BY <1>1, <1>3 DEF LInv, Copies, AtHome
  <2>. QED
    BY <1>1, <2>1, <2>2, Zenon DEF LInv, TypeOK
<1>11. PinnedLogged'
  <2>1. \A x \in Blocks : dirty'[x] => dirty[x]
    BY <1>1, <1>3, Zenon DEF LInv, TypeOK
  <2>2. ASSUME tail + 1 = Len(lh), NEW x \in Blocks PROVE ~dirty'[x]
    BY <2>1, <2>2, <1>10 DEF LInv, PinnedLogged, Logged
  <2>3. Logged' = Logged
    BY <1>1, Zenon DEF Logged
  <2>. QED
    BY <2>1, <2>2, <2>3, <1>1, Zenon DEF LInv, PinnedLogged, Distinct, Recovery
<1>12. ASSUME step = "install", NEW i \in 1 .. Len(lh) PROVE dlog[i] = cache'[lh[i]]
  <2>1. dlog[i] = cache[lh[i]] /\ (lh[i] = b => i = tail + 1) /\ lh[i] \in Blocks
    BY <1>1, <1>2, <1>3, <1>12, Zenon DEF LInv, Copies, InLog, PinnedLogged, Distinct
  <2>2. cache' = [cache EXCEPT ![b] = dlog[tail + 1]] /\ cache \in [Blocks -> Vals]
    BY <1>1, Zenon DEF LInv, TypeOK
  <2>. QED
    BY <2>1, <2>2, Zenon
<1>13. Copies'
  <2>. HIDE DEF b
  <2>1. CASE tail + 1 = Len(lh)
    BY <2>1, <1>1, <1>4, <1>10, Zenon DEF LInv, Copies, AtHome
  <2>2. CASE tail + 1 # Len(lh)
    BY <2>2, <1>1, <1>2, <1>3, <1>4, <1>10, <1>12 DEF LInv, Copies, AtHome, InLog
  <2>. QED
    BY <2>1, <2>2, Zenon
<1>. QED
  BY <1>1, <1>5, <1>6, <1>7, <1>8, <1>9, <1>11, <1>13, CallsUntouched, Zenon DEF LInv, NeverPanics

\* The header is cleared, at the end of commit() and of recovery.
LEMMA ClearStep ==
  ASSUME LInv, Clear \/ RecoverClear
  PROVE  LInv'
<1>. USE LogAssumption
<1>1. /\ step \in {"clear", "reclear"} /\ step \in Commits \cup Recovery
      /\ lh' = << >> /\ dhead' = << >> /\ step' = "none"
      /\ UNCHANGED <<disk, dlog, cache, dirty, outstanding, committing, pc, wrote, buf, tail>>
  BY Zenon DEF Clear, RecoverClear, Commits, Recovery, bufs
<1>2. Active = {}
  BY <1>1, NoCalls, Zenon
<1>3. TypeOK'
  BY <1>1 DEF LInv, TypeOK
<1>4. Budget'
  <2>1. Credits = {}
    BY <1>2, Zenon DEF Credits
  <2>2. Cardinality(Credits) = 0
    BY <2>1, FS_EmptySet, Zenon
  <2>. QED
    BY <1>1, <2>2, CallsUntouched DEF LInv, Budget
<1>5. CleanIsOnDisk'
  BY <1>1, CallsUntouched, Zenon DEF LInv, CleanIsOnDisk
<1>6. \A q \in Procs : CallOK(q)'
  BY <1>1, <1>2, CallsUntouched, Zenon
<1>7. CommitAlone'
  BY <1>1, CallsUntouched, Zenon DEF LInv, CommitAlone, Commits, Recovery
<1>8. PinnedLogged'
  BY <1>1 DEF LInv, PinnedLogged, Distinct, Recovery
<1>9. Copies'
  BY <1>1, Zenon DEF Copies
<1>. QED
  BY <1>1, <1>3, <1>4, <1>5, <1>6, <1>7, <1>8, <1>9, CallsUntouched, Zenon DEF LInv, NeverPanics

\* initlog reads the header.
LEMMA ReadHeadStep ==
  ASSUME LInv, ReadHead
  PROVE  LInv'
<1>. USE LogAssumption DEF ReadHead, durables, bufs
<1>1. step \in Recovery
  BY Zenon DEF Recovery
<1>2. Active = {} /\ tail = 0
  BY <1>1, NoCalls, Zenon DEF LInv, CommitAlone
<1>3. TypeOK'
  BY Zenon DEF LInv, TypeOK, Recovery
<1>4. Budget'
  <2>1. Credits = {}
    BY <1>2, Zenon DEF Credits
  <2>2. Cardinality(Credits) = 0 /\ Len(dhead) \in Nat
    BY <2>1, FS_EmptySet DEF LInv, TypeOK
  <2>. QED
    BY <2>2, CallsUntouched DEF LInv, Budget
<1>5. CleanIsOnDisk'
  BY CallsUntouched, Zenon DEF LInv, CleanIsOnDisk
<1>6. \A q \in Procs : CallOK(q)'
  BY <1>2, CallsUntouched, Zenon
<1>7. CommitAlone'
  BY CallsUntouched, Zenon DEF LInv, CommitAlone, Commits, Recovery
<1>8. PinnedLogged'
  BY <1>1, Zenon DEF LInv, PinnedLogged, Distinct, Recovery
<1>9. Copies'
  <2>1. dhead # << >> => 0 < Len(dhead)
    BY DEF LInv, TypeOK
  <2>. QED
    BY <2>1, <1>2 DEF Copies, AtHome
<1>. QED
  BY <1>3, <1>4, <1>5, <1>6, <1>7, <1>8, <1>9, CallsUntouched, Zenon DEF LInv, NeverPanics

\* A crash at any moment.
LEMMA CrashStep ==
  ASSUME LInv, Crash
  PROVE  LInv'
<1>. USE LogAssumption DEF Crash, durables
<1>1. TypeOK'
  <2>1. cache' \in [Blocks -> Vals] /\ dirty' \in [Blocks -> BOOLEAN]
    BY Zenon DEF LInv, TypeOK
  <2>2. wrote' \in [Procs -> SUBSET Blocks] /\ buf' \in [Procs -> SUBSET Blocks]
    BY Zenon
  <2>3. pc' \in [Procs -> PCs] /\ step' \in Recovery /\ lh' \in Seq(Blocks)
    BY DEF PCs, Recovery
  <2>. QED
    BY <2>1, <2>2, <2>3, Zenon DEF LInv, TypeOK
<1>2. Active' = {} /\ Credits' = {}
  BY Zenon DEF Active, Credits
<1>3. Budget'
  BY <1>2, FS_EmptySet DEF LInv, Budget
<1>4. CleanIsOnDisk'
  BY Zenon DEF CleanIsOnDisk
<1>5. \A p \in Procs : CallOK(p)'
  BY Zenon DEF CallOK
<1>6. CommitAlone'
  BY <1>2, Zenon DEF CommitAlone, Commits, Recovery
<1>7. PinnedLogged'
  BY DEF LInv, PinnedLogged, Distinct
<1>8. Copies'
  BY Zenon DEF Copies
<1>. QED
  BY <1>1, <1>3, <1>4, <1>5, <1>6, <1>7, <1>8, Zenon DEF LInv, NeverPanics, SleeperHasWaker
\* Every step of the log keeps the invariant.
LEMMA NextLInv ==
  ASSUME LInv, [Next]_vars
  PROVE  LInv'
<1>1. CASE UNCHANGED vars
  <2>. USE <1>1 DEF vars, durables, bufs, log
  <2>1. Active' = Active /\ Logged' = Logged /\ Held' = Held
    BY Zenon DEF Active, Logged, Held
  <2>2. TypeOK' /\ NeverPanics' /\ CleanIsOnDisk' /\ SleeperHasWaker'
    BY <2>1, Zenon DEF LInv, TypeOK, NeverPanics, CleanIsOnDisk, SleeperHasWaker
  <2>3. Budget'
    <3>1. Credits' = Credits
      BY <2>1, Zenon DEF Credits
    <3>. QED
      BY <2>1, <3>1, Zenon DEF LInv, Budget
  <2>4. (\A p \in Procs : CallOK(p)') /\ CommitAlone'
    BY <2>1, Zenon DEF LInv, CallOK, CommitAlone
  <2>5. PinnedLogged'
    BY <2>1, Zenon DEF LInv, PinnedLogged, Distinct
  <2>6. Copies'
    <3>1. Copies
      BY Zenon DEF LInv
    <3>2. InLog(tail)' = InLog(tail) /\ InLog(Len(lh))' = InLog(Len(lh))
      BY Zenon DEF InLog
    <3>3. AtHome(tail)' = AtHome(tail) /\ AtHome(Len(lh))' = AtHome(Len(lh))
      BY Zenon DEF AtHome
    <3>. QED
      BY <3>1, <3>2, <3>3, Zenon DEF Copies
  <2>. QED
    BY <2>2, <2>3, <2>4, <2>5, <2>6, Zenon DEF LInv
<1>2. CASE Next
  BY <1>2, EnterStep, BeginOpStep, EndOpStep, CommitDoneStep, ModifyStep, LogWriteStep,
     WriteLogStep, WriteHeadStep, InstallStep, ClearStep, CrashStep, ReadHeadStep, Zenon DEF Next
<1>. QED
  BY <1>1, <1>2, Zenon

-----------------------------------------------------------------------------
(* Theorems. *)

\* LInv is an invariant of the log, through crashes and recoveries.
THEOREM LogInvariant == Spec => []LInv
<1>1. Init => LInv
  BY InitLInv, Zenon
<1>2. LInv /\ [Next]_vars => LInv'
  BY NextLInv, Zenon
<1>. QED
  BY <1>1, <1>2, PTL DEF Spec

\* No panic of log_write or end_op is ever reached, however many calls begin_op
\* lets in together.
THEOREM LogNeverPanics == Spec => []NeverPanics
<1>1. LInv => NeverPanics
  BY Zenon DEF LInv
<1>. QED
  BY <1>1, LogInvariant, PTL

\* A buffer that bget may recycle holds what the disk holds.
THEOREM LogCleanIsOnDisk == Spec => []CleanIsOnDisk
<1>1. LInv => CleanIsOnDisk
  BY Zenon DEF LInv
<1>. QED
  BY <1>1, LogInvariant, PTL

\* Whoever sleeps in begin_op is woken by a call under way or by the commit.
THEOREM LogSleeperHasWaker == Spec => []SleeperHasWaker
<1>1. LInv => SleeperHasWaker
  BY Zenon DEF LInv
<1>. QED
  BY <1>1, LogInvariant, PTL

-----------------------------------------------------------------------------
(* The log implements AtomicDisk. *)

Current == IF step \in Recovery THEN Recovered ELSE cache

\* With an empty header a crash leaves the home blocks.
LEMMA NothingCommitted ==
  ASSUME TypeOK, dhead = << >>
  PROVE  Recovered = disk
<1>1. Len(dhead) = 0
  BY Zenon
<1>. QED
  BY <1>1 DEF TypeOK, Recovered

\* A block in the header is recovered from its log block, any other one from home.
LEMMA RecoveredBlock ==
  ASSUME TypeOK, Distinct(dhead)
  PROVE  /\ \A i \in 1 .. Len(dhead) : Recovered[dhead[i]] = dlog[i]
         /\ \A b \in Blocks : (\A i \in 1 .. Len(dhead) : dhead[i] # b) => Recovered[b] = disk[b]
<1>1. ASSUME NEW i \in 1 .. Len(dhead) PROVE Recovered[dhead[i]] = dlog[i]
  <2>. DEFINE j == CHOOSE k \in 1 .. Len(dhead) : dhead[k] = dhead[i]
  <2>1. j \in 1 .. Len(dhead) /\ dhead[j] = dhead[i]
    BY Zenon
  <2>2. j = i
    BY <2>1, Zenon DEF Distinct
  <2>3. dhead[i] \in Blocks
    BY DEF TypeOK
  <2>4. Recovered[dhead[i]] = dlog[j]
    BY <2>3, Zenon DEF Recovered
  <2>. QED
    BY <2>2, <2>4, Zenon
<1>2. ASSUME NEW b \in Blocks, \A i \in 1 .. Len(dhead) : dhead[i] # b PROVE Recovered[b] = disk[b]
  BY <1>2, Zenon DEF Recovered
<1>. QED
  BY <1>1, <1>2, Zenon

\* Once every block is home, the header makes no difference.
LEMMA AllHome ==
  ASSUME LInv, step \in {"clear", "reclear"}
  PROVE  Recovered = disk /\ cache = disk
<1>1. dhead = lh /\ AtHome(Len(dhead)) /\ Distinct(dhead) /\ TypeOK
  BY Zenon DEF LInv, Copies, PinnedLogged
<1>2. ASSUME NEW b \in Blocks PROVE Recovered[b] = disk[b]
  BY <1>1, RecoveredBlock DEF AtHome
<1>3. Recovered = disk
  BY <1>2, Zenon DEF Recovered, LInv, TypeOK
<1>4. Held = {} /\ \A b \in Blocks : ~dirty[b]
  BY NoCalls, Zenon DEF LInv, PinnedLogged, Commits, Recovery
<1>5. cache = disk
  BY <1>4 DEF LInv, CleanIsOnDisk, TypeOK
<1>. QED
  BY <1>3, <1>5, Zenon

\* A step of the log that changes nothing on disk leaves what a crash would find.
LEMMA DiskUntouched ==
  ASSUME UNCHANGED durables
  PROVE  Recovered' = Recovered
<1>. QED
  BY Zenon DEF durables, Recovered

\* begin_op, end_op and writes of a call are those of AtomicDisk.
LEMMA CallsRefine ==
  ASSUME LInv, NEW p \in Procs,
         \/ Enter(p) \/ BeginOp(p) \/ EndOp(p) \/ CommitDone(p)
         \/ \E b \in Blocks, v \in Vals : Modify(p, b, v)
         \/ \E b \in Blocks : LogWrite(p, b)
  PROVE  \/ Recovered' = Recovered /\ Current' = Current /\ Active' = Active
         \/ /\ Recovered' = Recovered /\ Current' = Current
            /\ p \notin Active /\ Active' = Active \cup {p}
         \/ /\ Recovered' = Recovered /\ Current' = Current
            /\ p \in Active /\ Active' = Active \ {p}
         \/ \E b \in Blocks, v \in Vals :
              /\ p \in Active /\ Current' = [Current EXCEPT ![b] = v]
              /\ Recovered' = Recovered /\ Active' = Active
<1>. USE DEF LInv, TypeOK
<1>1. Recovered' = Recovered
  BY DiskUntouched, Zenon DEF Enter, BeginOp, EndOp, CommitDone, Modify, LogWrite, Panic, durables
<1>2. step \notin Recovery
  BY Zenon DEF Enter, BeginOp, EndOp, CommitDone, Modify, LogWrite, Up, Recovery
<1>3. CASE Enter(p) \/ BeginOp(p) \/ CommitDone(p) \/ \E b \in Blocks : LogWrite(p, b)
  <2>1. step' = step /\ cache' = cache
    BY <1>3, Zenon DEF Enter, BeginOp, CommitDone, LogWrite, bufs
  <2>2. Current' = Current
    BY <2>1, <1>1, <1>2, Zenon DEF Current
  <2>3. Active' = Active \/ (p \notin Active /\ Active' = Active \cup {p})
    BY <1>3, Zenon DEF Enter, BeginOp, CommitDone, LogWrite, Active, Woken
  <2>. QED
    BY <2>2, <2>3, <1>1, Zenon
<1>4. CASE EndOp(p)
  <2>1. ~committing
    BY <1>4, Zenon DEF EndOp, CommitAlone, Active
  <2>2. step' \notin Recovery /\ cache' = cache
    BY <1>2, <1>4, <2>1, Zenon DEF EndOp, bufs, Recovery
  <2>3. p \in Active /\ Active' = Active \ {p}
    BY <1>4, <2>1, Zenon DEF EndOp, Active, Woken
  <2>. QED
    BY <2>2, <2>3, <1>1, <1>2, Zenon DEF Current
<1>5. CASE \E b \in Blocks, v \in Vals : Modify(p, b, v)
  <2>1. PICK b \in Blocks, v \in Vals : Modify(p, b, v)
    BY <1>5, Zenon
  <2>2. LInv'
    BY <2>1, ModifyStep, Zenon
  <2>3. /\ step' = step /\ cache' = [cache EXCEPT ![b] = v] /\ pc' = [pc EXCEPT ![p] = "log"]
        /\ pc[p] = "op"
    BY <2>1, <2>2, Zenon DEF Modify, Panic, NeverPanics
  <2>4. p \in Active /\ Active' = Active
    BY <2>3, Zenon DEF Active
  <2>5. Current' = [Current EXCEPT ![b] = v]
    BY <2>3, <1>2, Zenon DEF Current
  <2>. QED
    BY <2>4, <2>5, <1>1, Zenon
<1>. QED
  BY <1>3, <1>4, <1>5, Zenon
\* write_head makes everything durable; no other step of commit() and no step
\* of recovery changes what a crash would leave, or what is read afterwards.
LEMMA CommitRefines ==
  ASSUME LInv,
         \/ WriteLog \/ WriteHead \/ InstallTrans \/ Clear
         \/ ReadHead \/ RecoverTrans \/ RecoverClear
  PROVE  /\ Active' = Active
         /\ \/ Recovered' = Recovered /\ Current' = Current
            \/ Active = {} /\ Recovered' = Current /\ Current' = Current
<1>0. Active' = Active /\ Active = {} /\ Held = {}
  <2>1. step \in Commits \cup Recovery /\ pc' = pc
    BY Zenon DEF WriteLog, WriteHead, InstallTrans, Clear, ReadHead, RecoverTrans, RecoverClear, Install,
           Commits, Recovery
  <2>. QED
    BY <2>1, NoCalls, Zenon DEF Active
<1>1. CASE WriteLog
  <2>1. /\ dhead = << >> /\ dhead' = << >> /\ disk' = disk /\ cache' = cache
        /\ step \notin Recovery /\ step' \notin Recovery
    BY <1>1, Zenon DEF WriteLog, LInv, Copies, bufs, Recovery
  <2>2. TypeOK /\ TypeOK'
    BY <1>1, WriteLogStep, Zenon DEF LInv
  <2>3. Recovered = disk /\ Recovered' = disk'
    <3>1. Len(dhead) = 0 /\ Len(dhead') = 0
      BY <2>1, Zenon
    <3>2. \A i \in 1 .. 0 : FALSE
      OBVIOUS
    <3>3. Recovered = [b \in Blocks |-> disk[b]] /\ Recovered' = [b \in Blocks |-> disk'[b]]
      BY <3>1, <3>2, Zenon DEF Recovered
    <3>. QED
      BY <2>2, <3>3, Zenon DEF TypeOK
  <2>. QED
    BY <2>1, <2>3, <1>0, Zenon DEF Current
<1>2. CASE WriteHead
  <2>1. /\ dhead' = lh /\ dlog' = dlog /\ disk' = disk /\ cache' = cache
        /\ step \notin Recovery /\ step' \notin Recovery
    BY <1>2, Zenon DEF WriteHead, bufs, Recovery
  <2>2. /\ \A i \in 1 .. Len(lh) : dlog[i] = cache[lh[i]]
        /\ Distinct(lh) /\ (\A b \in Blocks : dirty[b] => b \in Logged)
        /\ cache \in [Blocks -> Vals]
    BY <1>2, Zenon DEF WriteHead, LInv, Copies, InLog, PinnedLogged, TypeOK
  <2>3. ASSUME NEW b \in Blocks PROVE Recovered'[b] = cache[b]
    <3>1. CASE b \in Logged
      <4>. DEFINE j == CHOOSE i \in 1 .. Len(lh) : lh[i] = b
      <4>1. j \in 1 .. Len(lh) /\ lh[j] = b
        BY <3>1, Zenon DEF Logged
      <4>2. Recovered'[b] = dlog[j]
        BY <2>1, <4>1, Zenon DEF Recovered
      <4>. QED
        BY <2>2, <4>1, <4>2, Zenon
    <3>2. CASE b \notin Logged
      <4>1. Recovered'[b] = disk[b]
        BY <2>1, <3>2, Zenon DEF Recovered, Logged
      <4>. QED
        BY <2>2, <3>2, <4>1, <1>0, Zenon DEF LInv, CleanIsOnDisk
    <3>. QED
      BY <3>1, <3>2, Zenon
  <2>4. Recovered' = cache
    BY <2>2, <2>3, Zenon DEF Recovered
  <2>. QED
    BY <2>1, <2>4, <1>0, Zenon DEF Current
<1>3. CASE InstallTrans \/ RecoverTrans
  <2>. DEFINE b == lh[tail + 1]
  <2>1. /\ step \in {"install", "redo"} /\ dhead = lh /\ dhead' = dhead /\ dlog' = dlog
        /\ disk' = [disk EXCEPT ![b] = dlog[tail + 1]]
        /\ cache' = [cache EXCEPT ![b] = dlog[tail + 1]]
        /\ step \in Recovery <=> step' \in Recovery
    BY <1>3, Zenon DEF InstallTrans, RecoverTrans, Install, LInv, Copies, Recovery, log
  <2>2. /\ tail \in Nat /\ tail + 1 \in 1 .. Len(lh) /\ b \in Blocks /\ TypeOK /\ Distinct(dhead)
    <3>1. tail \in Nat /\ tail < Len(lh) /\ TypeOK /\ Distinct(dhead) /\ step \in Commits \cup Recovery
      BY <2>1, Zenon DEF LInv, TypeOK, Copies, PinnedLogged, Commits, Recovery
    <3>2. Len(lh) \in Nat /\ \A i \in 1 .. Len(lh) : lh[i] \in Blocks
      BY <3>1, NoCalls, Zenon
    <3>3. tail + 1 \in 1 .. Len(lh)
      BY <3>1, <3>2
    <3>. QED
      BY <3>1, <3>2, <3>3, Zenon
  <2>3. ASSUME NEW x \in Blocks PROVE Recovered'[x] = Recovered[x]
    <3>1. CASE \E i \in 1 .. Len(dhead) : dhead[i] = x
      BY <3>1, <2>1, Zenon DEF Recovered
    <3>2. CASE ~\E i \in 1 .. Len(dhead) : dhead[i] = x
      <4>1. x # b
        BY <3>2, <2>1, <2>2, Zenon
      <4>. QED
        BY <3>2, <4>1, <2>1, <2>2, Zenon DEF Recovered, TypeOK
    <3>. QED
      BY <3>1, <3>2, Zenon
  <2>4. Recovered' = Recovered
    BY <2>3, Zenon DEF Recovered
  <2>5. step \notin Recovery => cache' = cache
    <3>1. step \notin Recovery => cache[b] = dlog[tail + 1]
      BY <2>1, <2>2, Zenon DEF LInv, Copies, InLog, Recovery
    <3>. QED
      BY <3>1, <2>1, <2>2, Zenon DEF TypeOK
  <2>. QED
    BY <2>1, <2>4, <2>5, <1>0, Zenon DEF Current
<1>4. CASE Clear \/ RecoverClear
  <2>1. /\ step \in {"clear", "reclear"} /\ dhead' = << >> /\ disk' = disk /\ cache' = cache
        /\ step' \notin Recovery
    BY <1>4, Zenon DEF Clear, RecoverClear, bufs, Recovery
  <2>2. Recovered = disk /\ cache = disk
    BY <2>1, AllHome, Zenon
  <2>3. Recovered' = disk
    <3>1. Len(dhead') = 0
      BY <2>1, Zenon
    <3>. QED
      BY <2>1, <3>1 DEF Recovered, LInv, TypeOK
  <2>. QED
    BY <2>1, <2>2, <2>3, <1>0, Zenon DEF Current
<1>5. CASE ReadHead
  <2>1. Recovered' = Recovered /\ step \in Recovery /\ step' \in Recovery
    BY <1>5, DiskUntouched, Zenon DEF ReadHead, Recovery
  <2>. QED
    BY <2>1, <1>0, Zenon DEF Current
<1>. QED
  BY <1>1, <1>2, <1>3, <1>4, <1>5, Zenon

\* A crash loses exactly what was not durable.
LEMMA CrashRefines ==
  ASSUME Crash
  PROVE  Recovered' = Recovered /\ Current' = Recovered /\ Active' = {}
<1>1. Recovered' = Recovered
  BY DiskUntouched, Zenon DEF Crash
<1>. QED
  BY <1>1, Zenon DEF Crash, Current, Active, Recovery

\* The log implements AtomicDisk: a crash at any moment, also in recovery, leaves
\* all the writes of the calls of a group or none of them.
THEOREM LogCrashAtomic == Spec => CrashAtomic
<1>1. Init => Disk!AInit
  <2>. SUFFICES ASSUME Init PROVE Disk!AInit
    BY Zenon
  <2>1. LInv
    BY InitLInv, Zenon
  <2>2. Recovered = disk
    BY <2>1, NothingCommitted, Zenon DEF LInv, Init
  <2>. QED
    BY <2>2, Zenon DEF Init, Disk!AInit
<1>2. LInv /\ [Next]_vars => [Disk!ANext]_Disk!avars
  <2>. SUFFICES ASSUME LInv, [Next]_vars PROVE [Disk!ANext]_Disk!avars
    BY Zenon
  <2>. USE DEF Disk!ANext, Disk!avars, Disk!Begin, Disk!End, Disk!WriteBlock, Disk!Commit, Disk!Crash,
               Current, Active, Recovery
  <2>1. CASE UNCHANGED vars
    BY <2>1, DiskUntouched, Zenon DEF vars, durables, bufs
  <2>2. CASE \/ WriteLog \/ WriteHead \/ InstallTrans \/ Clear
             \/ ReadHead \/ RecoverTrans \/ RecoverClear
    BY <2>2, CommitRefines, Zenon
  <2>3. CASE Crash
    BY <2>3, CrashRefines, Zenon
  <2>4. ASSUME NEW p \in Procs,
               \/ Enter(p) \/ BeginOp(p) \/ EndOp(p) \/ CommitDone(p)
               \/ \E b \in Blocks, v \in Vals : Modify(p, b, v)
               \/ \E b \in Blocks : LogWrite(p, b)
        PROVE  [Disk!ANext]_Disk!avars
    BY <2>4, CallsRefine, Zenon
  <2>. QED
    BY <2>1, <2>2, <2>3, <2>4, Zenon DEF Next
<1>. QED
  BY <1>1, <1>2, LogInvariant, PTL DEF Spec, CrashAtomic, Disk!ASpec
=============================================================================
