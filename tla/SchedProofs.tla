---------------------------- MODULE SchedProofs -----------------------------
(***************************************************************************)
(* Proofs about what the schedulers choose from: the search loops of       *)
(* scheduler() find who comes first, and the rings of the multi-level      *)
(* queue are first-in first-out queues, for any numbers of slots, CPUs,    *)
(* priorities and levels.                                                  *)
(***************************************************************************)
EXTENDS SchedLoop, MlfqRing, NatFacts, FiniteSetTheorems

(* The loops of the round-robin, priority and first-come first-served builds. *)

States == {"UNUSED", "EMBRYO", "SLEEPING", "RUNNABLE", "RUNNING", "ZOMBIE"}

LoopTypeOK ==
  /\ policy \in Policies
  /\ pstate \in [LoopSlots -> States]
  /\ priority \in [LoopSlots -> Nat] /\ ctime \in [LoopSlots -> Nat]
  /\ haspid \in [LoopSlots -> BOOLEAN]
  /\ lcproc \in [LoopCPUs -> LoopSlots \cup {LoopNoProc}]
  /\ scan \in [LoopCPUs -> Nat] /\ lock \in LoopCPUs \cup {NoCPU} /\ ticks \in Nat

\* cpus[c].proc is RUNNING, and is the process of no other CPU.
LoopInv ==
  /\ LoopTypeOK
  /\ \A c \in LoopCPUs : lcproc[c] # LoopNoProc => pstate[lcproc[c]] = "RUNNING"
  /\ \A c, d \in LoopCPUs : lcproc[c] = lcproc[d] /\ lcproc[c] # LoopNoProc => c = d

-----------------------------------------------------------------------------
LEMMA LoopInitInv ==
  ASSUME LoopInit
  PROVE  LoopInv
<1>. QED
  BY LoopAssumption, Zenon DEF LoopInit, LoopInv, LoopTypeOK, States

\* The process of a CPU leaves it.
LEMMA LeaveStep ==
  ASSUME LoopInv, NEW c \in LoopCPUs, NEW p \in LoopSlots, NEW s \in States, Leave(c, p, s)
  PROVE  LoopInv'
<1>1. p # LoopNoProc
  BY LoopAssumption DEF LoopSlots, LoopNoProc
<1>2. LoopTypeOK'
  BY Zenon DEF LoopInv, LoopTypeOK, Leave
<1>3. \A d \in LoopCPUs : d # c => lcproc[d] # p
  BY <1>1, Zenon DEF LoopInv, Leave
<1>4. lcproc' = [lcproc EXCEPT ![c] = LoopNoProc] /\ pstate' = [pstate EXCEPT ![p] = s]
  BY Zenon DEF Leave
<1>. QED
  BY <1>1, <1>2, <1>3, <1>4, Zenon DEF LoopInv, LoopTypeOK

\* The process that is switched to was on no CPU.
LEMMA PickStep ==
  ASSUME LoopInv, NEW c \in LoopCPUs, Pick(c)
  PROVE  LoopInv'
<1>1. PICK h \in Runnable :
        /\ lcproc[c] = LoopNoProc
        /\ pstate' = [pstate EXCEPT ![h] = "RUNNING"]
        /\ lcproc' = [lcproc EXCEPT ![c] = h]
        /\ scan' = [scan EXCEPT ![c] = IF policy = "FCFS" THEN 0 ELSE h + 1]
        /\ lock' = NoCPU
        /\ UNCHANGED <<policy, priority, ctime, haspid, ticks>>
  BY Zenon DEF Pick
<1>2. h \in LoopSlots /\ pstate[h] = "RUNNABLE" /\ h \in Nat
  BY LoopAssumption DEF Runnable, LoopSlots
<1>3. LoopTypeOK'
  BY <1>1, <1>2 DEF LoopInv, LoopTypeOK, States
<1>4. \A d \in LoopCPUs : lcproc[d] # h \/ h = LoopNoProc
  BY <1>2, Zenon DEF LoopInv
<1>. QED
  BY <1>1, <1>2, <1>3, <1>4 DEF LoopInv, LoopTypeOK

\* The other steps take no process from a CPU.
LEMMA OtherStep ==
  ASSUME LoopInv,
         \/ \E c \in LoopCPUs : EndPass(c)
         \/ \E p \in LoopSlots : LoopWakeup(p) \/ Reap(p) \/ LoopAllocproc(p)
                                 \/ LoopFork(p) \/ LoopForkFail(p)
                                 \/ \E v \in Priorities : SetPriority(p, v)
         \/ Tick
  PROVE  LoopInv'
<1>1. CASE \E c \in LoopCPUs : EndPass(c)
  BY <1>1 DEF EndPass, LoopInv, LoopTypeOK
<1>2. CASE Tick
  BY <1>2 DEF Tick, LoopInv, LoopTypeOK
<1>3. ASSUME NEW p \in LoopSlots, NEW v \in Priorities, SetPriority(p, v)
      PROVE  LoopInv'
  BY <1>3, LoopAssumption, Zenon DEF SetPriority, LoopInv, LoopTypeOK
<1>4. ASSUME NEW p \in LoopSlots, LoopWakeup(p) \/ Reap(p) \/ LoopAllocproc(p) \/ LoopFork(p) \/ LoopForkFail(p)
      PROVE  LoopInv'
  <2>1. PICK s \in States : pstate' = [pstate EXCEPT ![p] = s]
    BY <1>4, Zenon DEF LoopWakeup, Reap, LoopAllocproc, LoopFork, LoopForkFail, States
  <2>2. pstate[p] # "RUNNING"
    BY <1>4, Zenon DEF LoopWakeup, Reap, LoopAllocproc, LoopFork, LoopForkFail
  <2>3. UNCHANGED <<policy, lcproc, scan, lock, ticks>>
    BY <1>4, Zenon DEF LoopWakeup, Reap, LoopAllocproc, LoopFork, LoopForkFail
  <2>4. /\ priority' = priority \/ priority' = [priority EXCEPT ![p] = DefaultPrio]
        /\ ctime' = ctime \/ ctime' = [ctime EXCEPT ![p] = ticks]
        /\ haspid' = haspid \/ \E v \in BOOLEAN : haspid' = [haspid EXCEPT ![p] = v]
    BY <1>4, Zenon DEF LoopWakeup, Reap, LoopAllocproc, LoopFork, LoopForkFail
  <2>5. priority' \in [LoopSlots -> Nat]
    BY <2>4, LoopAssumption, Zenon DEF LoopInv, LoopTypeOK
  <2>6. ctime' \in [LoopSlots -> Nat]
    BY <2>4, Zenon DEF LoopInv, LoopTypeOK
  <2>7. haspid' \in [LoopSlots -> BOOLEAN]
    BY <2>4, Zenon DEF LoopInv, LoopTypeOK
  <2>. QED
    BY <2>1, <2>2, <2>3, <2>5, <2>6, <2>7, Zenon DEF LoopInv, LoopTypeOK
<1>. QED
  BY <1>1, <1>2, <1>3, <1>4, Zenon

LEMMA LoopNextInv ==
  ASSUME LoopInv, [LoopNext]_LoopVars
  PROVE  LoopInv'
<1>1. CASE UNCHANGED LoopVars
  BY <1>1, Zenon DEF LoopVars, LoopInv, LoopTypeOK
<1>2. ASSUME NEW c \in LoopCPUs,
             LoopTimerYield(c) \/ IntrYield(c) \/ LoopSleep(c) \/ LoopExit(c)
      PROVE  LoopInv'
  <2>1. PICK p \in LoopSlots, s \in States : Leave(c, p, s)
    BY <1>2, Zenon DEF LoopTimerYield, IntrYield, LoopSleep, LoopExit, States
  <2>. QED
    BY <2>1, LeaveStep, Zenon
<1>3. ASSUME NEW c \in LoopCPUs, Pick(c)
      PROVE  LoopInv'
  BY <1>3, PickStep, Zenon
<1>. QED
  BY <1>1, <1>2, <1>3, OtherStep, Zenon DEF LoopNext

\* A process is RUNNING on one CPU only, in each of the three builds: scheduler()
\* switches only to a RUNNABLE process, under ptable.lock, and a process that
\* leaves its CPU is the one cpus[c].proc names.
THEOREM LoopInvariant == LoopSpec => []LoopInv
<1>1. LoopInit => LoopInv
  BY LoopInitInv, Zenon
<1>2. LoopInv /\ [LoopNext]_LoopVars => LoopInv'
  BY LoopNextInv, Zenon
<1>. QED
  BY <1>1, <1>2, PTL DEF LoopSpec

-----------------------------------------------------------------------------
(* The search loops. *)

\* Induction, for a set of natural numbers.
LEMMA SetInduction ==
  ASSUME NEW S, 0 \in S, \A n \in Nat : n \in S => n + 1 \in S
  PROVE  \A n \in Nat : n \in S
<1>. DEFINE R == OpToRel(<, Nat)
            T == Nat \ S
<1>1. SUFFICES ASSUME T # {} PROVE FALSE
  OBVIOUS
<1>2. IsWellFoundedOn(R, Nat)
  BY NatLessThanWellFounded
<1>3. \A m, n \in Nat : m < n => <<m, n>> \in R
  BY DEF R, OpToRel
<1>. HIDE DEF R
<1>4. PICK x \in T : \A y \in T : ~(<<y, x>> \in R)
  BY <1>1, <1>2, WFMin
<1>5. x # 0 /\ x \in Nat
  OBVIOUS
<1>6. x - 1 \in Nat /\ x - 1 < x /\ (x - 1) + 1 = x
  BY <1>5
<1>7. x - 1 \notin S
  BY <1>6
<1>. QED
  BY <1>3, <1>4, <1>5, <1>6, <1>7, Zenon

\* What a turn of the loop at slot q makes of h.
Kept(R, key, h, q) == IF q \in R /\ (h = LoopNoProc \/ key[q] < key[h]) THEN q ELSE h

\* f lists the values of h over the turns of the loop.
Turns(R, key, h, first, last, f) ==
  f = [q \in first - 1 .. last |-> IF q = first - 1 THEN h ELSE Kept(R, key, f[q - 1], q)]

\* The recursive definition of the loop has a solution.
LEMMA TurnsExist ==
  ASSUME NEW R, NEW key, NEW h, NEW first \in Int, NEW last \in Int, last >= first - 1
  PROVE  \E f : Turns(R, key, h, first, last, f)
<1>. DEFINE S == {n \in Nat : \E f : Turns(R, key, h, first, first - 1 + n, f)}
<1>1. 0 \in S
  <2>1. Turns(R, key, h, first, first - 1 + 0, [q \in first - 1 .. first - 1 + 0 |-> h])
    BY DEF Turns
  <2>. QED
    BY <2>1
<1>2. ASSUME NEW n \in Nat, n \in S
      PROVE  n + 1 \in S
  <2>1. PICK f : Turns(R, key, h, first, first - 1 + n, f)
    BY <1>2
  <2>. DEFINE a == first - 1
              b == first - 1 + n
              g == [q \in a .. b + 1 |-> IF q \in a .. b THEN f[q] ELSE Kept(R, key, f[b], b + 1)]
  <2>2. a \in Int /\ b \in Int /\ a <= b /\ first - 1 + (n + 1) = b + 1
    OBVIOUS
  <2>3. \A q \in a .. b : f[q] = IF q = a THEN h ELSE Kept(R, key, f[q - 1], q)
    BY <2>1 DEF Turns
  <2>. HIDE DEF a, b
  <2>4. ASSUME NEW q \in a .. b + 1
        PROVE  g[q] = IF q = a THEN h ELSE Kept(R, key, g[q - 1], q)
    <3>1. CASE q = a
      BY <3>1, <2>2, <2>3
    <3>2. CASE q # a /\ q # b + 1
      <4>1. q \in a .. b /\ q - 1 \in a .. b
        BY <3>2, <2>2
      <4>. QED
        BY <4>1, <3>2, <2>2, <2>3
    <3>3. CASE q = b + 1
      <4>1. q \notin a .. b /\ q - 1 = b /\ b \in a .. b /\ b \in a .. b + 1 /\ q # a
        BY <3>3, <2>2
      <4>. QED
        BY <4>1, <3>3
    <3>. QED
      BY <3>1, <3>2, <3>3, Zenon
  <2>5. g = [q \in a .. b + 1 |-> IF q = a THEN h ELSE Kept(R, key, g[q - 1], q)]
    BY <2>4, Zenon
  <2>. HIDE DEF g
  <2>6. Turns(R, key, h, first, first - 1 + (n + 1), g)
    BY <2>5, <2>2, Zenon DEF Turns, a
  <2>. QED
    BY <2>6
<1>. HIDE DEF S
<1>3. \A n \in Nat : n \in S
  BY <1>1, <1>2, SetInduction, Zenon
<1>4. last - (first - 1) \in Nat /\ first - 1 + (last - (first - 1)) = last
  OBVIOUS
<1>5. last - (first - 1) \in S
  BY <1>3, <1>4, Zenon
<1>. QED
  BY <1>4, <1>5, Zenon DEF S

LEMMA SearchTurns ==
  ASSUME NEW R, NEW key, NEW h, NEW first \in Int, NEW last \in Int, last >= first - 1
  PROVE  \E f : Turns(R, key, h, first, last, f) /\ Search(R, key, h, first, last) = f[last]
<1>. DEFINE F == CHOOSE f : Turns(R, key, h, first, last, f)
<1>1. Turns(R, key, h, first, last, F)
  BY TurnsExist, Zenon
<1>2. Search(R, key, h, first, last) = F[last]
  BY Zenon DEF Search, Turns, Kept
<1>. QED
  BY <1>1, <1>2, Zenon

\* r is what the loop shall keep of h and the members of R up to m.
Found(R, key, h, first, m, r) ==
  /\ r = h \/ (r \in R /\ r \in first .. m)
  /\ h # LoopNoProc => key[r] <= key[h]
  /\ r # h => h = LoopNoProc \/ key[r] < key[h]
  /\ r = LoopNoProc => R \cap first .. m = {}
  /\ \A q \in R \cap first .. m : key[r] <= key[q] /\ (q < r /\ r # h => key[r] < key[q])

LEMMA SearchFinds ==
  ASSUME NEW R \in SUBSET Nat, NEW key, \A q \in R : key[q] \in Nat,
         NEW h \in Int, h = LoopNoProc \/ (h \in R /\ h \in Nat),
         NEW first \in Nat, NEW last \in Int, last >= first - 1
  PROVE  Found(R, key, h, first, last, Search(R, key, h, first, last))
<1>1. PICK f : Turns(R, key, h, first, last, f) /\ Search(R, key, h, first, last) = f[last]
  BY SearchTurns
<1>2. \A q \in first - 1 .. last : f[q] = IF q = first - 1 THEN h ELSE Kept(R, key, f[q - 1], q)
  BY <1>1 DEF Turns
<1>. DEFINE S == {n \in Nat : first - 1 + n <= last =>
                               Found(R, key, h, first, first - 1 + n, f[first - 1 + n])}
<1>3. 0 \in S
  <2>1. f[first - 1 + 0] = h
    BY <1>2
  <2>2. R \cap first .. first - 1 + 0 = {} /\ (h # LoopNoProc => key[h] <= key[h])
    OBVIOUS
  <2>3. Found(R, key, h, first, first - 1 + 0, h)
    BY <2>2, Zenon DEF Found
  <2>. QED
    BY <2>1, <2>3
<1>4. ASSUME NEW n \in Nat, n \in S
      PROVE  n + 1 \in S
  <2>. DEFINE m == first - 1 + n
              k == f[m]
              r == f[m + 1]
  <2>1. SUFFICES ASSUME m + 1 <= last
                 PROVE  Found(R, key, h, first, m + 1, r)
    BY first - 1 + (n + 1) = m + 1
  <2>2. m \in Int /\ m >= first - 1 /\ m + 1 \in Nat /\ m + 1 # first - 1
        /\ m + 1 \in first - 1 .. last /\ (m + 1) - 1 = m /\ m + 1 \in first .. m + 1
    BY <2>1
  <2>3. Found(R, key, h, first, m, k)
    BY <1>4, <2>1
  <2>4. r = Kept(R, key, k, m + 1)
    BY <1>2, <2>2
  <2>5. \A q : q \in first .. m + 1 <=> q \in first .. m \/ q = m + 1
    BY <2>2
  <2>. HIDE DEF m, k, r
  <2>6. k = LoopNoProc \/ (k \in R /\ k \in Nat /\ key[k] \in Nat)
    BY <2>3 DEF Found
  <2>7. h # LoopNoProc => k # LoopNoProc /\ key[h] \in Nat
    BY <2>3 DEF Found, LoopNoProc
  <2>8. CASE m + 1 \in R /\ (k = LoopNoProc \/ key[m + 1] < key[k])
    <3>1. r = m + 1 /\ key[r] \in Nat /\ r \in R
      BY <2>8, <2>4 DEF Kept
    <3>2. r # LoopNoProc
      BY <3>1, <2>2 DEF LoopNoProc
    <3>3. h # LoopNoProc => key[r] < key[h]
      BY <2>3, <2>6, <2>7, <2>8, <3>1 DEF Found
    <3>4. ASSUME NEW q \in R \cap first .. m + 1
          PROVE  key[r] <= key[q] /\ (q < r /\ r # h => key[r] < key[q])
      <4>1. CASE q = m + 1
        BY <4>1, <3>1
      <4>2. CASE q \in first .. m
        <5>1. k # LoopNoProc /\ key[k] <= key[q]
          BY <4>2, <2>3 DEF Found
        <5>2. key[q] \in Nat /\ key[k] \in Nat
          BY <2>6, <5>1
        <5>. QED
          BY <5>1, <5>2, <2>8, <3>1
      <4>. QED
        BY <4>1, <4>2, <2>5
    <3>5. key[r] <= key[h] \/ h = LoopNoProc
      BY <3>1, <3>3, <2>7
    <3>. QED
      BY <3>1, <3>2, <3>3, <3>4, <3>5, <2>2, Zenon DEF Found
  <2>9. CASE ~(m + 1 \in R /\ (k = LoopNoProc \/ key[m + 1] < key[k]))
    <3>1. r = k
      BY <2>9, <2>4 DEF Kept
    <3>2. ASSUME m + 1 \in R
          PROVE  k # LoopNoProc /\ key[k] <= key[m + 1] /\ ~(m + 1 < k /\ k # h)
      <4>1. k # LoopNoProc /\ ~(key[m + 1] < key[k]) /\ key[k] \in Nat /\ key[m + 1] \in Nat
        BY <3>2, <2>9, <2>6
      <4>2. k # h => k \in first .. m
        BY <2>3 DEF Found
      <4>3. k # h => ~(m + 1 < k)
        BY <4>2, <2>2
      <4>. QED
        BY <4>1, <4>3
    <3>3. r = LoopNoProc => R \cap first .. m + 1 = {}
      BY <3>1, <3>2, <2>3, <2>5, Zenon DEF Found
    <3>4. ASSUME NEW q \in R \cap first .. m + 1
          PROVE  key[r] <= key[q] /\ (q < r /\ r # h => key[r] < key[q])
      BY <3>1, <3>2, <2>3, <2>5, Zenon DEF Found
    <3>5. r = h \/ (r \in R /\ r \in first .. m + 1)
      BY <3>1, <2>3, <2>5, Zenon DEF Found
    <3>. QED
      BY <3>1, <3>3, <3>4, <3>5, <2>3, Zenon DEF Found
  <2>. QED
    BY <2>8, <2>9, Zenon
<1>. HIDE DEF S
<1>5. \A n \in Nat : n \in S
  BY <1>3, <1>4, SetInduction, Zenon
<1>6. last - (first - 1) \in Nat /\ first - 1 + (last - (first - 1)) = last /\ last <= last
  OBVIOUS
<1>7. last - (first - 1) \in S
  BY <1>5, <1>6, Zenon
<1>. QED
  BY <1>1, <1>6, <1>7, Zenon DEF S

\* The loop of FCFS finds a process of least creation time.
LEMMA OldestFinds ==
  ASSUME NEW R \in SUBSET LoopSlots, NEW time \in [LoopSlots -> Nat], NEW q \in R
  PROVE  time[Oldest(R, time)] <= time[q]
<1>1. R \in SUBSET Nat /\ (\A x \in R : time[x] \in Nat) /\ LoopNoProc \in Int
      /\ 0 \in Nat /\ LoopNPROC - 1 \in Int /\ LoopNPROC - 1 >= 0 - 1
      /\ q \in R \cap 0 .. LoopNPROC - 1
  BY LoopAssumption DEF LoopSlots, LoopNoProc
<1>2. Found(R, time, LoopNoProc, 0, LoopNPROC - 1, Oldest(R, time))
  BY <1>1, SearchFinds, Zenon DEF Oldest
<1>. QED
  BY <1>1, <1>2, Zenon DEF Found

\* The two inner loops of PBS find a process of least priority and, of several, the
\* first one from p on, round the table.
LEMMA LowestFinds ==
  ASSUME NEW R \in SUBSET LoopSlots, NEW prio \in [LoopSlots -> Nat], NEW p \in R, NEW q \in R
  PROVE  LET r == Lowest(R, prio, p)
         IN  /\ r \in R
             /\ prio[r] < prio[q] \/ (prio[r] = prio[q] /\ MetFirst(p, r, q))
<1>. DEFINE last == LoopNPROC - 1
            k == Search(R, prio, p, p + 1, last)
            r == Lowest(R, prio, p)
<1>1. /\ R \in SUBSET Nat /\ (\A x \in R : prio[x] \in Nat) /\ LoopNoProc \in Int /\ p # LoopNoProc
      /\ p \in Int /\ p \in Nat /\ last \in Int /\ p + 1 \in Nat /\ last >= (p + 1) - 1
      /\ 0 \in Nat /\ p - 1 \in Int /\ p - 1 >= 0 - 1
      /\ q \in 0 .. last /\ LoopNoProc \notin R
  BY LoopAssumption DEF LoopSlots, LoopNoProc
<1>2. Found(R, prio, p, p + 1, last, k)
  BY <1>1, SearchFinds, Zenon
<1>. HIDE DEF last
<1>3. k \in R /\ k \in Nat /\ k \in Int /\ (k = p \/ k \in p + 1 .. last)
  <2>. HIDE DEF k
  <2>1. k \in R /\ (k = p \/ k \in p + 1 .. last)
    BY <1>2, Zenon DEF Found
  <2>. QED
    BY <1>1, <2>1
<1>4. Found(R, prio, k, 0, p - 1, Search(R, prio, k, 0, p - 1))
  <2>. HIDE DEF k
  <2>. QED
    BY <1>1, <1>3, SearchFinds, Zenon
<1>5. r = Search(R, prio, k, 0, p - 1)
  BY Zenon DEF Lowest, last
<1>. HIDE DEF k, r
<1>6. Found(R, prio, k, 0, p - 1, r)
  BY <1>4, <1>5, Zenon
<1>7. r \in R /\ (r = k \/ r \in 0 .. p - 1) /\ prio[r] <= prio[k] /\ (r # k => prio[r] < prio[k])
  BY <1>1, <1>3, <1>6, Zenon DEF Found
<1>8. prio[r] \in Nat /\ prio[k] \in Nat /\ prio[q] \in Nat /\ prio[p] \in Nat /\ r \in Nat /\ q \in Nat
  BY <1>1, <1>3, <1>7
<1>9. CASE q \in p + 1 .. last
  <2>1. prio[k] <= prio[q] /\ (q < k /\ k # p => prio[k] < prio[q])
    BY <1>2, <1>9, Zenon DEF Found
  <2>. QED
    BY <2>1, <1>1, <1>3, <1>7, <1>8, <1>9 DEF MetFirst, r
<1>10. CASE q = p
  <2>1. prio[k] <= prio[p] /\ (k # p => prio[k] < prio[p])
    BY <1>1, <1>2, Zenon DEF Found
  <2>. QED
    BY <2>1, <1>1, <1>3, <1>7, <1>8, <1>10 DEF MetFirst, r
<1>11. CASE q \in 0 .. p - 1
  <2>1. prio[r] <= prio[q] /\ (q < r /\ r # k => prio[r] < prio[q])
    BY <1>6, <1>11, Zenon DEF Found
  <2>. QED
    BY <2>1, <1>1, <1>3, <1>7, <1>8, <1>11 DEF MetFirst, r
<1>12. q \in p + 1 .. last \/ q = p \/ q \in 0 .. p - 1
  BY <1>1, <1>8
<1>. QED
  BY <1>9, <1>10, <1>11, <1>12, Zenon

\* The step property of PicksFirst.
FirstPicked ==
  \A c \in LoopCPUs, p, q \in LoopSlots :
    lcproc[c] = LoopNoProc /\ lcproc'[c] = p /\ pstate[q] = "RUNNABLE" =>
      /\ policy = "PBS" => \/ priority[p] < priority[q]
                           \/ priority[p] = priority[q] /\ MetFirst(Start(c), p, q)
      /\ policy = "FCFS" => ctime[p] <= ctime[q]

LEMMA PickPicksFirst ==
  ASSUME LoopInv, NEW c \in LoopCPUs, Pick(c)
  PROVE  FirstPicked
<1>1. PICK h \in Runnable : Chosen(c, h) /\ lcproc' = [lcproc EXCEPT ![c] = h]
  BY Zenon DEF Pick
<1>2. SUFFICES ASSUME NEW d \in LoopCPUs, NEW p \in LoopSlots, NEW q \in LoopSlots,
                      lcproc[d] = LoopNoProc, lcproc'[d] = p, pstate[q] = "RUNNABLE"
               PROVE  /\ policy = "PBS" => \/ priority[p] < priority[q]
                                           \/ priority[p] = priority[q] /\ MetFirst(Start(d), p, q)
                      /\ policy = "FCFS" => ctime[p] <= ctime[q]
  BY Zenon DEF FirstPicked
<1>3. p # LoopNoProc
  BY LoopAssumption DEF LoopSlots, LoopNoProc
<1>4. d = c /\ p = h
  BY <1>1, <1>2, <1>3, Zenon DEF LoopInv, LoopTypeOK
<1>5. Runnable \in SUBSET LoopSlots /\ q \in Runnable /\ p \in Runnable
  BY <1>1, <1>2, <1>4, Zenon DEF Runnable
<1>6. priority \in [LoopSlots -> Nat] /\ ctime \in [LoopSlots -> Nat]
  BY Zenon DEF LoopInv, LoopTypeOK
<1>7. ASSUME policy = "FCFS" PROVE ctime[p] <= ctime[q]
  <2>1. p = Oldest(Runnable, ctime)
    BY <1>1, <1>4, <1>7 DEF Chosen
  <2>. QED
    BY <2>1, <1>5, <1>6, OldestFinds, Zenon
<1>8. ASSUME policy = "PBS"
      PROVE  \/ priority[p] < priority[q]
             \/ priority[p] = priority[q] /\ MetFirst(Start(d), p, q)
  <2>1. PICK x \in LoopSlots : NextInPass(c, x) /\ p = Lowest(Runnable, priority, x)
    BY <1>1, <1>4, <1>8 DEF Chosen
  <2>2. x \in Runnable /\ x >= Start(c) /\ \A y \in Runnable : y >= Start(c) => x <= y
    BY <2>1, Zenon DEF NextInPass
  <2>3. priority[p] < priority[q] \/ (priority[p] = priority[q] /\ MetFirst(x, p, q))
    BY <2>1, <2>2, <1>5, <1>6, LowestFinds, Zenon
  <2>4. Start(c) \in Nat /\ p \in Nat /\ q \in Nat /\ x \in Nat
    BY LoopAssumption DEF Start, LoopInv, LoopTypeOK, LoopSlots
  <2>5. MetFirst(x, p, q) => MetFirst(Start(c), p, q)
    BY <2>2, <2>4, <1>5 DEF MetFirst
  <2>. QED
    BY <2>3, <2>5, <1>4, Zenon
<1>. QED
  BY <1>7, <1>8, Zenon

LEMMA NextPicksFirst ==
  ASSUME LoopInv, LoopNext
  PROVE  FirstPicked
<1>1. ASSUME NEW c \in LoopCPUs, Pick(c)
      PROVE  FirstPicked
  BY <1>1, PickPicksFirst, Zenon
<1>2. ASSUME NEW c \in LoopCPUs, NEW p \in LoopSlots, NEW s \in States, Leave(c, p, s)
      PROVE  FirstPicked
  <2>1. \A d \in LoopCPUs : lcproc'[d] = LoopNoProc \/ lcproc'[d] = lcproc[d]
    BY <1>2, Zenon DEF Leave, LoopInv, LoopTypeOK
  <2>2. LoopNoProc \notin LoopSlots
    BY LoopAssumption DEF LoopSlots, LoopNoProc
  <2>. QED
    BY <2>1, <2>2, Zenon DEF FirstPicked
<1>3. ASSUME NEW c \in LoopCPUs,
             LoopTimerYield(c) \/ IntrYield(c) \/ LoopSleep(c) \/ LoopExit(c)
      PROVE  FirstPicked
  <2>1. PICK p \in LoopSlots, s \in States : Leave(c, p, s)
    BY <1>3, Zenon DEF LoopTimerYield, IntrYield, LoopSleep, LoopExit, States
  <2>. QED
    BY <2>1, <1>2, Zenon
<1>4. CASE UNCHANGED lcproc
  <2>1. LoopNoProc \notin LoopSlots
    BY LoopAssumption DEF LoopSlots, LoopNoProc
  <2>. QED
    BY <1>4, <2>1, Zenon DEF FirstPicked
<1>. QED
  BY <1>1, <1>3, <1>4, Zenon DEF LoopNext, EndPass, LoopWakeup, Reap, LoopAllocproc, LoopFork,
                                 LoopForkFail, SetPriority, Tick

\* Whatever slot the pass over the table has reached, the two inner loops of PBS, from
\* p to the end and from 0 to p, end with a process of least priority, the first one of
\* these from the place of the pass on; and the loop of FCFS ends with one created
\* first.  For any number of slots, by induction on the turns of a loop.
THEOREM LoopPicksFirst == LoopSpec => PicksFirst
<1>1. LoopInv /\ [LoopNext]_LoopVars => [FirstPicked]_LoopVars
  BY NextPicksFirst, Zenon
<1>. QED
  BY <1>1, LoopInvariant, PTL DEF LoopSpec, PicksFirst, FirstPicked

-----------------------------------------------------------------------------
(* The rings of the multi-level queue. *)

RingsType ==
  [face : [Levels -> Cells \cup {-1}], back : [Levels -> Cells \cup {-1}],
   queue : [Levels -> [Cells -> Procs \cup {Null}]]]

\* Ring i of R holds the list s from the cell face on, round the end of the ring.
Holds(R, i, s) ==
  /\ s = <<>> => R.face[i] = -1 /\ R.back[i] = -1
  /\ s # <<>> =>
       /\ R.face[i] \in Cells /\ Len(s) <= N
       /\ R.back[i] = (R.face[i] + Len(s) - 1) % N
       /\ \A k \in 1 .. Len(s) : R.queue[i][(R.face[i] + k - 1) % N] = s[k]

RingInv ==
  /\ rings \in RingsType
  /\ fifo \in [Levels -> Seq(Procs)]
  /\ \A i \in Levels : Holds(rings, i, fifo[i])
  /\ \A i \in Levels : \A j, k \in 1 .. Len(fifo[i]) : fifo[i][j] = fifo[i][k] => j = k

LEMMA NPos == N \in Nat /\ N > 0 /\ N \in Nat \ {0}
  BY QueueAssumption

\* Cells that are less than a turn apart are different ones.
LEMMA OtherCell ==
  ASSUME NEW f \in Int, NEW j \in 0 .. N - 1, NEW k \in 0 .. N - 1, (f + j) % N = (f + k) % N
  PROVE  j = k
<1>. QED
  BY NPos, ModApart, Zenon

\* The number of entries is the length of the list.
LEMMA LengthIs ==
  ASSUME NEW R \in RingsType, NEW i \in Levels, NEW s \in Seq(Procs), Holds(R, i, s)
  PROVE  Length(R, i) = Len(s)
<1>1. CASE s = <<>>
  BY <1>1, Zenon DEF Holds, Length, IsEmpty
<1>2. CASE s # <<>>
  <2>. DEFINE f == R.face[i]
              b == R.back[i]
              m == Len(s) - 1
  <2>1. f \in Cells /\ Len(s) \in 1 .. N /\ b = (f + Len(s) - 1) % N
    BY <1>2 DEF Holds
  <2>2. m \in 0 .. N - 1 /\ f \in Int /\ f \in 0 .. N - 1 /\ f + Len(s) - 1 = f + m
    BY <2>1, NPos DEF Cells
  <2>. HIDE DEF f, b, m
  <2>3. (b - f) % N = m
    <3>. DEFINE e == f + m
    <3>1. -f \in Int /\ e \in Int
      BY <2>2, NPos
    <3>2. ((e % N) + (-f)) % N = (e + (-f)) % N
      <4>. HIDE DEF e
      <4>. QED
        BY <3>1, NPos, ModPlus, Zenon
    <3>3. b = e % N
      BY <2>1, <2>2, Zenon
    <3>4. b \in 0 .. N - 1
      <4>. HIDE DEF e
      <4>. QED
        BY <3>1, <3>3, NPos, ModRange, Zenon
    <3>5. b + (-f) = b - f /\ e + (-f) = m
      BY <2>2, <3>4, NPos
    <3>6. m % N = m
      <4>1. m = N * 0 + m /\ m \in Int /\ 0 \in Int
        BY <2>2, NPos
      <4>. QED
        BY <2>2, <4>1, NPos, ModUnique
    <3>. QED
      BY <3>2, <3>3, <3>5, <3>6, Zenon
  <2>4. f # -1
    BY <2>2, NPos
  <2>5. Length(R, i) = m + 1
    BY <2>3, <2>4, Zenon DEF Length, IsEmpty, f, b
  <2>. QED
    BY <2>1, <2>5 DEF m
<1>. QED
  BY <1>1, <1>2, Zenon

LEMMA EntriesAre ==
  ASSUME NEW R \in RingsType, NEW i \in Levels, NEW s \in Seq(Procs), Holds(R, i, s)
  PROVE  Entries(R, i) = s
<1>1. Length(R, i) = Len(s) /\ Len(s) \in Nat
  BY LengthIs
<1>2. \A k \in 1 .. Len(s) : R.queue[i][CellOf(R, i, k - 1)] = s[k]
  <2>. SUFFICES ASSUME NEW k \in 1 .. Len(s) PROVE R.queue[i][CellOf(R, i, k - 1)] = s[k]
    BY Zenon
  <2>1. s # <<>>
    OBVIOUS
  <2>2. R.face[i] \in Int /\ R.queue[i][(R.face[i] + k - 1) % N] = s[k]
    BY <2>1, NPos DEF Holds, Cells
  <2>3. R.face[i] + (k - 1) = R.face[i] + k - 1
    BY <2>2, Zenon
  <2>. QED
    BY <2>2, <2>3, Zenon DEF CellOf
<1>3. Entries(R, i) = [k \in 1 .. Len(s) |-> s[k]]
  BY <1>1, <1>2, Zenon DEF Entries
<1>4. s = [k \in 1 .. Len(s) |-> s[k]]
  OBVIOUS
<1>. QED
  BY <1>3, <1>4, Zenon

\* A cell and the one k cells on.
LEMMA CellsAre ==
  ASSUME NEW f \in Cells
  PROVE  /\ f \in Int /\ f \in 0 .. N - 1 /\ (f + 0) % N = f
         /\ \A k \in Int : (f + k) % N \in Cells
         /\ \A k \in Int : (((f + 1) % N) + k) % N = (f + (k + 1)) % N
<1>1. f \in Int /\ f \in 0 .. N - 1
  BY NPos DEF Cells
<1>2. (f + 0) % N = f
  <2>1. f + 0 = N * 0 + f /\ f + 0 \in Int /\ 0 \in Int
    BY <1>1, NPos
  <2>. QED
    BY <1>1, <2>1, NPos, ModUnique, Zenon
<1>3. ASSUME NEW k \in Int PROVE (f + k) % N \in Cells
  <2>1. f + k \in Int
    BY <1>1
  <2>. QED
    BY <2>1, NPos, ModRange, Zenon DEF Cells
<1>4. ASSUME NEW k \in Int PROVE (((f + 1) % N) + k) % N = (f + (k + 1)) % N
  <2>1. f + 1 \in Int /\ (f + 1) + k = f + (k + 1)
    BY <1>1
  <2>2. (((f + 1) % N) + k) % N = ((f + 1) + k) % N
    BY <2>1, NPos, ModPlus, Zenon
  <2>. QED
    BY <2>1, <2>2, Zenon
<1>. QED
  BY <1>1, <1>2, <1>3, <1>4, Zenon

\* What a ring that is not empty looks like.
LEMMA FilledRing ==
  ASSUME NEW R \in RingsType, NEW a \in Levels, NEW s \in Seq(Procs), s # <<>>, Holds(R, a, s)
  PROVE  /\ R.face[a] \in Cells /\ Len(s) \in 1 .. N
         /\ R.back[a] = (R.face[a] + (Len(s) - 1)) % N
         /\ \A k \in 1 .. Len(s) : R.queue[a][(R.face[a] + (k - 1)) % N] = s[k]
         /\ R.face[a] = R.back[a] <=> Len(s) = 1
<1>1. /\ R.face[a] \in Cells /\ Len(s) \in 1 .. N
      /\ R.back[a] = (R.face[a] + Len(s) - 1) % N
      /\ \A k \in 1 .. Len(s) : R.queue[a][(R.face[a] + k - 1) % N] = s[k]
  BY DEF Holds
<1>2. R.face[a] \in Int /\ (R.face[a] + 0) % N = R.face[a]
  BY <1>1, CellsAre, Zenon
<1>. DEFINE f == R.face[a]
<1>. HIDE DEF f
<1>3. \A k \in Int : f + k - 1 = f + (k - 1)
  BY <1>2, Zenon DEF f
<1>4. R.back[a] = (R.face[a] + (Len(s) - 1)) % N
  BY <1>1, <1>3, Zenon DEF f
<1>5. ASSUME NEW k \in 1 .. Len(s) PROVE R.queue[a][(R.face[a] + (k - 1)) % N] = s[k]
  <2>1. f + k - 1 = f + (k - 1)
    BY <1>3, Zenon
  <2>. QED
    BY <1>1, <2>1, Zenon DEF f
<1>6. Len(s) = 1 => R.face[a] = R.back[a]
  <2>1. Len(s) = 1 => Len(s) - 1 = 0
    OBVIOUS
  <2>. QED
    BY <1>2, <1>4, <2>1, Zenon
<1>7. ASSUME R.face[a] = R.back[a] PROVE Len(s) = 1
  <2>1. (f + 0) % N = (f + (Len(s) - 1)) % N
    BY <1>2, <1>4, <1>7, Zenon DEF f
  <2>2. 0 \in 0 .. N - 1 /\ Len(s) - 1 \in 0 .. N - 1 /\ f \in Int
    BY <1>1, <1>2, NPos DEF f
  <2>3. 0 = Len(s) - 1
    BY <2>1, <2>2, OtherCell, Zenon
  <2>. QED
    BY <1>1, <2>3
<1>. QED
  BY <1>1, <1>4, <1>5, <1>6, <1>7, Zenon

\* The other rings are left alone.
Alone(R, S, a) ==
  \A i \in Levels \ {a} :
    S.face[i] = R.face[i] /\ S.back[i] = R.back[i] /\ S.queue[i] = R.queue[i]

\* The tail of pop and remove takes the first entry off.
LEMMA AdvanceDoes ==
  ASSUME NEW R \in RingsType, NEW a \in Levels, NEW s \in Seq(Procs), s # <<>>, Holds(R, a, s)
  PROVE  /\ Advance(R, a) \in RingsType /\ Alone(R, Advance(R, a), a)
         /\ Holds(Advance(R, a), a, Tail(s))
<1>. DEFINE f == R.face[a]
            F == Forget(R, a)
            S == Advance(R, a)
<1>1. /\ f \in Cells /\ Len(s) \in 1 .. N
      /\ R.back[a] = (f + (Len(s) - 1)) % N
      /\ \A k \in 1 .. Len(s) : R.queue[a][(f + (k - 1)) % N] = s[k]
      /\ f = R.back[a] <=> Len(s) = 1
  BY FilledRing, Zenon
<1>2. /\ F \in RingsType /\ F.face = R.face /\ F.back = R.back
      /\ \A i \in Levels \ {a} : F.queue[i] = R.queue[i]
      /\ \A c \in Cells : c # f => F.queue[a][c] = R.queue[a][c]
  BY <1>1, Zenon DEF Forget, RingsType
<1>3. Tail(s) \in Seq(Procs) /\ Len(Tail(s)) = Len(s) - 1
      /\ \A k \in 1 .. Len(s) - 1 : Tail(s)[k] = s[k + 1]
  OBVIOUS
<1>4. CASE f = R.back[a]
  <2>1. S = [F EXCEPT !.face[a] = -1, !.back[a] = -1]
    BY <1>4, Zenon DEF Advance
  <2>2. S \in RingsType /\ Alone(R, S, a) /\ S.face[a] = -1 /\ S.back[a] = -1
    <3>. HIDE DEF F, S
    <3>1. /\ S.face = [F.face EXCEPT ![a] = -1] /\ S.back = [F.back EXCEPT ![a] = -1]
          /\ S.queue = F.queue /\ S = [face |-> S.face, back |-> S.back, queue |-> S.queue]
      BY <1>2, <2>1, Zenon DEF RingsType
    <3>2. S \in RingsType
      <4>1. /\ S.face \in [Levels -> Cells \cup {-1}] /\ S.back \in [Levels -> Cells \cup {-1}]
            /\ S.queue \in [Levels -> [Cells -> Procs \cup {Null}]]
        BY <1>2, <3>1 DEF RingsType
      <4>. QED
        BY <3>1, <4>1, Zenon DEF RingsType
    <3>3. Alone(R, S, a) /\ S.face[a] = -1 /\ S.back[a] = -1
      BY <1>2, <3>1 DEF RingsType, Alone
    <3>. QED
      BY <3>2, <3>3, Zenon
  <2>3. Tail(s) = <<>>
    <3>1. Len(s) = 1
      BY <1>1, <1>4, Zenon
    <3>. QED
      BY <3>1, TailOfOne, Zenon
  <2>. QED
    BY <2>2, <2>3, Zenon DEF Holds
<1>5. CASE f # R.back[a]
  <2>. DEFINE g == (f + 1) % N
  <2>1. S = [F EXCEPT !.face[a] = (@ + 1) % N]
    BY <1>5, Zenon DEF Advance
  <2>2. g \in Cells
    BY <1>1, CellsAre
  <2>3. S = [F EXCEPT !.face[a] = g]
    <3>1. F.face[a] = f
      BY <1>2, Zenon
    <3>. HIDE DEF F, f
    <3>. QED
      BY <2>1, <3>1, Zenon DEF g
  <2>4. S \in RingsType /\ Alone(R, S, a) /\ S.face[a] = g /\ S.back[a] = R.back[a]
        /\ S.queue[a] = F.queue[a]
    <3>. HIDE DEF F, g, S
    <3>. QED
      BY <1>2, <2>2, <2>3, Zenon DEF RingsType, Alone
  <2>5. Len(Tail(s)) \in 1 .. N - 1 /\ Tail(s) # <<>>
    BY <1>1, <1>3, <1>5, NPos
  <2>6. S.back[a] = (g + Len(Tail(s)) - 1) % N
    <3>. DEFINE m == Len(s) - 2
    <3>1. m \in Int /\ m + 1 = Len(s) - 1 /\ Len(Tail(s)) - 1 = m
      BY <1>1, <1>3
    <3>2. (((f + 1) % N) + m) % N = (f + (m + 1)) % N
      BY <1>1, <3>1, CellsAre, Zenon
    <3>3. g + Len(Tail(s)) - 1 = g + m
      <4>1. g \in Int
        BY <2>2, CellsAre, Zenon
      <4>. HIDE DEF g
      <4>. QED
        BY <1>1, <1>3, <4>1
    <3>. QED
      BY <1>1, <2>4, <3>1, <3>2, <3>3, Zenon
  <2>7. ASSUME NEW k \in 1 .. Len(Tail(s)) PROVE S.queue[a][(g + k - 1) % N] = Tail(s)[k]
    <3>. DEFINE c == (f + k) % N
    <3>1. k - 1 \in Int /\ (k - 1) + 1 = k /\ k \in Int /\ k \in 0 .. N - 1 /\ 0 \in 0 .. N - 1
          /\ k # 0 /\ k + 1 \in 1 .. Len(s) /\ (k + 1) - 1 = k
      BY <1>1, <1>3, NPos
    <3>2. (((f + 1) % N) + (k - 1)) % N = c
      <4>1. (((f + 1) % N) + (k - 1)) % N = (f + ((k - 1) + 1)) % N
        BY <1>1, <3>1, CellsAre, Zenon
      <4>. QED
        BY <3>1, <4>1, Zenon
    <3>3. g + k - 1 = g + (k - 1)
      <4>1. g \in Int
        BY <2>2, CellsAre, Zenon
      <4>. HIDE DEF g
      <4>. QED
        BY <4>1, Zenon
    <3>4. c \in Cells /\ f \in Int /\ (f + 0) % N = f
      <4>1. (f + k) % N \in Cells
        BY <1>1, <3>1, CellsAre, Zenon
      <4>. QED
        BY <1>1, <4>1, CellsAre, Zenon
    <3>5. c # f
      BY <3>1, <3>4, OtherCell, Zenon
    <3>6. F.queue[a][c] = R.queue[a][c]
      BY <1>2, <3>4, <3>5, Zenon
    <3>7. R.queue[a][c] = s[k + 1]
      BY <1>1, <3>1, Zenon
    <3>8. Tail(s)[k] = s[k + 1]
      BY <1>3, Zenon
    <3>. QED
      BY <2>4, <3>2, <3>3, <3>6, <3>7, <3>8, Zenon
  <2>8. Len(Tail(s)) <= N
    BY <1>1, <1>3, NPos
  <2>. HIDE DEF g, S
  <2>. QED
    BY <2>2, <2>4, <2>5, <2>6, <2>7, <2>8, Zenon DEF Holds, S
<1>. QED
  BY <1>4, <1>5, Zenon

\* The test of push for a full ring.
LEMMA FullIs ==
  ASSUME NEW R \in RingsType, NEW a \in Levels, NEW s \in Seq(Procs), s # <<>>, Holds(R, a, s)
  PROVE  Full(R, a) <=> Len(s) = N
<1>. DEFINE f == R.face[a]
            b == R.back[a]
            m == Len(s) - 1
<1>1. f \in Cells /\ Len(s) \in 1 .. N /\ b = (f + m) % N
  BY FilledRing, Zenon
<1>2. f \in Int /\ f \in 0 .. N - 1 /\ m \in 0 .. N - 1 /\ m \in Int /\ N - 1 \in 0 .. N - 1
  <2>1. f \in 0 .. N - 1 /\ N \in Nat /\ N > 0
    BY <1>1, NPos, CellsAre, Zenon
  <2>. HIDE DEF f
  <2>. QED
    BY <1>1, <2>1
<1>3. f >= 1 => (f + (N - 1)) % N = f - 1
  <2>. HIDE DEF f
  <2>1. f >= 1 => f - 1 \in 0 .. N - 1
    BY <1>2, NPos
  <2>2. f + (N - 1) = N * 1 + (f - 1) /\ f + (N - 1) \in Int /\ 1 \in Int
    BY <1>2, NPos
  <2>. QED
    BY <2>1, <2>2, NPos, ModUnique, Zenon
<1>4. f = 0 => (f + (N - 1)) % N = N - 1
  <2>. HIDE DEF f
  <2>1. f = 0 => f + (N - 1) = N * 0 + (N - 1) /\ f + (N - 1) \in Int /\ 0 \in Int
    BY NPos
  <2>. QED
    BY <1>2, <2>1, NPos, ModUnique, Zenon
<1>. HIDE DEF f, b, m
<1>5. (f = b + 1 \/ (f = 0 /\ b = N - 1)) => (f + m) % N = (f + (N - 1)) % N
  <2>1. b \in 0 .. N - 1
    BY <1>1, <1>2, CellsAre, Zenon DEF Cells
  <2>2. f = b + 1 => f >= 1 /\ f - 1 = b
    BY <1>2, <2>1, NPos
  <2>. QED
    BY <1>1, <1>3, <1>4, <2>2
<1>6. (f + m) % N = (f + (N - 1)) % N => m = N - 1
  BY <1>2, OtherCell, Zenon
<1>7. m = N - 1 => (f = b + 1 \/ (f = 0 /\ b = N - 1))
  <2>1. CASE f >= 1
    <3>1. m = N - 1 => b = f - 1
      BY <1>1, <1>3, <2>1, Zenon
    <3>. QED
      BY <1>2, <3>1
  <2>2. CASE f = 0
    BY <1>1, <1>4, <2>2, Zenon
  <2>. QED
    BY <1>2, <2>1, <2>2, NPos
<1>8. Full(R, a) <=> (f = b + 1 \/ (f = 0 /\ b = N - 1))
  BY Zenon DEF Full, f, b
<1>9. m = N - 1 <=> Len(s) = N
  BY <1>1, NPos DEF m
<1>. QED
  BY <1>5, <1>6, <1>7, <1>8, <1>9, Zenon

\* push appends.
LEMMA PushDoes ==
  ASSUME NEW R \in RingsType, NEW a \in Levels, NEW s \in Seq(Procs), Holds(R, a, s),
         NEW p \in Procs, Pushes(R, a, p)
  PROVE  /\ push(R, a, p) \in RingsType /\ Alone(R, push(R, a, p), a)
         /\ Holds(push(R, a, p), a, Append(s, p))
<1>. DEFINE last == (R.back[a] + 1) % N
            S == push(R, a, p)
            t == Append(s, p)
<1>1. S = [face |-> IF IsEmpty(R, a) THEN [R.face EXCEPT ![a] = 0] ELSE R.face,
           back |-> [R.back EXCEPT ![a] = last],
           queue |-> [R.queue EXCEPT ![a][last] = p]]
  BY Zenon DEF push
<1>2. t \in Seq(Procs) /\ Len(t) = Len(s) + 1 /\ t[Len(s) + 1] = p /\ t # <<>>
      /\ (\A k \in 1 .. Len(s) : t[k] = s[k]) /\ Len(s) \in Nat
  OBVIOUS
<1>3. 0 \in Cells
  BY NPos DEF Cells
<1>4. CASE s = <<>>
  <2>1. R.face[a] = -1 /\ R.back[a] = -1 /\ IsEmpty(R, a)
    BY <1>4, Zenon DEF Holds, IsEmpty
  <2>2. last = 0
    <3>1. -1 + 1 = 0 /\ 0 % N = 0
      BY NPos
    <3>. QED
      BY <2>1, <3>1, Zenon
  <2>. HIDE DEF last, S, t
  <2>3. S = [face |-> [R.face EXCEPT ![a] = 0], back |-> [R.back EXCEPT ![a] = 0],
             queue |-> [R.queue EXCEPT ![a][0] = p]]
    BY <1>1, <2>1, <2>2, Zenon
  <2>4. S \in RingsType /\ Alone(R, S, a) /\ S.face[a] = 0 /\ S.back[a] = 0 /\ S.queue[a][0] = p
    BY <1>3, <2>3, Zenon DEF RingsType, Alone
  <2>5. Len(t) = 1 /\ t[1] = p
    BY <1>2, <1>4
  <2>6. 0 % N = 0 /\ 1 <= N
    BY NPos
  <2>7. Holds(S, a, t)
    BY <1>2, <1>3, <2>4, <2>5, <2>6 DEF Holds
  <2>. QED
    BY <2>4, <2>7, Zenon DEF S, t
<1>5. CASE s # <<>>
  <2>. DEFINE f == R.face[a]
              L == Len(s)
  <2>1. /\ f \in Cells /\ L \in 1 .. N /\ R.back[a] = (f + (L - 1)) % N
        /\ \A k \in 1 .. L : R.queue[a][(f + (k - 1)) % N] = s[k]
    BY <1>5, FilledRing, Zenon
  <2>2. f \in Int /\ f \in 0 .. N - 1 /\ ~IsEmpty(R, a) /\ L \in Int /\ L - 1 \in Int
    BY <2>1, CellsAre, NPos DEF IsEmpty
  <2>3. L < N
    BY <1>5, <2>1, <2>2, FullIs, NPos DEF Pushes
  <2>4. last = (f + L) % N /\ last \in Cells
    <3>. DEFINE e == f + (L - 1)
    <3>1. e \in Int /\ e + 1 = f + L /\ 1 \in Int
      BY <2>2
    <3>. HIDE DEF e, f, L
    <3>2. ((e % N) + 1) % N = (e + 1) % N
      BY <3>1, NPos, ModPlus, Zenon
    <3>3. (f + L) % N \in Cells
      BY <2>1, <2>2, CellsAre, Zenon
    <3>4. last = ((e % N) + 1) % N
      BY <2>1, Zenon DEF e
    <3>. QED
      BY <3>1, <3>2, <3>3, <3>4, Zenon
  <2>. HIDE DEF last, S, t
  <2>5. S = [face |-> R.face, back |-> [R.back EXCEPT ![a] = last],
             queue |-> [R.queue EXCEPT ![a][last] = p]]
    BY <1>1, <2>2, Zenon
  <2>6. /\ S \in RingsType /\ Alone(R, S, a) /\ S.face[a] = f /\ S.back[a] = last
        /\ S.queue[a][last] = p
        /\ \A c \in Cells : c # last => S.queue[a][c] = R.queue[a][c]
    BY <2>4, <2>5, Zenon DEF RingsType, Alone
  <2>. HIDE DEF f, L
  <2>7. ASSUME NEW k \in 1 .. L + 1 PROVE S.queue[a][(f + k - 1) % N] = t[k]
    <3>1. f + k - 1 = f + (k - 1) /\ k - 1 \in Int /\ k - 1 \in 0 .. N - 1 /\ L \in 0 .. N - 1
      BY <2>1, <2>2, <2>3, NPos
    <3>2. CASE k = L + 1
      <4>1. k - 1 = L
        BY <2>2, <3>2
      <4>2. S.queue[a][(f + (k - 1)) % N] = p /\ t[k] = p
        BY <1>2, <2>4, <2>6, <3>2, <4>1, Zenon DEF L
      <4>. QED
        BY <3>1, <4>2, Zenon
    <3>3. CASE k \in 1 .. L
      <4>1. k - 1 # L
        BY <2>2, <3>3
      <4>2. (f + (k - 1)) % N # last
        BY <2>2, <2>4, <3>1, <4>1, OtherCell, Zenon
      <4>3. (f + (k - 1)) % N \in Cells
        BY <2>1, <3>1, CellsAre, Zenon
      <4>4. S.queue[a][(f + (k - 1)) % N] = s[k] /\ t[k] = s[k]
        BY <1>2, <2>1, <2>6, <3>3, <4>2, <4>3, Zenon DEF L
      <4>. QED
        BY <3>1, <4>4, Zenon
    <3>4. k = L + 1 \/ k \in 1 .. L
      BY <2>2
    <3>. QED
      BY <3>2, <3>3, <3>4, Zenon
  <2>8. S.back[a] = (S.face[a] + Len(t) - 1) % N
    <3>1. f + Len(t) - 1 = f + L
      BY <1>2, <2>2 DEF L
    <3>. QED
      BY <2>4, <2>6, <3>1, Zenon
  <2>9. Len(t) <= N /\ Len(t) = L + 1
    BY <1>2, <2>2, <2>3, NPos DEF L
  <2>10. Holds(S, a, t)
    BY <1>2, <2>1, <2>6, <2>7, <2>8, <2>9, Zenon DEF Holds
  <2>. QED
    BY <2>6, <2>10, Zenon DEF S, t
<1>. QED
  BY <1>4, <1>5, Zenon

\* The list without its k-th entry.
LEMMA CutOut ==
  ASSUME NEW S, NEW s \in Seq(S), NEW k \in 1 .. Len(s)
  PROVE  /\ Without(s, k) \in Seq(S) /\ Len(Without(s, k)) = Len(s) - 1
         /\ \A j \in 1 .. Len(s) - 1 : Without(s, k)[j] = IF j < k THEN s[j] ELSE s[j + 1]
<1>. DEFINE x == SubSeq(s, 1, k - 1)
            y == SubSeq(s, k + 1, Len(s))
            t == Without(s, k)
<1>1. x \in Seq(S) /\ Len(x) = k - 1 /\ \A j \in 1 .. k - 1 : x[j] = s[j]
  OBVIOUS
<1>2. y \in Seq(S) /\ Len(y) = Len(s) - k /\ \A j \in 1 .. Len(s) - k : y[j] = s[k + j]
  OBVIOUS
<1>3. t = x \o y
  BY Zenon DEF Without
<1>. HIDE DEF x, y, t
<1>4. /\ t \in Seq(S) /\ Len(t) = Len(x) + Len(y)
      /\ \A j \in 1 .. Len(x) : t[j] = x[j]
      /\ \A j \in 1 .. Len(y) : t[Len(x) + j] = y[j]
  <2>. DEFINE xy == x \o y
  <2>1. xy \in Seq(S) /\ Len(xy) = Len(x) + Len(y)
    BY <1>1, <1>2, Joined, Zenon
  <2>2. \A j \in 1 .. Len(x) : xy[j] = x[j]
    BY <1>1, <1>2, Joined
  <2>3. \A j \in 1 .. Len(y) : xy[Len(x) + j] = y[j]
    BY <1>1, <1>2, Joined
  <2>. HIDE DEF xy
  <2>4. t = xy
    BY <1>3, Zenon DEF xy
  <2>. QED
    BY <2>1, <2>2, <2>3, <2>4, Zenon
<1>5. ASSUME NEW j \in 1 .. Len(s) - 1 PROVE t[j] = IF j < k THEN s[j] ELSE s[j + 1]
  <2>1. CASE j < k
    BY <1>1, <1>4, <2>1
  <2>2. CASE ~(j < k)
    <3>. DEFINE i == j - (k - 1)
    <3>1. i \in 1 .. Len(s) - k /\ k + i = j + 1 /\ (k - 1) + i = j
      BY <2>2
    <3>. HIDE DEF i
    <3>2. t[j] = y[i]
      BY <1>1, <1>2, <1>4, <3>1, Zenon
    <3>. QED
      BY <1>2, <2>2, <3>1, <3>2, Zenon
  <2>. QED
    BY <2>1, <2>2, Zenon
<1>6. Len(t) = Len(s) - 1
  BY <1>1, <1>2, <1>4
<1>. QED
  BY <1>4, <1>5, <1>6, Zenon DEF t

\* remove takes out the entry that is p, wherever it is.
LEMMA RemoveDoes ==
  ASSUME NEW R \in RingsType, NEW a \in Levels, NEW s \in Seq(Procs), Holds(R, a, s),
         \A j, k \in 1 .. Len(s) : s[j] = s[k] => j = k,
         NEW h \in 1 .. Len(s)
  PROVE  /\ remove(R, a, s[h]) \in RingsType /\ Alone(R, remove(R, a, s[h]), a)
         /\ Holds(remove(R, a, s[h]), a, Without(s, h))
<1>. DEFINE f == R.face[a]
            L == Len(s)
            t == Without(s, h)
<1>1. s # <<>>
  OBVIOUS
<1>2. /\ f \in Cells /\ L \in 1 .. N /\ R.back[a] = (f + (L - 1)) % N
      /\ \A k \in 1 .. L : R.queue[a][(f + (k - 1)) % N] = s[k]
      /\ f = R.back[a] <=> L = 1
  BY <1>1, FilledRing
<1>3. /\ t \in Seq(Procs) /\ Len(t) = L - 1
      /\ \A j \in 1 .. L - 1 : t[j] = IF j < h THEN s[j] ELSE s[j + 1]
  BY CutOut, Zenon
<1>4. CASE f = R.back[a]
  <2>1. remove(R, a, s[h]) = Advance(R, a)
    BY <1>4, Zenon DEF remove
  <2>2. Tail(s) = <<>>
    <3>1. Len(s) = 1
      BY <1>2, <1>4, Zenon
    <3>. QED
      BY <3>1, TailOfOne, Zenon
  <2>3. t = <<>>
    <3>1. Len(t) = 0
      <4>1. Len(t) = L - 1 /\ L = 1
        BY <1>2, <1>3, <1>4, Zenon
      <4>2. 1 - 1 = 0
        OBVIOUS
      <4>. QED
        BY <4>1, <4>2, Zenon
    <3>. HIDE DEF L
    <3>. QED
      BY <1>3, <3>1
  <2>4. Holds(Advance(R, a), a, Tail(s)) /\ Advance(R, a) \in RingsType /\ Alone(R, Advance(R, a), a)
    BY <1>1, AdvanceDoes, Zenon
  <2>. QED
    BY <2>1, <2>2, <2>3, <2>4, Zenon
<1>5. CASE f # R.back[a]
  <2>. DEFINE At == {k \in 1 .. Length(R, a) : Entries(R, a)[k] = s[h]}
              first == CHOOSE x \in At : \A y \in At : x <= y
              Q == [R EXCEPT !.queue[a] = Shift(R, a, h - 1)]
              u == [k \in 1 .. L |-> IF k \in 2 .. h THEN s[k - 1] ELSE s[k]]
  <2>1. At = {h}
    <3>1. Entries(R, a) = s /\ Length(R, a) = L
      BY EntriesAre, LengthIs, Zenon
    <3>. QED
      BY <3>1, Zenon
  <2>2. first = h
    <3>1. h <= h
      OBVIOUS
    <3>. QED
      BY <2>1, <3>1
  <2>3. remove(R, a, s[h]) = Advance(Q, a)
    BY <1>5, <2>1, <2>2, Zenon DEF remove
  <2>4. f \in Int /\ f \in 0 .. N - 1
    BY <1>2, CellsAre, Zenon
  <2>. HIDE DEF f, L
  <2>5. u \in Seq(Procs) /\ Len(u) = L /\ u # <<>>
    <3>1. \A k \in 1 .. L : u[k] \in Procs
      BY <1>2 DEF L
    <3>2. u \in [1 .. L -> Procs]
      BY <3>1, Zenon
    <3>. HIDE DEF u
    <3>3. u \in Seq(Procs) /\ Len(u) = L
      BY <1>2, <3>2
    <3>. QED
      BY <1>2, <3>3
  \* After the shift entry k is what entry k - 1 was, up to the gap.
  <2>6. ASSUME NEW k \in 1 .. L
        PROVE  Shift(R, a, h - 1)[(f + (k - 1)) % N] = u[k]
    <3>. DEFINE c == (f + (k - 1)) % N
                d == (c - f) % N
    <3>1. k - 1 \in Int /\ k - 1 \in 0 .. N - 1 /\ c \in Cells
      <4>1. k - 1 \in Int /\ k - 1 \in 0 .. N - 1
        BY <1>2, NPos
      <4>. QED
        BY <1>2, <4>1, CellsAre, Zenon
    <3>2. d = k - 1
      <4>. DEFINE e == f + (k - 1)
      <4>1. e \in Int /\ -f \in Int /\ e + (-f) = k - 1
        BY <2>4, <3>1
      <4>2. ((e % N) + (-f)) % N = (e + (-f)) % N
        <5>. HIDE DEF e
        <5>. QED
          BY <4>1, NPos, ModPlus, Zenon
      <4>3. c \in Int /\ c + (-f) = c - f
        <5>1. c \in Int
          BY <3>1, CellsAre, Zenon
        <5>. HIDE DEF c
        <5>. QED
          BY <2>4, <5>1, Zenon
      <4>4. (k - 1) % N = k - 1
        <5>1. k - 1 = N * 0 + (k - 1) /\ 0 \in Int
          BY <3>1, NPos
        <5>. QED
          BY <3>1, <5>1, NPos, ModUnique, Zenon
      <4>. QED
        BY <4>1, <4>2, <4>3, <4>4, Zenon
    <3>3. Shift(R, a, h - 1)[c] = IF d \in 1 .. h - 1 THEN R.queue[a][(c - 1) % N] ELSE R.queue[a][c]
      BY <3>1, Zenon DEF Shift, f
    <3>4. d \in 1 .. h - 1 <=> k \in 2 .. h
      <4>. HIDE DEF d
      <4>. QED
        BY <3>2
    <3>5. CASE k \in 2 .. h
      <4>. DEFINE e == f + (k - 1)
      <4>1. e \in Int /\ -1 \in Int /\ e + (-1) = f + ((k - 1) - 1) /\ k - 1 \in 1 .. L
        BY <1>2, <2>4, <3>1, <3>5
      <4>2. ((e % N) + (-1)) % N = (e + (-1)) % N
        <5>. HIDE DEF e
        <5>. QED
          BY <4>1, NPos, ModPlus, Zenon
      <4>3. c \in Int /\ c + (-1) = c - 1
        <5>1. c \in Int
          BY <3>1, CellsAre, Zenon
        <5>. HIDE DEF c
        <5>. QED
          BY <5>1, Zenon
      <4>4. (c - 1) % N = (f + ((k - 1) - 1)) % N
        BY <4>1, <4>2, <4>3, Zenon
      <4>5. R.queue[a][(f + ((k - 1) - 1)) % N] = s[k - 1]
        BY <1>2, <4>1, Zenon
      <4>6. u[k] = s[k - 1]
        BY <3>5, Zenon
      <4>. QED
        BY <3>3, <3>4, <3>5, <4>4, <4>5, <4>6, Zenon
    <3>6. CASE k \notin 2 .. h
      <4>1. R.queue[a][c] = s[k]
        BY <1>2, Zenon
      <4>2. u[k] = s[k]
        BY <3>6, Zenon
      <4>. QED
        BY <3>3, <3>4, <3>6, <4>1, <4>2, Zenon
    <3>. QED
      BY <3>5, <3>6, Zenon
  <2>7. /\ Q \in RingsType /\ Alone(R, Q, a) /\ Q.face[a] = f /\ Q.back[a] = R.back[a]
        /\ Q.queue[a] = Shift(R, a, h - 1)
    <3>1. Shift(R, a, h - 1) \in [Cells -> Procs \cup {Null}]
      <4>1. \A j \in Cells : (j - 1) % N \in Cells
        <5>1. \A j \in Cells : j - 1 \in Int
          BY NPos DEF Cells
        <5>. QED
          BY <5>1, NPos, ModRange, Zenon DEF Cells
      <4>2. R.queue[a] \in [Cells -> Procs \cup {Null}]
        BY Zenon DEF RingsType
      <4>. QED
        BY <4>1, <4>2, Zenon DEF Shift
    <3>. DEFINE w == Shift(R, a, h - 1)
    <3>. HIDE DEF w
    <3>2. w \in [Cells -> Procs \cup {Null}] /\ Q = [R EXCEPT !.queue[a] = w]
      BY <3>1, Zenon DEF w
    <3>. HIDE DEF Q
    <3>3. Q \in RingsType /\ Alone(R, Q, a) /\ Q.face[a] = f /\ Q.back[a] = R.back[a] /\ Q.queue[a] = w
      BY <3>2, Zenon DEF RingsType, Alone, f
    <3>. QED
      BY <3>3, Zenon DEF w
  <2>. HIDE DEF Q, u
  <2>8. Holds(Q, a, u)
    <3>1. f + Len(u) - 1 = f + (L - 1)
      BY <1>2, <2>4, <2>5, Zenon
    <3>2. Q.back[a] = (Q.face[a] + Len(u) - 1) % N
      BY <1>2, <2>7, <3>1, Zenon
    <3>3. ASSUME NEW k \in 1 .. Len(u) PROVE Q.queue[a][(Q.face[a] + k - 1) % N] = u[k]
      <4>1. f + k - 1 = f + (k - 1) /\ k \in 1 .. L
        BY <2>4, <2>5, Zenon
      <4>. QED
        BY <2>6, <2>7, <4>1, Zenon
    <3>4. Len(u) <= N
      BY <1>2, <2>5, NPos
    <3>. QED
      BY <1>2, <2>5, <2>7, <3>2, <3>3, <3>4, Zenon DEF Holds
  <2>9. /\ Advance(Q, a) \in RingsType /\ Alone(Q, Advance(Q, a), a)
        /\ Holds(Advance(Q, a), a, Tail(u))
    BY <2>5, <2>7, <2>8, AdvanceDoes, Zenon
  <2>10. Tail(u) = t
    <3>1. Tail(u) \in Seq(Procs) /\ Len(Tail(u)) = L - 1 /\ \A j \in 1 .. L - 1 : Tail(u)[j] = u[j + 1]
      BY <1>2, <2>5
    <3>2. ASSUME NEW j \in 1 .. L - 1 PROVE u[j + 1] = t[j]
      <4>1. j + 1 \in 1 .. L /\ (j + 1) - 1 = j /\ (j + 1 \in 2 .. h <=> j < h)
        BY <1>2
      <4>2. u[j + 1] = IF j + 1 \in 2 .. h THEN s[(j + 1) - 1] ELSE s[j + 1]
        BY <4>1, Zenon DEF u
      <4>. QED
        BY <1>3, <4>1, <4>2, Zenon
    <3>. DEFINE v == Tail(u)
    <3>3. v \in Seq(Procs) /\ t \in Seq(Procs) /\ Len(v) = Len(t) /\ \A j \in 1 .. Len(t) : v[j] = t[j]
      BY <1>3, <3>1, <3>2, Zenon
    <3>. HIDE DEF v
    <3>4. v = t
      BY <3>3, SameLists, Zenon
    <3>. QED
      BY <3>4, Zenon DEF v
  <2>11. Alone(R, Advance(Q, a), a)
    BY <2>7, <2>9, Zenon DEF Alone
  <2>. QED
    BY <2>3, <2>9, <2>10, <2>11, Zenon
<1>. QED
  BY <1>4, <1>5, Zenon

-----------------------------------------------------------------------------

\* What happens to one ring, and to the list it stands for, keeps the invariant.
LEMMA OneRing ==
  ASSUME RingInv, NEW a \in Levels, NEW S \in RingsType, Alone(rings, S, a),
         NEW t \in Seq(Procs), Holds(S, a, t),
         \A j, k \in 1 .. Len(t) : t[j] = t[k] => j = k,
         rings' = S, fifo' = [fifo EXCEPT ![a] = t]
  PROVE  RingInv'
<1>1. rings \in RingsType /\ fifo \in [Levels -> Seq(Procs)]
  BY Zenon DEF RingInv
<1>2. fifo' \in [Levels -> Seq(Procs)] /\ fifo'[a] = t /\ \A i \in Levels \ {a} : fifo'[i] = fifo[i]
  BY <1>1, Zenon
<1>3. ASSUME NEW i \in Levels PROVE Holds(rings', i, fifo'[i])
  <2>1. CASE i = a
    BY <1>2, <2>1, Zenon
  <2>2. CASE i # a
    <3>1. Holds(rings, i, fifo[i]) /\ fifo'[i] = fifo[i] /\ i \in Levels \ {a}
      BY <1>2, <2>2, Zenon DEF RingInv
    <3>2. S.face[i] = rings.face[i] /\ S.back[i] = rings.back[i] /\ S.queue[i] = rings.queue[i]
      BY <3>1, Zenon DEF Alone
    <3>3. Holds(S, i, fifo[i])
      BY <3>1, <3>2, Zenon DEF Holds
    <3>. QED
      BY <3>1, <3>3, Zenon
  <2>. QED
    BY <2>1, <2>2, Zenon
<1>4. ASSUME NEW i \in Levels
      PROVE  \A j, k \in 1 .. Len(fifo'[i]) : fifo'[i][j] = fifo'[i][k] => j = k
  <2>1. CASE i = a
    BY <1>2, <2>1, Zenon
  <2>2. CASE i # a
    <3>1. fifo'[i] = fifo[i]
      BY <1>2, <2>2, Zenon
    <3>. QED
      BY <3>1, ZenonT(60) DEF RingInv
  <2>. QED
    BY <2>1, <2>2, Zenon
<1>. QED
  BY <1>2, <1>3, <1>4, Zenon DEF RingInv, Holds

LEMMA RingInitInv == RingInit => RingInv
<1>. SUFFICES ASSUME RingInit PROVE RingInv
  BY Zenon
<1>1. rings \in RingsType
  BY Zenon DEF RingInit, EmptyRings, RingsType
<1>2. fifo \in [Levels -> Seq(Procs)] /\ \A i \in Levels : fifo[i] = <<>>
  BY DEF RingInit
<1>3. \A i \in Levels : rings.face[i] = -1 /\ rings.back[i] = -1
  BY Zenon DEF RingInit, EmptyRings
<1>4. \A i \in Levels : Holds(rings, i, fifo[i])
  BY <1>2, <1>3, Zenon DEF Holds
<1>5. \A i \in Levels : \A j, k \in 1 .. Len(fifo[i]) : fifo[i][j] = fifo[i][k] => j = k
  BY <1>2
<1>. QED
  BY <1>1, <1>2, <1>4, <1>5, Zenon DEF RingInv

LEMMA DoPushKeeps ==
  ASSUME RingInv, NEW a \in Levels, NEW p \in Procs, DoPush(a, p)
  PROVE  RingInv'
<1>1. /\ rings \in RingsType /\ fifo[a] \in Seq(Procs) /\ Holds(rings, a, fifo[a])
      /\ \A j, k \in 1 .. Len(fifo[a]) : fifo[a][j] = fifo[a][k] => j = k
  BY Zenon DEF RingInv
<1>2. CASE Pushes(rings, a, p)
  <2>. DEFINE s == fifo[a]
              t == Append(s, p)
  <2>1. rings' = push(rings, a, p) /\ fifo' = [fifo EXCEPT ![a] = t]
    BY <1>2, Zenon DEF DoPush
  <2>2. /\ push(rings, a, p) \in RingsType /\ Alone(rings, push(rings, a, p), a)
        /\ Holds(push(rings, a, p), a, t)
    BY <1>1, <1>2, PushDoes, Zenon
  <2>3. \A k \in 1 .. Len(s) : s[k] # p
    BY Zenon DEF DoPush, InSome, In
  <2>4. t \in Seq(Procs) /\ \A j, k \in 1 .. Len(t) : t[j] = t[k] => j = k
    <3>. HIDE DEF s
    <3>1. s \in Seq(Procs) /\ \A j, k \in 1 .. Len(s) : s[j] = s[k] => j = k
      BY <1>1, Zenon DEF s
    <3>2. t \in Seq(Procs) /\ Len(t) = Len(s) + 1 /\ t[Len(s) + 1] = p
          /\ (\A k \in 1 .. Len(s) : t[k] = s[k]) /\ Len(s) \in Nat
      BY <3>1
    <3>. HIDE DEF t
    <3>3. \A k \in 1 .. Len(t) : k = Len(s) + 1 \/ k \in 1 .. Len(s)
      BY <3>2
    <3>. QED
      BY <2>3, <3>1, <3>2, <3>3, Zenon
  <2>. HIDE DEF t
  <2>. QED
    BY <2>1, <2>2, <2>4, OneRing, Zenon
<1>3. CASE ~Pushes(rings, a, p)
  <2>1. rings' = rings /\ fifo' = fifo
    BY <1>3, Zenon DEF DoPush, push
  <2>. QED
    BY <2>1 DEF RingInv, Holds
<1>. QED
  BY <1>2, <1>3, Zenon

LEMMA DoPopKeeps ==
  ASSUME RingInv, NEW a \in Levels, DoPop(a)
  PROVE  RingInv'
<1>. DEFINE s == fifo[a]
            t == Tail(s)
<1>1. /\ rings \in RingsType /\ s \in Seq(Procs) /\ Holds(rings, a, s)
      /\ \A j, k \in 1 .. Len(s) : s[j] = s[k] => j = k
  BY Zenon DEF RingInv
<1>2. s # <<>>
  BY <1>1, Zenon DEF DoPop, IsEmpty, Holds
<1>3. rings' = Advance(rings, a) /\ fifo' = [fifo EXCEPT ![a] = t]
  BY Zenon DEF DoPop, pop
<1>. HIDE DEF s
<1>4. /\ Advance(rings, a) \in RingsType /\ Alone(rings, Advance(rings, a), a)
      /\ Holds(Advance(rings, a), a, t)
  BY <1>1, <1>2, AdvanceDoes, Zenon
<1>5. t \in Seq(Procs) /\ Len(t) = Len(s) - 1 /\ \A k \in 1 .. Len(t) : t[k] = s[k + 1]
  BY <1>1, <1>2
<1>. HIDE DEF t
<1>6. ASSUME NEW j \in 1 .. Len(t), NEW k \in 1 .. Len(t), t[j] = t[k] PROVE j = k
  <2>1. j + 1 \in 1 .. Len(s) /\ k + 1 \in 1 .. Len(s)
    BY <1>1, <1>5
  <2>2. j + 1 = k + 1
    BY <1>1, <1>5, <1>6, <2>1, Zenon
  <2>. QED
    BY <2>2
<1>. QED
  BY <1>3, <1>4, <1>5, <1>6, OneRing, Zenon

LEMMA DoRemoveKeeps ==
  ASSUME RingInv, NEW a \in Levels, NEW p \in Procs, DoRemove(a, p)
  PROVE  RingInv'
<1>. DEFINE s == fifo[a]
<1>1. /\ rings \in RingsType /\ s \in Seq(Procs) /\ Holds(rings, a, s)
      /\ \A j, k \in 1 .. Len(s) : s[j] = s[k] => j = k
  BY Zenon DEF RingInv
<1>2. PICK h \in 1 .. Len(s) : s[h] = p /\ fifo' = [fifo EXCEPT ![a] = Without(s, h)]
  BY Zenon DEF DoRemove
<1>3. rings' = remove(rings, a, s[h])
  BY <1>2, Zenon DEF DoRemove
<1>. HIDE DEF s
<1>. DEFINE t == Without(s, h)
<1>4. /\ remove(rings, a, s[h]) \in RingsType /\ Alone(rings, remove(rings, a, s[h]), a)
      /\ Holds(remove(rings, a, s[h]), a, t)
  BY <1>1, RemoveDoes, Zenon
<1>5. /\ t \in Seq(Procs) /\ Len(t) = Len(s) - 1
      /\ \A j \in 1 .. Len(s) - 1 : t[j] = IF j < h THEN s[j] ELSE s[j + 1]
  BY <1>1, CutOut, Zenon
<1>. HIDE DEF t
<1>6. ASSUME NEW j \in 1 .. Len(t), NEW k \in 1 .. Len(t), t[j] = t[k] PROVE j = k
  <2>. DEFINE at(i) == IF i < h THEN i ELSE i + 1
  <2>1. at(j) \in 1 .. Len(s) /\ at(k) \in 1 .. Len(s) /\ (at(j) = at(k) => j = k)
    BY <1>1, <1>5
  <2>2. t[j] = s[at(j)] /\ t[k] = s[at(k)]
    BY <1>5, Zenon
  <2>. HIDE DEF at
  <2>. QED
    BY <1>1, <1>6, <2>1, <2>2, Zenon
<1>7. fifo' = [fifo EXCEPT ![a] = t]
  BY <1>2, Zenon DEF t
<1>. QED
  BY <1>3, <1>4, <1>5, <1>6, <1>7, OneRing, Zenon

LEMMA RingNextInv == RingInv /\ [RingNext]_RingVars => RingInv'
<1>. SUFFICES ASSUME RingInv, [RingNext]_RingVars PROVE RingInv'
  BY Zenon
<1>1. CASE UNCHANGED RingVars
  BY <1>1 DEF RingVars, RingInv, Holds
<1>2. CASE RingNext
  BY <1>2, DoPushKeeps, DoPopKeeps, DoRemoveKeeps, Zenon DEF RingNext
<1>. QED
  BY <1>1, <1>2, Zenon

LEMMA RingInvIsFifo == RingInv => RingIsFifo
<1>. SUFFICES ASSUME RingInv PROVE RingIsFifo
  BY Zenon
<1>1. \A i \in Levels : Entries(rings, i) = fifo[i]
  BY EntriesAre, Zenon DEF RingInv
<1>2. ASSUME NEW a \in Levels, NEW p \in Procs, ~InSome(p), ~IsEmpty(rings, a), Full(rings, a)
      PROVE  FALSE
  <2>. DEFINE s == fifo[a]
  <2>1. /\ rings \in RingsType /\ s \in Seq(Procs) /\ Holds(rings, a, s)
        /\ \A j, k \in 1 .. Len(s) : s[j] = s[k] => j = k
    BY Zenon DEF RingInv
  <2>2. s # <<>>
    BY <1>2, <2>1, Zenon DEF IsEmpty, Holds
  <2>3. Len(s) = N
    BY <1>2, <2>1, <2>2, FullIs, Zenon
  <2>4. \A k \in 1 .. Len(s) : s[k] # p
    BY <1>2, Zenon DEF InSome, In
  <2>. HIDE DEF s
  <2>5. s \in Injection(1 .. N, Procs \ {p})
    <3>1. s \in [1 .. N -> Procs \ {p}]
      BY <2>1, <2>3, <2>4
    <3>2. IsInjective(s)
      BY <2>1, <2>3, <3>1, Zenon DEF IsInjective
    <3>. QED
      BY <3>1, <3>2, Zenon DEF Injection
  <2>6. IsFiniteSet(Procs \ {p}) /\ Cardinality(Procs \ {p}) = Cardinality(Procs) - 1
    BY RingAssumption, FS_RemoveElement, Zenon
  <2>7. Cardinality(1 .. N) <= Cardinality(Procs \ {p})
    BY <2>5, <2>6, FS_Injection, Zenon
  <2>8. Cardinality(1 .. N) = N
    BY NPos, FS_Interval
  <2>9. Cardinality(Procs) \in Nat /\ Cardinality(Procs) <= N
    BY RingAssumption, FS_CardinalityType, Zenon
  <2>. QED
    BY <2>6, <2>7, <2>8, <2>9, NPos
<1>. QED
  BY <1>1, <1>2, Zenon DEF RingIsFifo

\* MlfqRing!RingIsFifo: for any number of rings and of cells, and as many
\* processes as a ring has cells, push, pop and remove do on the rings what they
\* stand for on the lists, and no ring is full when a process is pushed (push, pop,
\* remove).
THEOREM RingFifo == RingSpec => []RingIsFifo
<1>. QED
  BY RingInitInv, RingNextInv, RingInvIsFifo, PTL DEF RingSpec
=============================================================================
