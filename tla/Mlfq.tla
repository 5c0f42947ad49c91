-------------------------------- MODULE Mlfq --------------------------------
(***************************************************************************)
(* The scheduler of the kernel built with -DMLFQ: the five ready queues,   *)
(* every place of proc.c that pushes a process, the aging loop and the     *)
(* choice of scheduler(), the time slices of trap() and change_ticks().    *)
(*                                                                         *)
(* Of the process table only what the scheduler looks at is kept: a slot   *)
(* is UNUSED here while it is UNUSED, EMBRYO or ZOMBIE, and which sleepers *)
(* a wakeup finds is left open (Proc models both).  Every action is one    *)
(* section under ptable.lock.                                              *)
(*                                                                         *)
(* waittime is only compared with age and curtime with a slice, so both    *)
(* stop counting one past the largest value they are compared with.        *)
(* waittime counts for RUNNABLE processes only and curtime for RUNNING     *)
(* ones: in every other state they are set to 0 (allocproc, scheduler,     *)
(* push) before they are read, so the model keeps them 0.                  *)
(***************************************************************************)
EXTENDS Integers, SequencesExt

CONSTANTS
  NPROC,     \* param.h: slots of ptable.proc and cells of a queue
  CPUs,
  NQ,        \* queues, 5 in the code
  Age,       \* proc.h: age, 18 in the code
  BootCPU    \* cpu 0, whose timer interrupt calls change_ticks

ASSUME MlfqAssumption ==
  NPROC \in Nat \ {0} /\ NQ \in Nat \ {0} /\ Age \in Nat /\ BootCPU \in CPUs

Slots == 0 .. NPROC - 1
NoProc == -1
initproc == 0

VARIABLES
  state,                  \* p->state
  cproc,                  \* cpus[c].proc
  rings,                  \* face[], back[], queue[][]
  qn, waittime, curtime,  \* fields of struct proc
  intr                    \* BootCPU is between change_ticks and the end of trap

Q == INSTANCE MlfqQueue WITH N <- NPROC, Null <- NoProc

sched == <<rings, qn, waittime, curtime>>
vars == <<state, cproc, sched, intr>>

\* main.c: slices[i] = 1, 2, 4, 8, 16.
slices(i) == 2 ^ i

\* After userinit.
Init ==
  /\ state = [p \in Slots |-> IF p = initproc THEN "RUNNABLE" ELSE "UNUSED"]
  /\ cproc = [c \in CPUs |-> NoProc]
  /\ rings = Q!push(Q!EmptyRings, 0, initproc)
  /\ qn = [p \in Slots |-> 0]
  /\ waittime = [p \in Slots |-> 0]
  /\ curtime = [p \in Slots |-> 0]
  /\ intr = FALSE

-----------------------------------------------------------------------------
(* Sequences of pushes. *)

Sched == [rings |-> rings, qn |-> qn, waittime |-> waittime, curtime |-> curtime]

Becomes(s) ==
  /\ rings' = s.rings
  /\ qn' = s.qn
  /\ waittime' = s.waittime
  /\ curtime' = s.curtime

\* push(a, p), which clears the times of p when it adds it.
PushTo(s, a, p) ==
  IF Q!Pushes(s.rings, a, p)
  THEN [s EXCEPT !.rings = Q!push(@, a, p), !.waittime[p] = 0, !.curtime[p] = 0]
  ELSE s

\* wakeup1 and kill push a process to the queue it was in, each in its turn.
PushBack(s, p) == PushTo(s, s.qn[p], p)
PushAll(s, procs) == FoldLeft(PushBack, s, procs)

\* The loop of wakeup1 meets the slots of S in this order.
InOrder(S) == SetToSortSeq(S, <)

Sleepers == {p \in Slots : state[p] = "SLEEPING"}

\* BootCPU runs neither a process nor the scheduler inside its interrupt.
Runs(c, p) == cproc[c] = p /\ p \in Slots /\ (c = BootCPU => ~intr)

-----------------------------------------------------------------------------
(* scheduler() *)

\* Mutant: qn is not lowered with the move.
AgeKeepLevel(s, i, j) ==
  LET p == s.rings.queue[i][j]
  IN  IF s.waittime[p] > Age
      THEN PushTo([s EXCEPT !.rings = Q!remove(@, i, p)], i - 1, p)
      ELSE s

\* One turn of an aging loop, at cell j of queue i: the process in it moves up
\* when it has waited too long.  remove and push change face and back.
AgeCell(s, i, j) ==
  LET p == s.rings.queue[i][j]
  IN  IF s.waittime[p] > Age
      THEN PushTo([s EXCEPT !.rings = Q!remove(@, i, p), !.qn[p] = @ - 1], i - 1, p)
      ELSE s

CellsFrom(j) == [k \in 1 .. NPROC - j |-> j + k - 1]

\* for(j = first; j <= back[i]; j++), with the back[i] of each turn (-1 once the
\* queue is empty, which ends the loop), and for(j = first; j < NPROC; j++).
AgeToBack(s, i, first) ==
  LET Turn(t, j) == IF j <= t.rings.back[i] THEN AgeCell(t, i, j) ELSE t
  IN  FoldLeft(Turn, s, CellsFrom(first))
AgeToEnd(s, i, first) ==
  LET Turn(t, j) == AgeCell(t, i, j)
  IN  FoldLeft(Turn, s, CellsFrom(first))

AgeLevel(s, i) ==
  LET first == s.rings.face[i]
  IN  IF first = -1 THEN s
      ELSE IF first <= s.rings.back[i] THEN AgeToBack(s, i, first)
      ELSE AgeToBack(AgeToEnd(s, i, first), i, 0)

\* Mutant: the loop stops one queue early.
AgingShort(s) == FoldLeft(AgeLevel, s, [i \in 1 .. NQ - 2 |-> i])

Aging(s) == FoldLeft(AgeLevel, s, [i \in 1 .. NQ - 1 |-> i])

\* Aging, then pop from the first queue that is not empty and switch to it.
\* (A popped process that is not RUNNABLE would be dropped: QueuedRunnable
\* says there is none.)
Schedule(c) ==
  /\ cproc[c] = NoProc /\ (c = BootCPU => ~intr)
  /\ LET s == Aging(Sched)
     IN  \E i \in Q!Levels :
           /\ ~Q!IsEmpty(s.rings, i)
           /\ \A k \in 0 .. i - 1 : Q!IsEmpty(s.rings, k)
           /\ LET p == Q!PopHead(s.rings, i)
              IN  /\ state[p] = "RUNNABLE"
                  /\ state' = [state EXCEPT ![p] = "RUNNING"]
                  /\ cproc' = [cproc EXCEPT ![c] = p]
                  /\ Becomes([s EXCEPT !.rings = Q!pop(@, i),
                                       !.waittime[p] = 0, !.curtime[p] = 0])
  /\ UNCHANGED intr

-----------------------------------------------------------------------------
(* The timer. *)

Saturate(n, max) == IF n > max THEN max ELSE n

\* change_ticks(), from the timer interrupt of BootCPU.
ChangeTicks ==
  /\ ~intr
  /\ waittime' = [p \in Slots |-> IF state[p] = "RUNNABLE"
                                  THEN Saturate(waittime[p] + 1, Age + 1)
                                  ELSE waittime[p]]
  /\ curtime' = [p \in Slots |-> IF state[p] = "RUNNING"
                                 THEN Saturate(curtime[p] + 1, slices(NQ - 1))
                                 ELSE curtime[p]]
  /\ intr' = TRUE
  /\ UNCHANGED <<state, cproc, rings, qn>>

SliceOver(p) == curtime[p] >= slices(qn[p])

\* scheduler() after swtch: one queue down, unless it is the last.
Lower(q) == IF q # NQ - 1 THEN q + 1 ELSE q

\* trap() on a timer interrupt of CPU c (of BootCPU: after change_ticks).  When
\* the slice is over flagq is set and the process yields; the scheduler finds
\* it RUNNABLE with flagq set, moves it one queue down and pushes it.
TimerYield(c) ==
  \E p \in Slots :
    /\ cproc[c] = p /\ (c = BootCPU => intr)
    /\ SliceOver(p)
    /\ state' = [state EXCEPT ![p] = "RUNNABLE"]
    /\ cproc' = [cproc EXCEPT ![c] = NoProc]
    /\ LET q == Lower(qn[p])
       IN  Becomes(PushTo([Sched EXCEPT !.qn[p] = q, !.curtime[p] = 0], q, p))
    /\ intr' = (intr /\ c # BootCPU)

\* The timer interrupt of BootCPU returns without a yield.
TimerReturn ==
  /\ intr
  /\ \A p \in Slots : cproc[BootCPU] = p => ~SliceOver(p)
  /\ intr' = FALSE
  /\ UNCHANGED <<state, cproc, sched>>

-----------------------------------------------------------------------------
(* What processes do. *)

\* fork of a process on c into a free slot q: allocproc clears qn and the
\* times, the end of fork pushes the child to the first queue.
Fork(c, q) ==
  /\ \E p \in Slots : Runs(c, p)
  /\ state[q] = "UNUSED"
  /\ state' = [state EXCEPT ![q] = "RUNNABLE"]
  /\ Becomes(PushTo([Sched EXCEPT !.qn[q] = 0, !.waittime[q] = 0], 0, q))
  /\ UNCHANGED <<cproc, intr>>

\* sleep(): the process leaves the CPU and is in no queue.
Sleep(c) ==
  \E p \in Slots :
    /\ Runs(c, p)
    /\ state' = [state EXCEPT ![p] = "SLEEPING"]
    /\ cproc' = [cproc EXCEPT ![c] = NoProc]
    /\ curtime' = [curtime EXCEPT ![p] = 0]
    /\ UNCHANGED <<rings, qn, waittime, intr>>

\* wakeup1 finds the processes W asleep on its channel; kill finds one.
Wakeup(W) ==
  /\ W # {} /\ W \subseteq Sleepers
  /\ state' = [p \in Slots |-> IF p \in W THEN "RUNNABLE" ELSE state[p]]
  /\ Becomes(PushAll(Sched, InOrder(W)))
  /\ UNCHANGED <<cproc, intr>>

\* exit wakes its parent if that sleeps in wait, then init likewise.
Exit(c, parentW, initW) ==
  \E p \in Slots \ {initproc} :
    /\ Runs(c, p)
    /\ \/ parentW = {}
       \/ \E q \in Sleepers : parentW = {q}
    /\ initW \in {{}, {initproc} \cap Sleepers}
    /\ state' = [q \in Slots |-> IF q = p THEN "UNUSED"
                                 ELSE IF q \in parentW \cup initW THEN "RUNNABLE"
                                 ELSE state[q]]
    /\ cproc' = [cproc EXCEPT ![c] = NoProc]
    /\ Becomes(PushAll([Sched EXCEPT !.curtime[p] = 0],
                       InOrder(parentW) \o InOrder(initW \ parentW)))
    /\ UNCHANGED intr

Next ==
  \/ \E c \in CPUs :
       \/ Schedule(c) \/ TimerYield(c) \/ Sleep(c)
       \/ \E q \in Slots : Fork(c, q)
       \/ \E pw, iw \in SUBSET Sleepers : Exit(c, pw, iw)
  \/ \E W \in SUBSET Slots : Wakeup(W)
  \/ ChangeTicks \/ TimerReturn

Spec == Init /\ [][Next]_vars

-----------------------------------------------------------------------------
(* Properties. *)

\* What is in a queue is RUNNABLE, is there once, in the queue its qn names:
\* pop never hands the scheduler a process that sleeps, exited or runs, and
\* remove finds a process where qn says it is.  And the queue is in the order of
\* waiting: who entered earlier has waited at least as long.
QueuedRunnable ==
  \A i \in Q!Levels : LET e == Q!Entries(rings, i) IN
    \A k \in 1 .. Len(e) :
      /\ e[k] \in Slots /\ state[e[k]] = "RUNNABLE" /\ qn[e[k]] = i
      /\ \A m \in 1 .. Len(e) : e[m] = e[k] => m = k
      /\ \A m \in 1 .. k : waittime[e[m]] >= waittime[e[k]]

\* When a CPU picks a process, no process is left in a lower queue that has
\* waited longer than age, and none waits in a higher queue than the picked one.
AgedOut ==
  [][\A c \in CPUs : cproc[c] = NoProc /\ cproc'[c] # NoProc =>
       \A i \in Q!Levels : \A p \in Q!Queued(rings', i) :
         /\ i # 0 => waittime'[p] <= Age
         /\ i >= qn'[cproc'[c]]]_vars

\* "Wake up all processes sleeping on chan": a process made RUNNABLE is in one
\* of the queues, the only place scheduler() takes processes from.
RunnableQueued ==
  \A p \in Slots : state[p] = "RUNNABLE" =>
    \E i \in Q!Levels : p \in Q!Queued(rings, i)
=============================================================================
