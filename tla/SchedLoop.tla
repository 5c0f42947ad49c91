------------------------------ MODULE SchedLoop -----------------------------
(***************************************************************************)
(* scheduler() of proc.c built with -DROUND_ROBIN, -DPBS or -DFCFS, with   *)
(* the parts of trap() that make a process yield under each of them.       *)
(*                                                                         *)
(* The round-robin and the priority loop hold ptable.lock over a whole     *)
(* pass of the table; a process that is switched to releases it and takes  *)
(* it again to come back, and the pass goes on behind the slot that ran.   *)
(* The FCFS loop runs one process per pass.  Of the process table only     *)
(* what scheduler() and preempt() read is kept, and of a pid whether it    *)
(* is 0.  Which of the three builds runs is chosen in the initial state.   *)
(***************************************************************************)
EXTENDS Integers

CONSTANTS
  LoopNPROC, LoopCPUs, NoCPU,
  Policies,    \* the builds: "ROUND_ROBIN", "PBS", "FCFS"
  Priorities,  \* the values passed to set_priority
  DefaultPrio, \* priority of a new process, 60 in the code
  MaxTicks     \* bound on ticks

ASSUME LoopAssumption ==
  /\ LoopNPROC \in Nat \ {0} /\ NoCPU \notin LoopCPUs
  /\ Policies \subseteq {"ROUND_ROBIN", "PBS", "FCFS"}
  /\ Priorities \subseteq Nat /\ DefaultPrio \in Nat /\ MaxTicks \in Nat

LoopSlots == 0 .. LoopNPROC - 1
LoopNoProc == -1
LoopInitproc == 0

VARIABLES
  policy,                  \* how this kernel was built; never changes
  pstate, priority, ctime,  \* fields of struct proc
  haspid,                   \* p->pid != 0
  lcproc,                   \* cpus[c].proc
  scan,                    \* the loop variable p of the scheduler of a CPU
  lock,                    \* the CPU whose scheduler is inside a pass, or NoCPU
  ticks

LoopVars == <<policy, pstate, priority, ctime, haspid, lcproc, scan, lock, ticks>>

Free == lock = NoCPU
Runnable == {p \in LoopSlots : pstate[p] = "RUNNABLE"}

LoopInit ==
  /\ policy \in Policies
  /\ pstate = [p \in LoopSlots |-> IF p = LoopInitproc THEN "RUNNABLE" ELSE "UNUSED"]
  /\ priority = [p \in LoopSlots |-> DefaultPrio]
  /\ ctime = [p \in LoopSlots |-> 0]
  /\ haspid = [p \in LoopSlots |-> p = LoopInitproc]
  /\ lcproc = [c \in LoopCPUs |-> LoopNoProc]
  /\ scan = [c \in LoopCPUs |-> 0]
  /\ lock = NoCPU
  /\ ticks = 0

-----------------------------------------------------------------------------
(* The choice of a process. *)

\* A pass that was interrupted by a process goes on, otherwise a new one
\* begins with slot 0.
Start(c) == IF lock = c THEN scan[c] ELSE 0

\* Mutant: every choice starts with slot 0 again.
NextInPassFromZero(c, p) == p \in Runnable /\ \A q \in Runnable : p <= q

\* The first RUNNABLE slot of the rest of the pass.
NextInPass(c, p) ==
  /\ p \in Runnable /\ p >= Start(c)
  /\ \A q \in Runnable : q >= Start(c) => p <= q

\* for(q = first; q <= last; q++): of the RUNNABLE slots q, the loop keeps in h
\* the first one with a smaller key than the h it had; h may be null before.
Search(R, key, h, first, last) ==
  LET after[q \in first - 1 .. last] ==
        IF q = first - 1 THEN h
        ELSE LET k == after[q - 1]
             IN  IF q \in R /\ (k = LoopNoProc \/ key[q] < key[k]) THEN q ELSE k
  IN  after[last]

\* The loop of FCFS over the table, by creation time.
Oldest(R, time) == Search(R, time, LoopNoProc, 0, LoopNPROC - 1)

\* Mutant: without the second loop, slots before p are never compared.
LowestForward(R, prio, p) == Search(R, prio, p, p + 1, LoopNPROC - 1)

\* The two inner loops of PBS: from p to the end, then from 0 to p.
Lowest(R, prio, p) ==
  Search(R, prio, Search(R, prio, p, p + 1, LoopNPROC - 1), 0, p - 1)

Chosen(c, h) ==
  \/ policy = "ROUND_ROBIN" /\ NextInPass(c, h)
  \/ policy = "PBS" /\ \E p \in LoopSlots : NextInPass(c, p) /\ h = Lowest(Runnable, priority, p)
  \/ policy = "FCFS" /\ h = Oldest(Runnable, ctime)

\* Switch to the chosen process, which releases ptable.lock.
Pick(c) ==
  \E h \in Runnable :
    /\ lcproc[c] = LoopNoProc /\ lock \in {c, NoCPU}
    /\ Chosen(c, h)
    /\ pstate' = [pstate EXCEPT ![h] = "RUNNING"]
    /\ lcproc' = [lcproc EXCEPT ![c] = h]
    /\ scan' = [scan EXCEPT ![c] = IF policy = "FCFS" THEN 0 ELSE h + 1]
    /\ lock' = NoCPU
    /\ UNCHANGED <<policy, priority, ctime, haspid, ticks>>

\* The pass is over: release, start again.
EndPass(c) ==
  /\ lock = c /\ ~\E p \in LoopSlots : NextInPass(c, p)
  /\ scan' = [scan EXCEPT ![c] = 0]
  /\ lock' = NoCPU
  /\ UNCHANGED <<policy, pstate, priority, ctime, haspid, lcproc, ticks>>

-----------------------------------------------------------------------------
(* Leaving the CPU. *)

\* The process on c takes the lock, gets state s and calls sched.
Leave(c, p, s) ==
  /\ Free /\ lcproc[c] = p
  /\ pstate' = [pstate EXCEPT ![p] = s]
  /\ lcproc' = [lcproc EXCEPT ![c] = LoopNoProc]
  /\ lock' = IF policy = "FCFS" THEN NoCPU ELSE c
  /\ UNCHANGED <<policy, priority, ctime, haspid, scan, ticks>>

\* preempt(prior, 1) and preempt(prior, 0): all slots with a pid count, the
\* caller, sleepers, zombies and what a failed fork left among them.
PreemptTick(prior) == \E a \in LoopSlots : haspid[a] /\ priority[a] <= prior
PreemptIntr(prior) == \E a \in LoopSlots : haspid[a] /\ priority[a] < prior

\* Mutant: a timer interrupt yields only to a strictly lower priority.
TimerYieldsStrict(p) ==
  \/ policy = "ROUND_ROBIN"
  \/ policy = "PBS" /\ PreemptIntr(priority[p])

\* trap(): whether a timer interrupt makes the running process yield.
TimerYields(p) ==
  \/ policy = "ROUND_ROBIN"
  \/ policy = "PBS" /\ PreemptTick(priority[p])

LoopTimerYield(c) == \E p \in LoopSlots : TimerYields(p) /\ Leave(c, p, "RUNNABLE")

\* trap(): any other interrupt.
IntrYield(c) ==
  \E p \in LoopSlots :
    policy = "PBS" /\ PreemptIntr(priority[p]) /\ Leave(c, p, "RUNNABLE")

LoopSleep(c) == \E p \in LoopSlots : Leave(c, p, "SLEEPING")

LoopExit(c) == \E p \in LoopSlots \ {LoopInitproc} : Leave(c, p, "ZOMBIE")

-----------------------------------------------------------------------------
(* The rest of the kernel. *)

InKernel == \E c \in LoopCPUs : lcproc[c] # LoopNoProc

\* wakeup1 or kill.
LoopWakeup(p) ==
  /\ Free /\ pstate[p] = "SLEEPING"
  /\ pstate' = [pstate EXCEPT ![p] = "RUNNABLE"]
  /\ UNCHANGED <<policy, priority, ctime, haspid, lcproc, scan, lock, ticks>>

\* wait frees a slot.
Reap(p) ==
  /\ Free /\ InKernel /\ pstate[p] = "ZOMBIE"
  /\ pstate' = [pstate EXCEPT ![p] = "UNUSED"]
  /\ haspid' = [haspid EXCEPT ![p] = FALSE]
  /\ UNCHANGED <<policy, priority, ctime, lcproc, scan, lock, ticks>>

\* allocproc takes the first free slot and sets the pid, ctime and the priority.
LoopAllocproc(p) ==
  /\ Free /\ InKernel /\ pstate[p] = "UNUSED"
  /\ \A q \in LoopSlots : pstate[q] = "UNUSED" => p <= q
  /\ pstate' = [pstate EXCEPT ![p] = "EMBRYO"]
  /\ haspid' = [haspid EXCEPT ![p] = TRUE]
  /\ ctime' = [ctime EXCEPT ![p] = ticks]
  /\ priority' = [priority EXCEPT ![p] = DefaultPrio]
  /\ UNCHANGED <<policy, lcproc, scan, lock, ticks>>

\* The end of fork.
LoopFork(p) ==
  /\ Free /\ InKernel /\ pstate[p] = "EMBRYO"
  /\ pstate' = [pstate EXCEPT ![p] = "RUNNABLE"]
  /\ UNCHANGED <<policy, priority, ctime, haspid, lcproc, scan, lock, ticks>>

\* kalloc or copyuvm fails: the slot is given up without the lock and keeps
\* its pid.
LoopForkFail(p) ==
  /\ InKernel /\ pstate[p] = "EMBRYO"
  /\ pstate' = [pstate EXCEPT ![p] = "UNUSED"]
  /\ UNCHANGED <<policy, priority, ctime, haspid, lcproc, scan, lock, ticks>>

\* set_priority, of the process of any pid; nothing is rescheduled.
\* Only the PBS build reads priorities.
SetPriority(p, v) ==
  /\ policy = "PBS" /\ Free /\ InKernel /\ haspid[p]
  /\ priority' = [priority EXCEPT ![p] = v]
  /\ UNCHANGED <<policy, pstate, ctime, haspid, lcproc, scan, lock, ticks>>

\* Only the FCFS build reads times.
Tick ==
  /\ policy = "FCFS" /\ ticks < MaxTicks
  /\ ticks' = ticks + 1
  /\ UNCHANGED <<policy, pstate, priority, ctime, haspid, lcproc, scan, lock>>

LoopNext ==
  \/ \E c \in LoopCPUs : Pick(c) \/ EndPass(c) \/ LoopTimerYield(c) \/ IntrYield(c)
                     \/ LoopSleep(c) \/ LoopExit(c)
  \/ \E p \in LoopSlots : LoopWakeup(p) \/ Reap(p) \/ LoopAllocproc(p)
                          \/ LoopFork(p) \/ LoopForkFail(p)
                          \/ \E v \in Priorities : SetPriority(p, v)
  \/ Tick

LoopSpec == LoopInit /\ [][LoopNext]_LoopVars

\* Every CPU runs its scheduler loop and takes timer interrupts for ever.
LoopFairness ==
  \A c \in LoopCPUs : WF_LoopVars(Pick(c)) /\ WF_LoopVars(EndPass(c)) /\ WF_LoopVars(LoopTimerYield(c))

LoopFairSpec == LoopSpec /\ LoopFairness

-----------------------------------------------------------------------------
(* Properties. *)

\* Round robin starves nobody: a RUNNABLE process gets a CPU, because every
\* pass goes on behind the slot that ran last and meets every other slot.
EveryoneRuns ==
  \A p \in LoopSlots : policy = "ROUND_ROBIN" /\ pstate[p] = "RUNNABLE" ~> pstate[p] = "RUNNING"

\* Priority scheduling: a process of least priority does not stay RUNNABLE for
\* ever.  "In case a process with equal priority is found, I am interrupting
\* the current one in order to run them in a round robin fashion."
IsLeast(p) ==
  /\ policy = "PBS"
  /\ pstate[p] = "RUNNABLE"
  /\ \A q \in LoopSlots : pstate[q] \in {"RUNNABLE", "RUNNING"} => priority[p] <= priority[q]

LeastRuns == \A p \in LoopSlots : ~<>[]IsLeast(p)

\* From slot s on, round the table, p is met no later than q.
MetFirst(s, p, q) == (p >= s /\ q < s) \/ (p <= q /\ (p >= s \/ q < s))

\* The search loops pass over nobody, wherever the pass over the table stands.
\* PBS: "The process with the least priority is selected and made to run", and of
\* several the first one behind the slot that ran last, so that equals take turns.
\* FCFS: "select the process with the least creation time".
PicksFirst ==
  [][\A c \in LoopCPUs, p, q \in LoopSlots :
       lcproc[c] = LoopNoProc /\ lcproc'[c] = p /\ pstate[q] = "RUNNABLE" =>
         /\ policy = "PBS" => \/ priority[p] < priority[q]
                              \/ priority[p] = priority[q] /\ MetFirst(Start(c), p, q)
         /\ policy = "FCFS" => ctime[p] <= ctime[q]]_LoopVars
=============================================================================
