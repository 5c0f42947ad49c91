------------------------------ MODULE SpinLock ------------------------------
(***************************************************************************)
(* Spin locks and interrupts (spinlock.c) under what holds and switches    *)
(* them: sched and the scheduler loop (proc.c), sleep with a lock, and the *)
(* timer interrupt (trap.c).                                               *)
(*                                                                         *)
(* A context is a process or the scheduler of a CPU.  code is what it has  *)
(* still to do; an interrupt puts the handler in front of it.  Which       *)
(* process can run, and when a sleeper is woken, is left open (see Proc):  *)
(* any process that is on no CPU can be switched to.                       *)
(***************************************************************************)
EXTENDS Integers, FiniteSets, Sequences

CONSTANTS
  Cpus,          \* 0 .. n; CPU 0 counts the ticks
  SlProcs,       \* processes
  Free           \* no CPU

ASSUME SpinLockAssumption == 0 \in Cpus /\ Cpus \cap SlProcs = {} /\ Free \notin Cpus

Locks == {"ptable", "ticks"}
Contexts == SlProcs \cup Cpus      \* the context of a CPU is its scheduler

Op(o, l) == <<o, l>>
acquire(l) == Op("acquire", l)
release(l) == Op("release", l)
sched == Op("sched", "")
iret == Op("iret", "")
trapret == Op("iret", "fork")

\* Code, as far as it takes locks or switches.
Yield == <<acquire("ptable"), sched, release("ptable")>>
Forkret == <<release("ptable"), trapret>>
change_ticks == <<acquire("ptable"), release("ptable")>>
wakeup == <<acquire("ptable"), release("ptable")>>
preempt == <<acquire("ptable"), release("ptable")>>
Tick == <<acquire("ticks")>> \o change_ticks \o wakeup \o <<release("ticks")>>

\* Mutant: sleep still holds its lock when it calls sched.
SleepHolding(lk) ==
  <<acquire("ptable"), sched, release("ptable"), release(lk), acquire(lk)>>

Sleep(lk) == <<acquire("ptable"), release(lk), sched, release("ptable"), acquire(lk)>>

Sys_sleep == <<acquire("ticks")>> \o Sleep("ticks") \o <<release("ticks")>>

VARIABLES
  lkcpu,         \* the CPU that holds a lock, or Free
  IF_,           \* the interrupt flag of a CPU
  ncli, intena,  \* of a CPU
  cur,           \* the context a CPU runs
  code,          \* of a context
  kept           \* intena that sched keeps on the stack of a process

SlVars == <<lkcpu, IF_, ncli, intena, cur, code, kept>>

\* The CPUs are in their schedulers, the processes have just been created.
SlInit ==
  /\ lkcpu = [l \in Locks |-> Free]
  /\ IF_ = [c \in Cpus |-> FALSE]
  /\ ncli = [c \in Cpus |-> 0] /\ intena = [c \in Cpus |-> FALSE]
  /\ cur = [c \in Cpus |-> c]
  /\ code = [x \in Contexts |-> IF x \in SlProcs THEN Forkret ELSE <<>>]
  /\ kept = [p \in SlProcs |-> TRUE]

\* The next operation on CPU c, and the rest.
Next1(c, o) == code[cur[c]] # <<>> /\ Head(code[cur[c]])[1] = o
LockOf(c) == Head(code[cur[c]])[2]
GoesOn(c) == code' = [code EXCEPT ![cur[c]] = Tail(@)]
Becomes(c, op) == code' = [code EXCEPT ![cur[c]] = <<op>> \o Tail(@)]

\* pushcli: if(mycpu()->ncli == 0)
Notes(c) == ncli[c] = 0

\* acquire before the loop: pushcli.  It would panic if this CPU held the lock.
Acquire(c) ==
  /\ Next1(c, "acquire") /\ lkcpu[LockOf(c)] # c
  /\ intena' = IF Notes(c) THEN [intena EXCEPT ![c] = IF_[c]] ELSE intena
  /\ ncli' = [ncli EXCEPT ![c] = @ + 1]
  /\ IF_' = [IF_ EXCEPT ![c] = FALSE]
  /\ Becomes(c, Op("spin", LockOf(c)))
  /\ UNCHANGED <<lkcpu, cur, kept>>

\* xchg finds the lock free.
Spin(c) ==
  /\ Next1(c, "spin") /\ lkcpu[LockOf(c)] = Free
  /\ lkcpu' = [lkcpu EXCEPT ![LockOf(c)] = c]
  /\ GoesOn(c)
  /\ UNCHANGED <<IF_, ncli, intena, cur, kept>>

\* popcli: if(mycpu()->ncli == 0 && mycpu()->intena)
Sti(c) == ncli[c] - 1 = 0 /\ intena[c]

\* release and its popcli.
Release(c) ==
  /\ Next1(c, "release") /\ lkcpu[LockOf(c)] = c
  /\ lkcpu' = [lkcpu EXCEPT ![LockOf(c)] = Free]
  /\ ncli' = [ncli EXCEPT ![c] = @ - 1]
  /\ IF_' = IF Sti(c) THEN [IF_ EXCEPT ![c] = TRUE] ELSE IF_
  /\ GoesOn(c)
  /\ UNCHANGED <<intena, cur, kept>>

\* sched up to swtch; what comes after it is "resume".
Sched(c) ==
  /\ Next1(c, "sched")
  /\ kept' = [kept EXCEPT ![cur[c]] = intena[c]]
  /\ Becomes(c, Op("resume", ""))
  /\ cur' = [cur EXCEPT ![c] = c]
  /\ UNCHANGED <<lkcpu, IF_, ncli, intena>>

\* Mutant: intena stays with the CPU.
ResumeNothing(c) == intena

\* mycpu()->intena = intena
Restored(c) == [intena EXCEPT ![c] = kept[cur[c]]]

\* The end of sched, perhaps on another CPU.
Resume(c) ==
  /\ Next1(c, "resume")
  /\ intena' = Restored(c)
  /\ GoesOn(c)
  /\ UNCHANGED <<lkcpu, IF_, ncli, cur, kept>>

\* The scheduler of a CPU: sti and the lock,
SchedulerLoop(c) ==
  /\ cur[c] = c /\ code[c] = <<>> /\ lkcpu["ptable"] # c
  /\ IF_' = [IF_ EXCEPT ![c] = TRUE]
  /\ code' = [code EXCEPT ![c] = <<acquire("ptable")>>]
  /\ UNCHANGED <<lkcpu, ncli, intena, cur, kept>>

\* the switch to a process,
Swtch(c, p) ==
  /\ cur[c] = c /\ code[c] = <<>> /\ lkcpu["ptable"] = c
  /\ \A d \in Cpus : cur[d] # p
  /\ cur' = [cur EXCEPT ![c] = p]
  /\ UNCHANGED <<lkcpu, IF_, ncli, intena, code, kept>>

\* and the end of the loop over the processes.
SchedulerEnd(c) ==
  /\ cur[c] = c /\ code[c] = <<>> /\ lkcpu["ptable"] = c
  /\ code' = [code EXCEPT ![c] = <<release("ptable")>>]
  /\ UNCHANGED <<lkcpu, IF_, ncli, intena, cur, kept>>

\* A system call of a process in user space, where interrupts are on.
Syscall(c) ==
  /\ cur[c] \in SlProcs /\ code[cur[c]] = <<>>
  /\ code' = [code EXCEPT ![cur[c]] = Sys_sleep]
  /\ UNCHANGED <<lkcpu, IF_, ncli, intena, cur, kept>>

\* How the timer interrupt of a process ends: the process always yields
\* (ROUND_ROBIN), never (FCFS), when its slice is over (MLFQ), or after preempt
\* has compared priorities (PBS).
TrapEnds == {<<>>, Yield, preempt, preempt \o Yield}

\* The timer interrupt: the gate clears the flag, CPU 0 counts, and a process
\* perhaps gives the CPU up.
Timer(c) ==
  /\ IF_[c]
  /\ IF_' = [IF_ EXCEPT ![c] = FALSE]
  /\ \E y \in IF cur[c] \in SlProcs THEN TrapEnds ELSE {<<>>} :
       code' = [code EXCEPT ![cur[c]] = (IF c = 0 THEN Tick ELSE <<>>) \o y \o <<iret>> \o @]
  /\ UNCHANGED <<lkcpu, ncli, intena, cur, kept>>

\* iret gives the context the flag it was interrupted with, or the one fork made up.
Iret(c) ==
  /\ Next1(c, "iret")
  /\ IF_' = [IF_ EXCEPT ![c] = TRUE]
  /\ GoesOn(c)
  /\ UNCHANGED <<lkcpu, ncli, intena, cur, kept>>

SlNext ==
  \E c \in Cpus :
    \/ Acquire(c) \/ Spin(c) \/ Release(c) \/ Sched(c) \/ Resume(c)
    \/ SchedulerLoop(c) \/ (\E p \in SlProcs : Swtch(c, p)) \/ SchedulerEnd(c)
    \/ Syscall(c) \/ Timer(c) \/ Iret(c)

SlSpec == SlInit /\ [][SlNext]_SlVars

-----------------------------------------------------------------------------
HasOp(s, op) == \E i \in 1 .. Len(s) : s[i] = op
InHandler(x) == HasOp(code[x], iret)

\* A process that holds no lock has its interrupts on outside of a handler and
\* off in one, on whichever CPU it goes on ("intena is a property of this kernel
\* thread, not this CPU").  Only the scheduler, and a new process in forkret, have
\* what the process before them left; both turn interrupts on by themselves.
InterruptFlagFollows ==
  \A c \in Cpus :
    cur[c] \in SlProcs /\ ncli[c] = 0 /\ ~HasOp(code[cur[c]], trapret)
      => IF_[c] = ~InHandler(cur[c])

\* None of "acquire", "release", "popcli", "sched ptable.lock", "sched locks" and
\* "sched interruptible" panics ("sched running" is about the state of a process,
\* see Proc), since a CPU that holds or waits for a lock has its interrupts off, and
\* ncli counts those locks ("disable interrupts to avoid deadlock"): no handler
\* spins for a lock of the code it interrupted, no lock is taken twice or given back
\* by another CPU, and a process leaves its CPU with ptable.lock and no other lock.
LockPanicsNever ==
  \A c \in Cpus :
    /\ ncli[c] = Cardinality({l \in Locks : lkcpu[l] = c}) + (IF Next1(c, "spin") THEN 1 ELSE 0)
    /\ IF_[c] => ncli[c] = 0
    /\ Next1(c, "acquire") => lkcpu[LockOf(c)] # c
    /\ Next1(c, "release") => lkcpu[LockOf(c)] = c
    /\ Next1(c, "sched") => lkcpu["ptable"] = c /\ ncli[c] = 1 /\ ~IF_[c]
=============================================================================
