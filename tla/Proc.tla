-------------------------------- MODULE Proc --------------------------------
(***************************************************************************)
(* The process table of the xv6 kernel (proc.c) and the part of trap.c     *)
(* that drives it: fork, exit, wait/waitx, sleep, wakeup, kill, yield and  *)
(* the hand-over of ptable.lock between the scheduler and the processes.   *)
(*                                                                         *)
(* Every section of code that runs under ptable.lock is one action;        *)
(* statements outside the lock are actions of their own.  Which RUNNABLE   *)
(* process a CPU picks is left open here; Mlfq and SchedLoop fix it.       *)
(***************************************************************************)
EXTENDS Integers, FiniteSets

CONSTANTS
  NPROC,      \* param.h: size of ptable.proc
  CPUs,       \* the processors
  Chans,      \* sleep channels other than the address of a proc
  NoChan,     \* the null channel
  NoCPU,      \* ptable.lock is not held
  KillArgs,   \* the pids user programs pass to kill()
  MaxPid      \* bound: the last pid handed out

Slots == 0 .. NPROC - 1

\* Null struct proc pointer.
NoProc == -1

\* The first process made by userinit takes slot 0 and pid 1.
initproc == 0

ASSUME ConstAssumption ==
  /\ NPROC \in Nat \ {0}
  /\ MaxPid \in Nat
  /\ KillArgs \subseteq Nat
  /\ NoCPU \notin CPUs
  /\ NoChan \notin Chans
  /\ \A ch \in Chans \cup {NoChan} : ch \notin Int

VARIABLES
  state, pid, parent, chan, killed,  \* fields of ptable.proc[]
  nextpid,                           \* the pid allocproc hands out next
  cproc,                             \* cpus[c].proc
  lock,                              \* the CPU holding ptable.lock, or NoCPU
  pc,                                \* what a process is executing
  kctx,                              \* where its saved kernel context resumes
  np                                 \* fork's local variable np

table == <<state, pid, parent, chan, killed, nextpid>>
vars == <<table, cproc, lock, pc, kctx, np>>

States == {"UNUSED", "EMBRYO", "SLEEPING", "RUNNABLE", "RUNNING", "ZOMBIE"}

\* user: user code.  sys: a system call before its work.  fork: fork after
\* allocproc.  wait: inside the loop of wait.  io: a system call that has
\* slept.  ret: past syscall(), before the killed test of trap.  exit: in
\* exit, closing files.
PCs == {"user", "sys", "fork", "wait", "io", "ret", "exit"}

\* The swtch a process that is not running is stopped in.
KCtxs == {"run", "forkret", "yield", "sleep", "wait"}

Free == lock = NoCPU

\* A loop over the table stops at the first slot that meets its test.
IsFirst(p, S) == p \in S /\ \A q \in S : p <= q

Children(p) == {q \in Slots : parent[q] = p}
ZombieChildren(p) == {q \in Children(p) : state[q] = "ZOMBIE"}

\* The processes wakeup1(ch) makes RUNNABLE.
Sleepers(ch) == {p \in Slots : state[p] = "SLEEPING" /\ chan[p] = ch}

\* CPU c runs process p and p is not inside a ptable.lock section.
Executes(c, p) == cproc[c] = p /\ p # NoProc /\ lock # c

\* After userinit: one RUNNABLE process, all other slots zero.
Init ==
  /\ state = [p \in Slots |-> IF p = initproc THEN "RUNNABLE" ELSE "UNUSED"]
  /\ pid = [p \in Slots |-> IF p = initproc THEN 1 ELSE 0]
  /\ parent = [p \in Slots |-> NoProc]
  /\ chan = [p \in Slots |-> NoChan]
  /\ killed = [p \in Slots |-> FALSE]
  /\ nextpid = 2
  /\ cproc = [c \in CPUs |-> NoProc]
  /\ lock = NoCPU
  /\ pc = [p \in Slots |-> "user"]
  /\ kctx = [p \in Slots |-> "forkret"]
  /\ np = [p \in Slots |-> NoProc]

-----------------------------------------------------------------------------
(* The scheduler and the hand-over of ptable.lock. *)

\* scheduler() switches to p; p's context continues with the lock held.
Dispatch(c, p) ==
  /\ Free /\ cproc[c] = NoProc
  /\ state[p] = "RUNNABLE"
  /\ state' = [state EXCEPT ![p] = "RUNNING"]
  /\ cproc' = [cproc EXCEPT ![c] = p]
  /\ lock' = c
  /\ UNCHANGED <<pid, parent, chan, killed, nextpid, pc, kctx, np>>

\* The context of p returns from swtch: forkret and yield release the lock,
\* sleep clears chan and releases it.  (wait keeps it: see WaitResume.)
Resume(c) ==
  \E p \in Slots :
    /\ lock = c /\ cproc[c] = p
    /\ kctx[p] \in {"forkret", "yield", "sleep"}
    /\ chan' = IF kctx[p] = "sleep" THEN [chan EXCEPT ![p] = NoChan] ELSE chan
    /\ pc' = IF kctx[p] = "sleep" /\ pc[p] = "sys" THEN [pc EXCEPT ![p] = "io"]
             ELSE pc
    /\ kctx' = [kctx EXCEPT ![p] = "run"]
    /\ lock' = NoCPU
    /\ UNCHANGED <<state, pid, parent, killed, nextpid, cproc, np>>

\* Mutant: scheduler() does not clear c->proc after swtch.
LeaveKeepProc(c, p, k) ==
  /\ cproc' = cproc
  /\ kctx' = [kctx EXCEPT ![p] = k]
  /\ lock' = NoCPU

\* p gives the CPU back: sched() stops p in context k, and scheduler() clears
\* c->proc and releases the lock.
Leave(c, p, k) ==
  /\ cproc' = [cproc EXCEPT ![c] = NoProc]
  /\ kctx' = [kctx EXCEPT ![p] = k]
  /\ lock' = NoCPU

\* trap() sends a killed process that was in user space to exit().
KilledInUser(p) == killed[p] /\ pc[p] = "user"

\* trap() on a timer interrupt, in user or in kernel code: yield().
Yield(c) ==
  \E p \in Slots :
    /\ Free /\ Executes(c, p) /\ ~KilledInUser(p)
    /\ state' = [state EXCEPT ![p] = "RUNNABLE"]
    /\ Leave(c, p, "yield")
    /\ UNCHANGED <<pid, parent, chan, killed, nextpid, pc, np>>

-----------------------------------------------------------------------------
(* System calls. *)

\* trap() with T_SYSCALL: a process that was not killed enters the kernel.
Syscall(c) ==
  \E p \in Slots :
    /\ Executes(c, p) /\ pc[p] = "user" /\ ~killed[p]
    /\ pc' = [pc EXCEPT ![p] = "sys"]
    /\ UNCHANGED <<table, cproc, lock, kctx, np>>

\* syscall() is done and the process was not killed: back to user space.
SysRet(c) ==
  \E p \in Slots :
    /\ Executes(c, p) /\ pc[p] = "ret" /\ ~killed[p]
    /\ pc' = [pc EXCEPT ![p] = "user"]
    /\ UNCHANGED <<table, cproc, lock, kctx, np>>

\* A system call that needs nothing of the table, or is done sleeping.
SysDone(c) ==
  \E p \in Slots :
    /\ Executes(c, p) /\ pc[p] \in {"sys", "io"}
    /\ pc' = [pc EXCEPT ![p] = "ret"]
    /\ UNCHANGED <<table, cproc, lock, kctx, np>>

\* Mutant: the pid is not advanced when the slot's last owner was never reaped.
NextPidReuse(q) == IF pid[q] = 0 THEN nextpid + 1 ELSE nextpid

\* p->pid = nextpid++
NextPid(q) == nextpid + 1

\* allocproc: the first UNUSED slot becomes EMBRYO.  killed and chan keep
\* whatever the slot's last user left in them.
Allocproc(c) ==
  \E p, q \in Slots :
    /\ Free /\ Executes(c, p) /\ pc[p] = "sys"
    /\ nextpid <= MaxPid
    /\ IsFirst(q, {s \in Slots : state[s] = "UNUSED"})
    /\ state' = [state EXCEPT ![q] = "EMBRYO"]
    /\ pid' = [pid EXCEPT ![q] = nextpid]
    /\ nextpid' = NextPid(q)
    /\ np' = [np EXCEPT ![p] = q]
    /\ pc' = [pc EXCEPT ![p] = "fork"]
    /\ UNCHANGED <<parent, chan, killed, cproc, lock, kctx>>

\* allocproc finds no UNUSED slot and fork returns -1.
AllocprocFull(c) ==
  \E p \in Slots :
    /\ Free /\ Executes(c, p) /\ pc[p] = "sys"
    /\ \A s \in Slots : state[s] # "UNUSED"
    /\ pc' = [pc EXCEPT ![p] = "ret"]
    /\ UNCHANGED <<table, cproc, lock, kctx, np>>

\* kalloc or copyuvm fails: the slot is UNUSED again (without ptable.lock);
\* its pid stays.
ForkFail(c) ==
  \E p \in Slots :
    /\ Executes(c, p) /\ pc[p] = "fork"
    /\ state' = [state EXCEPT ![np[p]] = "UNUSED"]
    /\ np' = [np EXCEPT ![p] = NoProc]
    /\ pc' = [pc EXCEPT ![p] = "ret"]
    /\ UNCHANGED <<pid, parent, chan, killed, nextpid, cproc, lock, kctx>>

\* The rest of fork: parent is set before the lock is taken, but only the
\* parent itself reads it while the child is EMBRYO; then RUNNABLE.
Fork(c) ==
  \E p \in Slots :
    /\ Free /\ Executes(c, p) /\ pc[p] = "fork"
    /\ parent' = [parent EXCEPT ![np[p]] = p]
    /\ state' = [state EXCEPT ![np[p]] = "RUNNABLE"]
    /\ kctx' = [kctx EXCEPT ![np[p]] = "forkret"]
    /\ pc' = [pc EXCEPT ![p] = "ret", ![np[p]] = "user"]
    /\ np' = [np EXCEPT ![p] = NoProc]
    /\ UNCHANGED <<pid, chan, killed, nextpid, cproc, lock>>

\* exit() is entered from sys_exit or from trap (a killed process on its way
\* to user space, or a fault, which sets killed first).  Closing the files and
\* the log operation for cwd may sleep.  exit panics in init.
BeginExit(c) ==
  \E p \in Slots \ {initproc} :
    /\ Executes(c, p)
    /\ pc[p] \in {"user", "sys"} \/ (pc[p] = "ret" /\ killed[p])
    /\ killed' = [killed EXCEPT ![p] = @ \/ pc[p] = "user"]
    /\ pc' = [pc EXCEPT ![p] = "exit"]
    /\ UNCHANGED <<state, pid, parent, chan, nextpid, cproc, lock, kctx, np>>

\* Mutant: init is not woken for children that are ZOMBIE already.
ExitWokenParentOnly(p) == Sleepers(parent[p])

\* The processes exit wakes: the parent, and init when it inherits a ZOMBIE.
ExitWoken(p) ==
  Sleepers(parent[p])
    \cup (IF ZombieChildren(p) # {} THEN Sleepers(initproc) ELSE {})

\* Mutant: only children that still run are passed on.
ReparentLiveOnly(p) ==
  [q \in Slots |-> IF parent[q] = p /\ state[q] # "ZOMBIE" THEN initproc
                  ELSE parent[q]]

\* "Pass abandoned children to init."
Reparent(p) ==
  [q \in Slots |-> IF parent[q] = p THEN initproc ELSE parent[q]]

\* The rest of exit, under ptable.lock.
Exit(c) ==
  \E p \in Slots :
    /\ Free /\ Executes(c, p) /\ pc[p] = "exit"
    /\ parent' = Reparent(p)
    /\ state' = [q \in Slots |-> IF q = p THEN "ZOMBIE"
                                 ELSE IF q \in ExitWoken(p) THEN "RUNNABLE"
                                 ELSE state[q]]
    /\ Leave(c, p, "run")
    /\ UNCHANGED <<pid, chan, killed, nextpid, pc, np>>

\* One pass of the loop of wait (and waitx): reap the first ZOMBIE child, or
\* give up without children or when killed, or sleep on the own address.
Reap(p, z) ==
  /\ IsFirst(z, ZombieChildren(p))
  /\ state' = [state EXCEPT ![z] = "UNUSED"]
  /\ pid' = [pid EXCEPT ![z] = 0]
  /\ parent' = [parent EXCEPT ![z] = NoProc]
  /\ killed' = [killed EXCEPT ![z] = FALSE]

WaitReturn(p) ==
  /\ pc' = [pc EXCEPT ![p] = "ret"]
  /\ chan' = [chan EXCEPT ![p] = NoChan]
  /\ kctx' = [kctx EXCEPT ![p] = "run"]
  /\ lock' = NoCPU
  /\ UNCHANGED <<nextpid, cproc, np>>

WaitReap(p) == \E z \in Slots : Reap(p, z) /\ WaitReturn(p)

WaitNothing(p) ==
  /\ ZombieChildren(p) = {}
  /\ Children(p) = {} \/ killed[p]
  /\ WaitReturn(p)
  /\ UNCHANGED <<state, pid, parent, killed>>

WaitSleep(c, p) ==
  /\ ZombieChildren(p) = {} /\ Children(p) # {} /\ ~killed[p]
  /\ chan' = [chan EXCEPT ![p] = p]
  /\ state' = [state EXCEPT ![p] = "SLEEPING"]
  /\ pc' = [pc EXCEPT ![p] = "wait"]
  /\ Leave(c, p, "wait")
  /\ UNCHANGED <<pid, parent, killed, nextpid, np>>

WaitScan(c, p) == WaitReap(p) \/ WaitNothing(p) \/ WaitSleep(c, p)

Wait(c) ==
  \E p \in Slots : Free /\ Executes(c, p) /\ pc[p] = "sys" /\ WaitScan(c, p)

\* A process woken in wait still holds ptable.lock and scans again.
WaitResume(c) ==
  \E p \in Slots :
    lock = c /\ cproc[c] = p /\ kctx[p] = "wait" /\ WaitScan(c, p)

\* sleep(ch, lk) with a lock other than ptable.lock.
Sleep(c, ch) ==
  \E p \in Slots :
    /\ Free /\ Executes(c, p) /\ pc[p] \in {"sys", "io", "exit"}
    /\ chan' = [chan EXCEPT ![p] = ch]
    /\ state' = [state EXCEPT ![p] = "SLEEPING"]
    /\ Leave(c, p, "sleep")
    /\ UNCHANGED <<pid, parent, killed, nextpid, pc, np>>

\* wakeup(ch), from a process or from an interrupt handler.
Wakeup(ch) ==
  /\ Free /\ Sleepers(ch) # {}
  /\ state' = [p \in Slots |-> IF p \in Sleepers(ch) THEN "RUNNABLE" ELSE state[p]]
  /\ UNCHANGED <<pid, parent, chan, killed, nextpid, cproc, lock, pc, kctx, np>>

\* kill(a): the first slot whose pid field is a, whatever its state.
Kill(c, a) ==
  \E p, q \in Slots :
    /\ Free /\ Executes(c, p) /\ pc[p] = "sys"
    /\ IsFirst(q, {s \in Slots : pid[s] = a})
    /\ killed' = [killed EXCEPT ![q] = TRUE]
    /\ state' = IF state[q] = "SLEEPING" THEN [state EXCEPT ![q] = "RUNNABLE"]
                ELSE state
    /\ pc' = [pc EXCEPT ![p] = "ret"]
    /\ UNCHANGED <<pid, parent, chan, nextpid, cproc, lock, kctx, np>>

Step(c) ==
  \/ \E p \in Slots : Dispatch(c, p)
  \/ Resume(c) \/ Yield(c)
  \/ Syscall(c) \/ SysRet(c) \/ SysDone(c)
  \/ Allocproc(c) \/ AllocprocFull(c) \/ ForkFail(c) \/ Fork(c)
  \/ BeginExit(c) \/ Exit(c) \/ Wait(c) \/ WaitResume(c)
  \/ \E ch \in Chans : Sleep(c, ch)
  \/ \E a \in KillArgs : Kill(c, a)

Next ==
  \/ \E c \in CPUs : Step(c)
  \/ \E ch \in Chans : Wakeup(ch)

Spec == Init /\ [][Next]_vars

-----------------------------------------------------------------------------
(* Properties. *)

TypeOK ==
  /\ state \in [Slots -> States]
  /\ pid \in [Slots -> Nat]
  /\ parent \in [Slots -> Slots \cup {NoProc}]
  /\ chan \in [Slots -> Chans \cup Slots \cup {NoChan}]
  /\ killed \in [Slots -> BOOLEAN]
  /\ nextpid \in Nat
  /\ cproc \in [CPUs -> Slots \cup {NoProc}]
  /\ lock \in CPUs \cup {NoCPU}
  /\ pc \in [Slots -> PCs]
  /\ kctx \in [Slots -> KCtxs]
  /\ np \in [Slots -> Slots \cup {NoProc}]
  /\ \A p \in Slots : np[p] # NoProc <=> pc[p] = "fork"

\* A process is RUNNING exactly when one CPU has it as c->proc, and never on
\* two: the state field and the per-CPU pointers are changed by different
\* code (scheduler, yield, sleep, exit), all relying on ptable.lock.
CpuExclusive ==
  /\ \A c, d \in CPUs : cproc[c] = cproc[d] /\ cproc[c] # NoProc => c = d
  /\ \A p \in Slots : state[p] = "RUNNING" <=> \E c \in CPUs : cproc[c] = p

\* exit hands children to init before the parent turns ZOMBIE: the parent of
\* every process (but init) is alive, so somebody can still reap it.
Alive == {p \in Slots : state[p] \in {"SLEEPING", "RUNNABLE", "RUNNING"}}

NoOrphan ==
  \A p \in Slots \ {initproc} :
    state[p] \in {"SLEEPING", "RUNNABLE", "RUNNING", "ZOMBIE"} => parent[p] \in Alive

\* A process asleep in wait has a child to wait for, none of its children is
\* ZOMBIE already, and it was not killed: the tests of wait and the wakeups of
\* exit and kill are under one lock, so none is lost (DOC: wait-sleep).
NoLostExit ==
  \A p \in Slots : state[p] = "SLEEPING" /\ kctx[p] = "wait" =>
    ~killed[p] /\ Children(p) # {} /\ ZombieChildren(p) = {}

\* No two processes share a pid, and none has pid 0: slots that a failed fork
\* left with a pid never clash with the process a pid was given to (as long as
\* nextpid, an int, has not wrapped).
PidsUnique ==
  \A p, q \in Slots :
    state[p] # "UNUSED" => pid[p] # 0 /\ (pid[q] = pid[p] => q = p)

(***************************************************************************)
(* The strengthening that makes the invariants above inductive.            *)
(***************************************************************************)

\* init never leaves: it is what exit hands abandoned children to.
InitAlive == initproc \in Alive /\ pc[initproc] # "exit"

\* The slot fork works on is EMBRYO and belongs to that fork alone.
EmbryoOwned ==
  /\ \A p \in Slots : pc[p] = "fork" => p \in Alive /\ state[np[p]] = "EMBRYO"
  /\ \A p, q \in Slots : np[p] = np[q] /\ np[p] # NoProc => p = q

\* Free slots, unfinished children and init are nobody's child, and nobody is
\* a child of its own.
FreeUnparented ==
  \A p \in Slots :
    /\ parent[p] # p
    /\ state[p] \in {"UNUSED", "EMBRYO"} \/ p = initproc => parent[p] = NoProc

\* wait sleeps on the address of its own proc, which is what exit wakes.
WaitChan ==
  \A p \in Slots : state[p] = "SLEEPING" /\ kctx[p] = "wait" => chan[p] = p

\* Where a process is stopped agrees with what it was executing; one that
\* executes outside of ptable.lock is not stopped anywhere.
StoppedAt ==
  /\ \A p \in Slots : /\ kctx[p] = "sleep" => pc[p] \in {"sys", "io", "exit"}
                      /\ kctx[p] = "wait" => pc[p] = "wait"
  /\ \A c \in CPUs, p \in Slots : cproc[c] = p /\ lock # c => kctx[p] = "run"

PidsBelow == \A p \in Slots : pid[p] < nextpid

IInv ==
  /\ TypeOK /\ CpuExclusive /\ NoOrphan /\ NoLostExit /\ PidsUnique
  /\ InitAlive /\ EmbryoOwned /\ FreeUnparented /\ WaitChan /\ StoppedAt
  /\ PidsBelow

\* allocproc hands out a process that nobody has killed ("Kill the process
\* with the given pid"): a kill never reaches a process that did not exist.
BornAlive ==
  [][\A p \in Slots : state[p] = "UNUSED" /\ state'[p] = "EMBRYO"
                        => ~killed'[p]]_vars
=============================================================================
