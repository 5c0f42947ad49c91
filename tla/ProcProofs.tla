----------------------------- MODULE ProcProofs -----------------------------
(***************************************************************************)
(* IInv of Proc is an inductive invariant, for any number of slots, CPUs,  *)
(* channels and pids.  One lemma per action, one step per conjunct.        *)
(***************************************************************************)
EXTENDS Proc, TLAPS

\* scheduler() switches to a process.
LEMMA DispatchStep ==
  ASSUME IInv, NEW c \in CPUs, NEW p \in Slots, Dispatch(c, p)
  PROVE  IInv'
<1>. USE ConstAssumption DEF IInv, TypeOK, Slots, NoProc, initproc
<1>1. TypeOK'
  BY Zenon DEF Dispatch, PCs, KCtxs, States
<1>2. CpuExclusive'
  <2>1. \A d \in CPUs : cproc[d] # p
    BY Zenon DEF Dispatch, CpuExclusive
  <2>2. cproc' = [cproc EXCEPT ![c] = p] /\ state' = [state EXCEPT ![p] = "RUNNING"]
    BY Zenon DEF Dispatch
  <2>3. cproc[c] = NoProc /\ state[p] # "RUNNING"
    BY Zenon DEF Dispatch
  <2>4. \A d, e \in CPUs : cproc'[d] = cproc'[e] /\ cproc'[d] # NoProc => d = e
    BY <2>1, <2>2, <2>3 DEF CpuExclusive
  <2>5. ASSUME NEW q \in Slots
        PROVE  state'[q] = "RUNNING" <=> \E d \in CPUs : cproc'[d] = q
    BY <2>1, <2>2, <2>3 DEF CpuExclusive
  <2>. QED
    BY <2>4, <2>5, Zenon DEF CpuExclusive
<1>3. NoOrphan'
  BY DEF Dispatch, NoOrphan, Alive
<1>4. NoLostExit'
  BY DEF Dispatch, NoLostExit, Children, ZombieChildren
<1>5. PidsUnique'
  BY Zenon DEF Dispatch, PidsUnique
<1>6. InitAlive'
  BY Zenon DEF Dispatch, InitAlive, Alive
<1>7. EmbryoOwned'
  BY DEF Dispatch, EmbryoOwned, Alive
<1>8. FreeUnparented'
  BY Zenon DEF Dispatch, FreeUnparented
<1>9. WaitChan'
  BY Zenon DEF Dispatch, WaitChan
<1>10. StoppedAt'
  <2>1. /\ lock = NoCPU /\ lock' = c /\ pc' = pc /\ kctx' = kctx
        /\ cproc' = [cproc EXCEPT ![c] = p]
    BY Zenon DEF Dispatch, Free
  <2>2. ASSUME NEW d \in CPUs, NEW q \in Slots, cproc'[d] = q, lock' # d
        PROVE  kctx'[q] = "run"
    BY <2>1, <2>2, Zenon DEF StoppedAt
  <2>. QED
    BY <2>1, <2>2, Zenon DEF StoppedAt
<1>11. PidsBelow'
  BY Zenon DEF Dispatch, PidsBelow
<1>. QED
  BY <1>1, <1>2, <1>3, <1>4, <1>5, <1>6, <1>7, <1>8, <1>9, <1>10, <1>11, Zenon DEF IInv

\* swtch returns in forkret, yield or sleep.
LEMMA ResumeStep ==
  ASSUME IInv, NEW c \in CPUs, Resume(c)
  PROVE  IInv'
<1>. USE ConstAssumption DEF IInv, TypeOK, Slots, NoProc, initproc
<1>1. TypeOK'
  BY DEF Resume, PCs, KCtxs, States, StoppedAt
<1>2. CpuExclusive'
  BY DEF Resume, CpuExclusive
<1>3. NoOrphan'
  BY Zenon DEF Resume, NoOrphan, Alive
<1>4. NoLostExit'
  BY DEF Resume, NoLostExit, Children, ZombieChildren
<1>5. PidsUnique'
  BY Zenon DEF Resume, PidsUnique
<1>6. InitAlive'
  BY DEF Resume, InitAlive, Alive
<1>7. EmbryoOwned'
  BY DEF Resume, EmbryoOwned, Alive
<1>8. FreeUnparented'
  BY Zenon DEF Resume, FreeUnparented
<1>9. WaitChan'
  BY DEF Resume, WaitChan
<1>10. StoppedAt'
  BY DEF Resume, StoppedAt
<1>11. PidsBelow'
  BY DEF Resume, PidsBelow
<1>. QED
  BY <1>1, <1>2, <1>3, <1>4, <1>5, <1>6, <1>7, <1>8, <1>9, <1>10, <1>11, Zenon DEF IInv

\* yield() keeps the invariant.
LEMMA YieldStep ==
  ASSUME IInv, NEW c \in CPUs, Yield(c)
  PROVE  IInv'
<1>. USE ConstAssumption DEF IInv, TypeOK, Slots, NoProc, initproc
<1>1. TypeOK'
  BY DEF Yield, Leave, Executes, PCs, KCtxs, States
<1>2. CpuExclusive'
  BY DEF Yield, Leave, Executes, CpuExclusive
<1>3. NoOrphan'
  BY DEF Yield, Leave, Executes, NoOrphan, Alive, CpuExclusive
<1>4. NoLostExit'
  BY DEF Yield, Leave, Executes, NoLostExit, Children, ZombieChildren
<1>5. PidsUnique'
  <2>1. PICK p \in Slots : state[p] = "RUNNING" /\ state' = [state EXCEPT ![p] = "RUNNABLE"]
    BY Zenon DEF Yield, Executes, Leave, CpuExclusive
  <2>2. pid' = pid /\ pc' = pc /\ np' = np
    BY Zenon DEF Yield
  <2>. QED
    BY <2>1, <2>2, Zenon DEF PidsUnique
<1>6. InitAlive'
  BY Zenon DEF Yield, Leave, Executes, InitAlive, Alive
<1>7. EmbryoOwned'
  BY DEF Yield, Leave, Executes, EmbryoOwned, Alive, CpuExclusive
<1>8. FreeUnparented'
  BY DEF Yield, Leave, Executes, FreeUnparented
<1>9. WaitChan'
  BY DEF Yield, Leave, Executes, WaitChan
<1>10. StoppedAt'
  <2>1. PICK p \in Slots : /\ cproc[c] = p /\ lock \in {c, NoCPU}
          /\ cproc' = [cproc EXCEPT ![c] = NoProc] /\ lock' = NoCPU
          /\ kctx' = [kctx EXCEPT ![p] = "yield"] /\ pc' = pc
    BY Zenon DEF Yield, Executes, Free, Leave
  <2>2. \A d \in CPUs \ {c} : cproc[d] # p
    BY <2>1 DEF CpuExclusive
  <2>3. ASSUME NEW q \in Slots
        PROVE  /\ kctx'[q] = "sleep" => pc'[q] \in {"sys", "io", "exit"}
               /\ kctx'[q] = "wait" => pc'[q] = "wait"
    BY <2>1, Zenon DEF StoppedAt
  <2>4. ASSUME NEW d \in CPUs, NEW q \in Slots, cproc'[d] = q
        PROVE  kctx'[q] = "run"
    <3>1. d # c /\ q # p /\ lock # d
      BY <2>1, <2>2, <2>4
    <3>. QED
      BY <2>1, <2>4, <3>1, Zenon DEF StoppedAt
  <2>. QED
    BY <2>3, <2>4, Zenon DEF StoppedAt
<1>11. PidsBelow'
  BY DEF Yield, Leave, Executes, PidsBelow
<1>. QED
  BY <1>1, <1>2, <1>3, <1>4, <1>5, <1>6, <1>7, <1>8, <1>9, <1>10, <1>11, Zenon DEF IInv

\* A process enters the kernel.
LEMMA SyscallStep ==
  ASSUME IInv, NEW c \in CPUs, Syscall(c)
  PROVE  IInv'
<1>. USE ConstAssumption DEF IInv, TypeOK, Slots, NoProc, initproc
<1>1. TypeOK'
  BY DEF Syscall, Executes, table, PCs, KCtxs, States
<1>2. CpuExclusive'
  BY DEF Syscall, Executes, table, CpuExclusive
<1>3. NoOrphan'
  BY Zenon DEF Syscall, Executes, table, NoOrphan, Alive
<1>4. NoLostExit'
  BY DEF Syscall, Executes, table, NoLostExit, Children, ZombieChildren
<1>5. PidsUnique'
  BY Zenon DEF Syscall, Executes, table, PidsUnique
<1>6. InitAlive'
  BY Zenon DEF Syscall, Executes, table, InitAlive, Alive
<1>7. EmbryoOwned'
  BY DEF Syscall, Executes, table, EmbryoOwned, Alive
<1>8. FreeUnparented'
  BY Zenon DEF Syscall, Executes, table, FreeUnparented
<1>9. WaitChan'
  BY Zenon DEF Syscall, Executes, table, WaitChan
<1>10. StoppedAt'
  BY DEF Syscall, Executes, table, StoppedAt
<1>11. PidsBelow'
  BY DEF Syscall, Executes, table, PidsBelow
<1>. QED
  BY <1>1, <1>2, <1>3, <1>4, <1>5, <1>6, <1>7, <1>8, <1>9, <1>10, <1>11, Zenon DEF IInv

\* A process returns to user space.
LEMMA SysRetStep ==
  ASSUME IInv, NEW c \in CPUs, SysRet(c)
  PROVE  IInv'
<1>. USE ConstAssumption DEF IInv, TypeOK, Slots, NoProc, initproc
<1>1. TypeOK'
  BY DEF SysRet, Executes, table, PCs, KCtxs, States
<1>2. CpuExclusive'
  BY DEF SysRet, Executes, table, CpuExclusive
<1>3. NoOrphan'
  BY Zenon DEF SysRet, Executes, table, NoOrphan, Alive
<1>4. NoLostExit'
  BY DEF SysRet, Executes, table, NoLostExit, Children, ZombieChildren
<1>5. PidsUnique'
  BY Zenon DEF SysRet, Executes, table, PidsUnique
<1>6. InitAlive'
  BY Zenon DEF SysRet, Executes, table, InitAlive, Alive
<1>7. EmbryoOwned'
  BY DEF SysRet, Executes, table, EmbryoOwned, Alive
<1>8. FreeUnparented'
  BY Zenon DEF SysRet, Executes, table, FreeUnparented
<1>9. WaitChan'
  BY Zenon DEF SysRet, Executes, table, WaitChan
<1>10. StoppedAt'
  BY DEF SysRet, Executes, table, StoppedAt
<1>11. PidsBelow'
  BY DEF SysRet, Executes, table, PidsBelow
<1>. QED
  BY <1>1, <1>2, <1>3, <1>4, <1>5, <1>6, <1>7, <1>8, <1>9, <1>10, <1>11, Zenon DEF IInv

\* A system call that leaves the table alone ends.
LEMMA SysDoneStep ==
  ASSUME IInv, NEW c \in CPUs, SysDone(c)
  PROVE  IInv'
<1>. USE ConstAssumption DEF IInv, TypeOK, Slots, NoProc, initproc
<1>1. TypeOK'
  BY SMTT(40) DEF SysDone, Executes, table, PCs, KCtxs, States
<1>2. CpuExclusive'
  BY DEF SysDone, Executes, table, CpuExclusive
<1>3. NoOrphan'
  BY Zenon DEF SysDone, Executes, table, NoOrphan, Alive
<1>4. NoLostExit'
  BY DEF SysDone, Executes, table, NoLostExit, Children, ZombieChildren
<1>5. PidsUnique'
  BY Zenon DEF SysDone, Executes, table, PidsUnique
<1>6. InitAlive'
  BY Zenon DEF SysDone, Executes, table, InitAlive, Alive
<1>7. EmbryoOwned'
  BY DEF SysDone, Executes, table, EmbryoOwned, Alive
<1>8. FreeUnparented'
  BY Zenon DEF SysDone, Executes, table, FreeUnparented
<1>9. WaitChan'
  BY Zenon DEF SysDone, Executes, table, WaitChan
<1>10. StoppedAt'
  BY DEF SysDone, Executes, table, StoppedAt
<1>11. PidsBelow'
  BY DEF SysDone, Executes, table, PidsBelow
<1>. QED
  BY <1>1, <1>2, <1>3, <1>4, <1>5, <1>6, <1>7, <1>8, <1>9, <1>10, <1>11, Zenon DEF IInv

\* allocproc() takes a slot and a pid.
LEMMA AllocprocStep ==
  ASSUME IInv, NEW c \in CPUs, Allocproc(c)
  PROVE  IInv'
<1>. USE ConstAssumption DEF IInv, TypeOK, Slots, NoProc, initproc
<1>1. TypeOK'
  BY SMTT(40) DEF Allocproc, Executes, IsFirst, NextPid, PCs, KCtxs, States
<1>2. CpuExclusive'
  BY DEF Allocproc, Executes, IsFirst, NextPid, CpuExclusive
<1>3. NoOrphan'
  BY DEF Allocproc, Executes, IsFirst, NextPid, NoOrphan, Alive
<1>4. NoLostExit'
  BY DEF Allocproc, Executes, IsFirst, NextPid, NoLostExit, Children, ZombieChildren
<1>5. PidsUnique'
  BY DEF Allocproc, Executes, IsFirst, NextPid, PidsUnique, PidsBelow
<1>6. InitAlive'
  BY DEF Allocproc, Executes, IsFirst, NextPid, InitAlive, Alive
<1>7. EmbryoOwned'
  BY SMTT(40) DEF Allocproc, Executes, IsFirst, NextPid, EmbryoOwned, Alive, CpuExclusive
<1>8. FreeUnparented'
  BY DEF Allocproc, Executes, IsFirst, NextPid, FreeUnparented, InitAlive, Alive
<1>9. WaitChan'
  BY Zenon DEF Allocproc, Executes, IsFirst, NextPid, WaitChan
<1>10. StoppedAt'
  BY DEF Allocproc, Executes, IsFirst, NextPid, StoppedAt
<1>11. PidsBelow'
  BY DEF Allocproc, Executes, IsFirst, NextPid, PidsBelow
<1>. QED
  BY <1>1, <1>2, <1>3, <1>4, <1>5, <1>6, <1>7, <1>8, <1>9, <1>10, <1>11, Zenon DEF IInv

\* allocproc() finds no slot.
LEMMA AllocprocFullStep ==
  ASSUME IInv, NEW c \in CPUs, AllocprocFull(c)
  PROVE  IInv'
<1>. USE ConstAssumption DEF IInv, TypeOK, Slots, NoProc, initproc
<1>1. TypeOK'
  BY SMTT(40) DEF AllocprocFull, Executes, table, PCs, KCtxs, States
<1>2. CpuExclusive'
  BY DEF AllocprocFull, Executes, table, CpuExclusive
<1>3. NoOrphan'
  BY Zenon DEF AllocprocFull, Executes, table, NoOrphan, Alive
<1>4. NoLostExit'
  BY DEF AllocprocFull, Executes, table, NoLostExit, Children, ZombieChildren
<1>5. PidsUnique'
  BY Zenon DEF AllocprocFull, Executes, table, PidsUnique
<1>6. InitAlive'
  BY Zenon DEF AllocprocFull, Executes, table, InitAlive, Alive
<1>7. EmbryoOwned'
  BY DEF AllocprocFull, Executes, table, EmbryoOwned, Alive
<1>8. FreeUnparented'
  BY Zenon DEF AllocprocFull, Executes, table, FreeUnparented
<1>9. WaitChan'
  BY Zenon DEF AllocprocFull, Executes, table, WaitChan
<1>10. StoppedAt'
  BY DEF AllocprocFull, Executes, table, StoppedAt
<1>11. PidsBelow'
  BY DEF AllocprocFull, Executes, table, PidsBelow
<1>. QED
  BY <1>1, <1>2, <1>3, <1>4, <1>5, <1>6, <1>7, <1>8, <1>9, <1>10, <1>11, Zenon DEF IInv

\* fork() gives its slot back after kalloc or copyuvm failed.
LEMMA ForkFailStep ==
  ASSUME IInv, NEW c \in CPUs, ForkFail(c)
  PROVE  IInv'
<1>. USE ConstAssumption DEF IInv, TypeOK, Slots, NoProc, initproc
<1>1. TypeOK'
  BY SMTT(40) DEF ForkFail, Executes, PCs, KCtxs, States
<1>2. CpuExclusive'
  BY DEF ForkFail, Executes, CpuExclusive, EmbryoOwned
<1>3. NoOrphan'
  BY DEF ForkFail, Executes, NoOrphan, Alive, EmbryoOwned
<1>4. NoLostExit'
  BY DEF ForkFail, Executes, NoLostExit, Children, ZombieChildren
<1>5. PidsUnique'
  BY Zenon DEF ForkFail, Executes, PidsUnique
<1>6. InitAlive'
  BY DEF ForkFail, Executes, InitAlive, Alive, EmbryoOwned
<1>7. EmbryoOwned'
  BY DEF ForkFail, Executes, EmbryoOwned, Alive
<1>8. FreeUnparented'
  BY DEF ForkFail, Executes, FreeUnparented, EmbryoOwned
<1>9. WaitChan'
  BY Zenon DEF ForkFail, Executes, WaitChan
<1>10. StoppedAt'
  BY DEF ForkFail, Executes, StoppedAt
<1>11. PidsBelow'
  BY DEF ForkFail, Executes, PidsBelow
<1>. QED
  BY <1>1, <1>2, <1>3, <1>4, <1>5, <1>6, <1>7, <1>8, <1>9, <1>10, <1>11, Zenon DEF IInv

\* fork() makes its child RUNNABLE.
LEMMA ForkStep ==
  ASSUME IInv, NEW c \in CPUs, Fork(c)
  PROVE  IInv'
<1>. USE ConstAssumption DEF IInv, TypeOK, Slots, NoProc, initproc
<1>1. TypeOK'
  <2>1. PICK p \in Slots : /\ Executes(c, p) /\ pc[p] = "fork"
                          /\ parent' = [parent EXCEPT ![np[p]] = p]
                          /\ state' = [state EXCEPT ![np[p]] = "RUNNABLE"]
                          /\ kctx' = [kctx EXCEPT ![np[p]] = "forkret"]
                          /\ pc' = [pc EXCEPT ![p] = "ret", ![np[p]] = "user"]
                          /\ np' = [np EXCEPT ![p] = NoProc]
    BY Zenon DEF Fork
  <2>2. np[p] \in Slots /\ state[np[p]] = "EMBRYO"
    BY <2>1 DEF EmbryoOwned
  <2>3. pc[np[p]] # "fork" /\ np[np[p]] = NoProc
    BY <2>2, Zenon DEF EmbryoOwned, Alive
  <2>4. \A q \in Slots : np'[q] # NoProc <=> pc'[q] = "fork"
    BY <2>1, <2>2, <2>3, Zenon
  <2>5. /\ pc' \in [Slots -> PCs] /\ kctx' \in [Slots -> KCtxs] /\ state' \in [Slots -> States]
    BY <2>1, <2>2, Zenon DEF PCs, KCtxs, States
  <2>6. parent' \in [Slots -> Slots \cup {NoProc}] /\ np' \in [Slots -> Slots \cup {NoProc}]
    BY <2>1, <2>2, Zenon
  <2>7. UNCHANGED <<pid, chan, killed, nextpid, cproc, lock>>
    BY Zenon DEF Fork
  <2>. QED
    BY <2>4, <2>5, <2>6, <2>7, Zenon
<1>2. CpuExclusive'
  BY DEF Fork, Executes, CpuExclusive, EmbryoOwned
<1>3. NoOrphan'
  BY SMTT(40) DEF Fork, Executes, NoOrphan, Alive, EmbryoOwned, CpuExclusive
<1>4. NoLostExit'
  <2>1. PICK p \in Slots : /\ Executes(c, p) /\ pc[p] = "fork"
                          /\ parent' = [parent EXCEPT ![np[p]] = p]
                          /\ state' = [state EXCEPT ![np[p]] = "RUNNABLE"]
                          /\ kctx' = [kctx EXCEPT ![np[p]] = "forkret"]
    BY Zenon DEF Fork
  <2>2. np[p] \in Slots /\ parent[np[p]] = NoProc
    BY <2>1 DEF EmbryoOwned, FreeUnparented
  <2>3. SUFFICES ASSUME NEW q \in Slots, state'[q] = "SLEEPING", kctx'[q] = "wait"
                 PROVE  ~killed'[q] /\ Children(q)' # {} /\ ZombieChildren(q)' = {}
    BY Zenon DEF NoLostExit
  <2>4. q # np[p] /\ state[q] = "SLEEPING" /\ kctx[q] = "wait"
    BY <2>1, <2>2, <2>3, Zenon
  <2>5. ~killed[q] /\ Children(q) # {} /\ ZombieChildren(q) = {}
    BY <2>4, Zenon DEF NoLostExit
  <2>6. Children(q)' # {}
    BY <2>1, <2>2, <2>5 DEF Children
  <2>7. ZombieChildren(q)' = {}
    BY <2>1, <2>2, <2>5, Zenon DEF Children, ZombieChildren
  <2>. QED
    BY <2>5, <2>6, <2>7, Zenon DEF Fork
<1>5. PidsUnique'
  BY DEF Fork, Executes, PidsUnique, EmbryoOwned
<1>6. InitAlive'
  BY DEF Fork, Executes, InitAlive, Alive
<1>7. EmbryoOwned'
  BY DEF Fork, Executes, EmbryoOwned, Alive
<1>8. FreeUnparented'
  BY DEF Fork, Executes, FreeUnparented, EmbryoOwned, CpuExclusive, InitAlive, Alive
<1>9. WaitChan'
  BY DEF Fork, Executes, WaitChan
<1>10. StoppedAt'
  <2>1. PICK p \in Slots : /\ Executes(c, p) /\ pc[p] = "fork" /\ lock = NoCPU
                          /\ kctx' = [kctx EXCEPT ![np[p]] = "forkret"]
                          /\ pc' = [pc EXCEPT ![p] = "ret", ![np[p]] = "user"]
    BY Zenon DEF Fork, Free
  <2>0. np[p] \in Slots /\ state[np[p]] = "EMBRYO"
    BY <2>1 DEF EmbryoOwned
  <2>2. np[p] \in Slots /\ \A d \in CPUs : cproc[d] # np[p]
    BY <2>0, Zenon DEF CpuExclusive
  <2>3. cproc' = cproc /\ lock' = lock /\ kctx[p] = "run" /\ np[p] # p
    BY <2>1, <2>2, Zenon DEF Fork, Executes, StoppedAt
  <2>4. ASSUME NEW q \in Slots
        PROVE  /\ kctx'[q] = "sleep" => pc'[q] \in {"sys", "io", "exit"}
               /\ kctx'[q] = "wait" => pc'[q] = "wait"
    BY <2>1, <2>2, <2>3, Zenon DEF StoppedAt
  <2>5. ASSUME NEW d \in CPUs, NEW q \in Slots, cproc'[d] = q
        PROVE  kctx'[q] = "run"
    BY <2>1, <2>2, <2>3, <2>5, Zenon DEF StoppedAt
  <2>. QED
    BY <2>4, <2>5, Zenon DEF StoppedAt
<1>11. PidsBelow'
  BY DEF Fork, Executes, PidsBelow
<1>. QED
  BY <1>1, <1>2, <1>3, <1>4, <1>5, <1>6, <1>7, <1>8, <1>9, <1>10, <1>11, Zenon DEF IInv

\* A process enters exit().
LEMMA BeginExitStep ==
  ASSUME IInv, NEW c \in CPUs, BeginExit(c)
  PROVE  IInv'
<1>. USE ConstAssumption DEF IInv, TypeOK, Slots, NoProc, initproc
<1>1. TypeOK'
  BY SMTT(40) DEF BeginExit, Executes, PCs, KCtxs, States
<1>2. CpuExclusive'
  BY DEF BeginExit, Executes, CpuExclusive
<1>3. NoOrphan'
  BY Zenon DEF BeginExit, Executes, NoOrphan, Alive
<1>4. NoLostExit'
  <2>1. PICK p \in Slots : /\ Executes(c, p)
                          /\ killed' = [killed EXCEPT ![p] = @ \/ pc[p] = "user"]
    BY Zenon DEF BeginExit
  <2>2. state[p] = "RUNNING"
    BY <2>1, Zenon DEF Executes, CpuExclusive
  <2>3. \A q \in Slots : state[q] = "SLEEPING" => killed'[q] = killed[q]
    BY <2>1, <2>2, Zenon
  <2>4. state' = state /\ parent' = parent /\ kctx' = kctx
    BY Zenon DEF BeginExit
  <2>. QED
    BY <2>3, <2>4 DEF NoLostExit, Children, ZombieChildren
<1>5. PidsUnique'
  BY DEF BeginExit, Executes, PidsUnique
<1>6. InitAlive'
  BY Zenon DEF BeginExit, Executes, InitAlive, Alive
<1>7. EmbryoOwned'
  BY DEF BeginExit, Executes, EmbryoOwned, Alive, CpuExclusive
<1>8. FreeUnparented'
  BY Zenon DEF BeginExit, Executes, FreeUnparented
<1>9. WaitChan'
  BY Zenon DEF BeginExit, Executes, WaitChan
<1>10. StoppedAt'
  BY DEF BeginExit, Executes, StoppedAt, CpuExclusive
<1>11. PidsBelow'
  BY DEF BeginExit, Executes, PidsBelow
<1>. QED
  BY <1>1, <1>2, <1>3, <1>4, <1>5, <1>6, <1>7, <1>8, <1>9, <1>10, <1>11, Zenon DEF IInv

\* exit() wakes, reparents and becomes ZOMBIE.  The wakeups reach every
\* parent that this leaves with a ZOMBIE child and asleep in wait().
LEMMA ExitStep ==
  ASSUME IInv, NEW c \in CPUs, Exit(c)
  PROVE  IInv'
<1>. USE ConstAssumption DEF IInv, TypeOK, Slots, NoProc, initproc
<1>1. TypeOK'
  BY DEF Exit, Executes, ExitWoken, Reparent, Leave, Sleepers, ZombieChildren, Children, PCs, KCtxs, States
<1>2. CpuExclusive'
  BY DEF Exit, Executes, ExitWoken, Reparent, Leave, Sleepers, ZombieChildren, Children, CpuExclusive
<1>3. NoOrphan'
  BY SMTT(40) DEF Exit, Executes, ExitWoken, Reparent, Leave, Sleepers, ZombieChildren, Children, NoOrphan, Alive, CpuExclusive, InitAlive
<1>4. NoLostExit'
  <2>1. PICK p \in Slots :
               /\ Executes(c, p) /\ killed' = killed
               /\ parent' = Reparent(p)
               /\ state' = [q \in Slots |-> IF q = p THEN "ZOMBIE"
                                            ELSE IF q \in ExitWoken(p) THEN "RUNNABLE"
                                            ELSE state[q]]
               /\ kctx' = [kctx EXCEPT ![p] = "run"]
    BY Zenon DEF Exit, Leave
  <2>2. SUFFICES ASSUME NEW q \in Slots, state'[q] = "SLEEPING", kctx'[q] = "wait"
                 PROVE  ~killed'[q] /\ Children(q)' # {} /\ ZombieChildren(q)' = {}
    BY Zenon DEF NoLostExit
  <2>3. q # p /\ q \notin ExitWoken(p) /\ state[q] = "SLEEPING" /\ kctx[q] = "wait"
    BY <2>1, <2>2, Zenon
  <2>4. ~killed[q] /\ Children(q) # {} /\ ZombieChildren(q) = {} /\ q \in Sleepers(q)
    BY <2>3, Zenon DEF NoLostExit, WaitChan, Sleepers
  <2>5. parent[p] # q /\ parent[p] # p
    BY <2>3, <2>4, Zenon DEF ExitWoken, FreeUnparented
  <2>6. q = initproc => ZombieChildren(p) = {}
    BY <2>3, <2>4, Zenon DEF ExitWoken
  <2>7. ~killed'[q]
    BY <2>1, <2>3, <2>4, Zenon
  <2>8. Children(q)' # {}
    BY <2>1, <2>3, <2>4, Zenon DEF Children, Reparent
  <2>9. ASSUME NEW z \in Slots, parent'[z] = q, state'[z] = "ZOMBIE"
        PROVE  FALSE
    <3>1. z # p
      BY <2>1, <2>5, <2>9, Zenon DEF Reparent
    <3>2. state[z] = "ZOMBIE"
      BY <2>1, <2>9, <3>1, Zenon
    <3>3. parent[z] = q \/ (parent[z] = p /\ q = initproc)
      BY <2>1, <2>9, Zenon DEF Reparent
    <3>. QED
      BY <2>4, <2>6, <3>2, <3>3, Zenon DEF ZombieChildren, Children
  <2>. QED
    BY <2>7, <2>8, <2>9, Zenon DEF ZombieChildren, Children
<1>5. PidsUnique'
  <2>1. PICK p \in Slots :
               /\ Executes(c, p) /\ pc[p] = "exit"
               /\ parent' = Reparent(p)
               /\ state' = [q \in Slots |-> IF q = p THEN "ZOMBIE"
                                            ELSE IF q \in ExitWoken(p) THEN "RUNNABLE"
                                            ELSE state[q]]
    BY Zenon DEF Exit
  <2>2. state[p] = "RUNNING" /\ p # initproc
    BY <2>1, Zenon DEF Executes, CpuExclusive, InitAlive
  <2>3. \A q \in ExitWoken(p) : q \in Slots /\ state[q] = "SLEEPING"
    BY Zenon DEF ExitWoken, Sleepers
  <2>4. pid' = pid
    BY Zenon DEF Exit
  <2>5. \A q \in Slots : state'[q] # "UNUSED" => state[q] # "UNUSED"
    BY <2>1, <2>2, <2>3, Zenon
  <2>. QED
    BY <2>4, <2>5, Zenon DEF PidsUnique
<1>6. InitAlive'
  BY Zenon DEF Exit, Executes, ExitWoken, Reparent, Leave, Sleepers, ZombieChildren, Children, InitAlive, Alive
<1>7. EmbryoOwned'
  <2>1. PICK p \in Slots :
               /\ Executes(c, p) /\ pc[p] = "exit"
               /\ parent' = Reparent(p)
               /\ state' = [q \in Slots |-> IF q = p THEN "ZOMBIE"
                                            ELSE IF q \in ExitWoken(p) THEN "RUNNABLE"
                                            ELSE state[q]]
    BY Zenon DEF Exit
  <2>2. state[p] = "RUNNING" /\ p # initproc
    BY <2>1, Zenon DEF Executes, CpuExclusive, InitAlive
  <2>3. \A q \in ExitWoken(p) : q \in Slots /\ state[q] = "SLEEPING"
    BY Zenon DEF ExitWoken, Sleepers
  <2>4. pc' = pc /\ np' = np
    BY Zenon DEF Exit
  <2>. QED
    BY <2>1, <2>2, <2>3, <2>4 DEF EmbryoOwned, Alive
<1>8. FreeUnparented'
  <2>1. PICK p \in Slots :
               /\ Executes(c, p) /\ pc[p] = "exit"
               /\ parent' = Reparent(p)
               /\ state' = [q \in Slots |-> IF q = p THEN "ZOMBIE"
                                            ELSE IF q \in ExitWoken(p) THEN "RUNNABLE"
                                            ELSE state[q]]
    BY Zenon DEF Exit
  <2>2. state[p] = "RUNNING" /\ p # initproc
    BY <2>1, Zenon DEF Executes, CpuExclusive, InitAlive
  <2>3. \A q \in ExitWoken(p) : q \in Slots /\ state[q] = "SLEEPING"
    BY Zenon DEF ExitWoken, Sleepers
  <2>4. \A q \in Slots : state'[q] \in {"UNUSED", "EMBRYO"} => state[q] \in {"UNUSED", "EMBRYO"}
    BY <2>1, <2>2, <2>3, Zenon
  <2>. QED
    BY <2>1, <2>2, <2>4 DEF FreeUnparented, Reparent
<1>9. WaitChan'
  BY DEF Exit, Executes, ExitWoken, Reparent, Leave, Sleepers, ZombieChildren, Children, WaitChan
<1>10. StoppedAt'
  <2>1. PICK p \in Slots : /\ cproc[c] = p /\ lock \in {c, NoCPU}
          /\ cproc' = [cproc EXCEPT ![c] = NoProc] /\ lock' = NoCPU
          /\ kctx' = [kctx EXCEPT ![p] = "run"] /\ pc' = pc
    BY Zenon DEF Exit, Executes, Free, Leave
  <2>2. \A d \in CPUs \ {c} : cproc[d] # p
    BY <2>1 DEF CpuExclusive
  <2>3. ASSUME NEW q \in Slots
        PROVE  /\ kctx'[q] = "sleep" => pc'[q] \in {"sys", "io", "exit"}
               /\ kctx'[q] = "wait" => pc'[q] = "wait"
    BY <2>1, Zenon DEF StoppedAt
  <2>4. ASSUME NEW d \in CPUs, NEW q \in Slots, cproc'[d] = q
        PROVE  kctx'[q] = "run"
    <3>1. d # c /\ q # p /\ lock # d
      BY <2>1, <2>2, <2>4
    <3>. QED
      BY <2>1, <2>4, <3>1, Zenon DEF StoppedAt
  <2>. QED
    BY <2>3, <2>4, Zenon DEF StoppedAt
<1>11. PidsBelow'
  BY DEF Exit, Executes, ExitWoken, Reparent, Leave, Sleepers, ZombieChildren, Children, PidsBelow
<1>. QED
  BY <1>1, <1>2, <1>3, <1>4, <1>5, <1>6, <1>7, <1>8, <1>9, <1>10, <1>11, Zenon DEF IInv

\* sleep() on a channel.
LEMMA SleepStep ==
  ASSUME IInv, NEW c \in CPUs, NEW ch \in Chans, Sleep(c, ch)
  PROVE  IInv'
<1>. USE ConstAssumption DEF IInv, TypeOK, Slots, NoProc, initproc
<1>1. TypeOK'
  BY DEF Sleep, Executes, Leave, PCs, KCtxs, States
<1>2. CpuExclusive'
  BY DEF Sleep, Executes, Leave, CpuExclusive
<1>3. NoOrphan'
  BY DEF Sleep, Executes, Leave, NoOrphan, Alive, CpuExclusive
<1>4. NoLostExit'
  BY DEF Sleep, Executes, Leave, NoLostExit, Children, ZombieChildren
<1>5. PidsUnique'
  <2>1. PICK p \in Slots : state[p] = "RUNNING" /\ state' = [state EXCEPT ![p] = "SLEEPING"]
    BY Zenon DEF Sleep, Executes, Leave, CpuExclusive
  <2>2. pid' = pid /\ pc' = pc /\ np' = np
    BY Zenon DEF Sleep
  <2>. QED
    BY <2>1, <2>2, Zenon DEF PidsUnique
<1>6. InitAlive'
  BY DEF Sleep, Executes, Leave, InitAlive, Alive
<1>7. EmbryoOwned'
  <2>1. PICK p \in Slots : state[p] = "RUNNING" /\ state' = [state EXCEPT ![p] = "SLEEPING"]
    BY Zenon DEF Sleep, Executes, Leave, CpuExclusive
  <2>2. pid' = pid /\ pc' = pc /\ np' = np
    BY Zenon DEF Sleep
  <2>. QED
    BY <2>1, <2>2 DEF EmbryoOwned, Alive
<1>8. FreeUnparented'
  BY DEF Sleep, Executes, Leave, FreeUnparented
<1>9. WaitChan'
  BY DEF Sleep, Executes, Leave, WaitChan
<1>10. StoppedAt'
  <2>1. PICK p \in Slots : /\ cproc[c] = p /\ lock \in {c, NoCPU}
          /\ cproc' = [cproc EXCEPT ![c] = NoProc] /\ lock' = NoCPU
          /\ kctx' = [kctx EXCEPT ![p] = "sleep"] /\ pc' = pc /\ pc[p] \in {"sys", "io", "exit"}
    BY Zenon DEF Sleep, Executes, Free, Leave
  <2>2. \A d \in CPUs \ {c} : cproc[d] # p
    BY <2>1 DEF CpuExclusive
  <2>3. ASSUME NEW q \in Slots
        PROVE  /\ kctx'[q] = "sleep" => pc'[q] \in {"sys", "io", "exit"}
               /\ kctx'[q] = "wait" => pc'[q] = "wait"
    BY <2>1, Zenon DEF StoppedAt
  <2>4. ASSUME NEW d \in CPUs, NEW q \in Slots, cproc'[d] = q
        PROVE  kctx'[q] = "run"
    <3>1. d # c /\ q # p /\ lock # d
      BY <2>1, <2>2, <2>4
    <3>. QED
      BY <2>1, <2>4, <3>1, Zenon DEF StoppedAt
  <2>. QED
    BY <2>3, <2>4, Zenon DEF StoppedAt
<1>11. PidsBelow'
  BY DEF Sleep, Executes, Leave, PidsBelow
<1>. QED
  BY <1>1, <1>2, <1>3, <1>4, <1>5, <1>6, <1>7, <1>8, <1>9, <1>10, <1>11, Zenon DEF IInv

\* wait() reaps a ZOMBIE, which has no children left (NoOrphan).
LEMMA WaitReapStep ==
  ASSUME IInv, NEW c \in CPUs, NEW p \in Slots,
         cproc[c] = p, lock \in {c, NoCPU}, pc[p] \in {"sys", "wait"}, WaitReap(p)
  PROVE  IInv'
<1>. USE ConstAssumption DEF IInv, TypeOK, Slots, NoProc, initproc
<1>1. TypeOK'
  BY DEF WaitReap, Reap, WaitReturn, IsFirst, ZombieChildren, Children, PCs, KCtxs, States
<1>2. CpuExclusive'
  BY DEF WaitReap, Reap, WaitReturn, IsFirst, ZombieChildren, Children, CpuExclusive
<1>3. NoOrphan'
  BY DEF WaitReap, Reap, WaitReturn, IsFirst, ZombieChildren, Children, NoOrphan, Alive, FreeUnparented, CpuExclusive
<1>4. NoLostExit'
  BY DEF WaitReap, Reap, WaitReturn, IsFirst, ZombieChildren, Children, NoLostExit, Children, ZombieChildren, NoOrphan, Alive, FreeUnparented, InitAlive, CpuExclusive
<1>5. PidsUnique'
  BY DEF WaitReap, Reap, WaitReturn, IsFirst, ZombieChildren, Children, PidsUnique
<1>6. InitAlive'
  BY DEF WaitReap, Reap, WaitReturn, IsFirst, ZombieChildren, Children, InitAlive, Alive, FreeUnparented
<1>7. EmbryoOwned'
  BY DEF WaitReap, Reap, WaitReturn, IsFirst, ZombieChildren, Children, EmbryoOwned, Alive, CpuExclusive
<1>8. FreeUnparented'
  BY DEF WaitReap, Reap, WaitReturn, IsFirst, ZombieChildren, Children, FreeUnparented
<1>9. WaitChan'
  BY DEF WaitReap, Reap, WaitReturn, IsFirst, ZombieChildren, Children, WaitChan, CpuExclusive
<1>10. StoppedAt'
  BY DEF WaitReap, Reap, WaitReturn, IsFirst, ZombieChildren, Children, StoppedAt
<1>11. PidsBelow'
  BY DEF WaitReap, Reap, WaitReturn, IsFirst, ZombieChildren, Children, PidsBelow
<1>. QED
  BY <1>1, <1>2, <1>3, <1>4, <1>5, <1>6, <1>7, <1>8, <1>9, <1>10, <1>11, Zenon DEF IInv

\* wait() returns -1.
LEMMA WaitNothingStep ==
  ASSUME IInv, NEW c \in CPUs, NEW p \in Slots,
         cproc[c] = p, lock \in {c, NoCPU}, pc[p] \in {"sys", "wait"}, WaitNothing(p)
  PROVE  IInv'
<1>. USE ConstAssumption DEF IInv, TypeOK, Slots, NoProc, initproc
<1>1. TypeOK'
  BY Zenon DEF WaitNothing, WaitReturn, PCs, KCtxs, States
<1>2. CpuExclusive'
  BY Zenon DEF WaitNothing, WaitReturn, CpuExclusive
<1>3. NoOrphan'
  BY Zenon DEF WaitNothing, WaitReturn, NoOrphan, Alive
<1>4. NoLostExit'
  BY DEF WaitNothing, WaitReturn, NoLostExit, Children, ZombieChildren, CpuExclusive
<1>5. PidsUnique'
  BY Zenon DEF WaitNothing, WaitReturn, PidsUnique
<1>6. InitAlive'
  BY Zenon DEF WaitNothing, WaitReturn, InitAlive, Alive
<1>7. EmbryoOwned'
  BY Zenon DEF WaitNothing, WaitReturn, EmbryoOwned, Alive
<1>8. FreeUnparented'
  BY Zenon DEF WaitNothing, WaitReturn, FreeUnparented
<1>9. WaitChan'
  BY DEF WaitNothing, WaitReturn, WaitChan, CpuExclusive
<1>10. StoppedAt'
  BY DEF WaitNothing, WaitReturn, StoppedAt
<1>11. PidsBelow'
  BY Zenon DEF WaitNothing, WaitReturn, PidsBelow
<1>. QED
  BY <1>1, <1>2, <1>3, <1>4, <1>5, <1>6, <1>7, <1>8, <1>9, <1>10, <1>11, Zenon DEF IInv

\* wait() goes to sleep on its own address.
LEMMA WaitSleepStep ==
  ASSUME IInv, NEW c \in CPUs, NEW p \in Slots,
         cproc[c] = p, lock \in {c, NoCPU}, pc[p] \in {"sys", "wait"}, WaitSleep(c, p)
  PROVE  IInv'
<1>. USE ConstAssumption DEF IInv, TypeOK, Slots, NoProc, initproc
<1>1. TypeOK'
  BY Zenon DEF WaitSleep, Leave, PCs, KCtxs, States
<1>2. CpuExclusive'
  BY DEF WaitSleep, Leave, CpuExclusive
<1>3. NoOrphan'
  BY DEF WaitSleep, Leave, NoOrphan, Alive, CpuExclusive
<1>4. NoLostExit'
  BY DEF WaitSleep, Leave, NoLostExit, Children, ZombieChildren
<1>5. PidsUnique'
  <2>1. state[p] = "RUNNING"
    BY Zenon DEF CpuExclusive
  <2>2. state' = [state EXCEPT ![p] = "SLEEPING"] /\ pid' = pid
    BY Zenon DEF WaitSleep
  <2>. QED
    BY <2>1, <2>2, Zenon DEF PidsUnique
<1>6. InitAlive'
  BY DEF WaitSleep, Leave, InitAlive, Alive, CpuExclusive
<1>7. EmbryoOwned'
  BY DEF WaitSleep, Leave, EmbryoOwned, Alive, CpuExclusive
<1>8. FreeUnparented'
  BY DEF WaitSleep, Leave, FreeUnparented, CpuExclusive
<1>9. WaitChan'
  BY Zenon DEF WaitSleep, Leave, WaitChan
<1>10. StoppedAt'
  <2>1. /\ cproc[c] = p /\ lock \in {c, NoCPU}
          /\ cproc' = [cproc EXCEPT ![c] = NoProc] /\ lock' = NoCPU
          /\ kctx' = [kctx EXCEPT ![p] = "wait"] /\ pc' = [pc EXCEPT ![p] = "wait"]
    BY Zenon DEF WaitSleep, Leave
  <2>2. \A d \in CPUs \ {c} : cproc[d] # p
    BY <2>1 DEF CpuExclusive
  <2>3. ASSUME NEW q \in Slots
        PROVE  /\ kctx'[q] = "sleep" => pc'[q] \in {"sys", "io", "exit"}
               /\ kctx'[q] = "wait" => pc'[q] = "wait"
    BY <2>1, Zenon DEF StoppedAt
  <2>4. ASSUME NEW d \in CPUs, NEW q \in Slots, cproc'[d] = q
        PROVE  kctx'[q] = "run"
    <3>1. d # c /\ q # p /\ lock # d
      BY <2>1, <2>2, <2>4
    <3>. QED
      BY <2>1, <2>4, <3>1, Zenon DEF StoppedAt
  <2>. QED
    BY <2>3, <2>4, Zenon DEF StoppedAt
<1>11. PidsBelow'
  BY Zenon DEF WaitSleep, Leave, PidsBelow
<1>. QED
  BY <1>1, <1>2, <1>3, <1>4, <1>5, <1>6, <1>7, <1>8, <1>9, <1>10, <1>11, Zenon DEF IInv

\* wakeup() of a channel that is not a process.
LEMMA WakeupStep ==
  ASSUME IInv, NEW ch \in Chans, Wakeup(ch)
  PROVE  IInv'
<1>. USE ConstAssumption DEF IInv, TypeOK, Slots, NoProc, initproc
<1>1. TypeOK'
  BY Zenon DEF Wakeup, Sleepers, PCs, KCtxs, States
<1>2. CpuExclusive'
  BY Zenon DEF Wakeup, Sleepers, CpuExclusive
<1>3. NoOrphan'
  BY Zenon DEF Wakeup, Sleepers, NoOrphan, Alive
<1>4. NoLostExit'
  BY DEF Wakeup, Sleepers, NoLostExit, Children, ZombieChildren
<1>5. PidsUnique'
  BY Zenon DEF Wakeup, Sleepers, PidsUnique
<1>6. InitAlive'
  BY Zenon DEF Wakeup, Sleepers, InitAlive, Alive
<1>7. EmbryoOwned'
  BY DEF Wakeup, Sleepers, EmbryoOwned, Alive
<1>8. FreeUnparented'
  BY Zenon DEF Wakeup, Sleepers, FreeUnparented
<1>9. WaitChan'
  BY Zenon DEF Wakeup, Sleepers, WaitChan
<1>10. StoppedAt'
  BY Zenon DEF Wakeup, Sleepers, StoppedAt
<1>11. PidsBelow'
  BY Zenon DEF Wakeup, Sleepers, PidsBelow
<1>. QED
  BY <1>1, <1>2, <1>3, <1>4, <1>5, <1>6, <1>7, <1>8, <1>9, <1>10, <1>11, Zenon DEF IInv

\* kill() marks a slot, and wakes it if it sleeps.
LEMMA KillStep ==
  ASSUME IInv, NEW c \in CPUs, NEW a \in KillArgs, Kill(c, a)
  PROVE  IInv'
<1>. USE ConstAssumption DEF IInv, TypeOK, Slots, NoProc, initproc
<1>1. TypeOK'
  BY SMTT(40) DEF Kill, Executes, IsFirst, PCs, KCtxs, States
<1>2. CpuExclusive'
  BY DEF Kill, Executes, IsFirst, CpuExclusive
<1>3. NoOrphan'
  BY DEF Kill, Executes, IsFirst, NoOrphan, Alive
<1>4. NoLostExit'
  BY DEF Kill, Executes, IsFirst, NoLostExit, Children, ZombieChildren
<1>5. PidsUnique'
  BY DEF Kill, Executes, IsFirst, PidsUnique
<1>6. InitAlive'
  BY DEF Kill, Executes, IsFirst, InitAlive, Alive
<1>7. EmbryoOwned'
  BY DEF Kill, Executes, IsFirst, EmbryoOwned, Alive
<1>8. FreeUnparented'
  BY DEF Kill, Executes, IsFirst, FreeUnparented
<1>9. WaitChan'
  BY DEF Kill, Executes, IsFirst, WaitChan
<1>10. StoppedAt'
  BY DEF Kill, Executes, IsFirst, StoppedAt
<1>11. PidsBelow'
  BY DEF Kill, Executes, IsFirst, PidsBelow
<1>. QED
  BY <1>1, <1>2, <1>3, <1>4, <1>5, <1>6, <1>7, <1>8, <1>9, <1>10, <1>11, Zenon DEF IInv

\* One pass of the loop of wait(), first or after a wakeup.
LEMMA WaitStep ==
  ASSUME IInv, NEW c \in CPUs, Wait(c) \/ WaitResume(c)
  PROVE  IInv'
<1>1. PICK p \in Slots : /\ cproc[c] = p /\ lock \in {c, NoCPU}
                         /\ pc[p] \in {"sys", "wait"} /\ WaitScan(c, p)
  BY Zenon DEF Wait, WaitResume, Executes, Free, IInv, StoppedAt
<1>2. CASE WaitReap(p)
  BY <1>1, <1>2, WaitReapStep, Zenon
<1>3. CASE WaitNothing(p)
  BY <1>1, <1>3, WaitNothingStep, Zenon
<1>4. CASE WaitSleep(c, p)
  BY <1>1, <1>4, WaitSleepStep, Zenon
<1>. QED
  BY <1>1, <1>2, <1>3, <1>4, Zenon DEF WaitScan

\* The table that userinit() leaves satisfies the invariant.
LEMMA InitIInv == Init => IInv
<1>. SUFFICES ASSUME Init PROVE IInv
  BY Zenon
<1>. USE ConstAssumption DEF Init, Slots, NoProc, initproc
<1>1. TypeOK
  BY Zenon DEF TypeOK, States, PCs, KCtxs
<1>2. CpuExclusive /\ StoppedAt
  BY DEF CpuExclusive, StoppedAt
<1>3. NoOrphan /\ InitAlive /\ FreeUnparented
  BY DEF NoOrphan, InitAlive, FreeUnparented, Alive
<1>4. NoLostExit /\ WaitChan
  BY Zenon DEF NoLostExit, WaitChan
<1>5. PidsUnique /\ PidsBelow
  BY DEF PidsUnique, PidsBelow
<1>6. EmbryoOwned
  BY Zenon DEF EmbryoOwned
<1>. QED
  BY <1>1, <1>2, <1>3, <1>4, <1>5, <1>6, Zenon DEF IInv

\* A step that changes nothing keeps the invariant.
LEMMA StutterStep ==
  ASSUME IInv, UNCHANGED vars
  PROVE  IInv'
BY DEF vars, table, IInv, TypeOK, CpuExclusive, NoOrphan, NoLostExit, PidsUnique,
       InitAlive, EmbryoOwned, FreeUnparented, WaitChan, StoppedAt, PidsBelow,
       Alive, Children, ZombieChildren

\* Every step of the kernel keeps the invariant.
LEMMA NextIInv ==
  ASSUME IInv, [Next]_vars
  PROVE  IInv'
<1>1. CASE \E c \in CPUs : Step(c)
  <2>1. PICK c \in CPUs : Step(c)
    BY <1>1, Zenon
  <2>2. CASE \E p \in Slots : Dispatch(c, p)
    BY <2>2, DispatchStep, Zenon
  <2>3. CASE Resume(c) \/ Yield(c)
    BY <2>3, ResumeStep, YieldStep, Zenon
  <2>4. CASE Syscall(c) \/ SysRet(c) \/ SysDone(c)
    BY <2>4, SyscallStep, SysRetStep, SysDoneStep, Zenon
  <2>5. CASE Allocproc(c) \/ AllocprocFull(c) \/ ForkFail(c) \/ Fork(c)
    BY <2>5, AllocprocStep, AllocprocFullStep, ForkFailStep, ForkStep, Zenon
  <2>6. CASE BeginExit(c) \/ Exit(c) \/ Wait(c) \/ WaitResume(c)
    BY <2>6, BeginExitStep, ExitStep, WaitStep, Zenon
  <2>7. CASE \E ch \in Chans : Sleep(c, ch)
    BY <2>7, SleepStep, Zenon
  <2>8. CASE \E a \in KillArgs : Kill(c, a)
    BY <2>8, KillStep, Zenon
  <2>. QED
    BY <2>1, <2>2, <2>3, <2>4, <2>5, <2>6, <2>7, <2>8, Zenon DEF Step
<1>2. CASE \E ch \in Chans : Wakeup(ch)
  BY <1>2, WakeupStep, Zenon
<1>3. CASE UNCHANGED vars
  BY <1>3, StutterStep, Zenon
<1>. QED
  BY <1>1, <1>2, <1>3, Zenon DEF Next

\* IInv holds in every state the process table reaches.
THEOREM Invariance == Spec => []IInv
BY InitIInv, NextIInv, PTL DEF Spec

\* The fields of the process table keep their types.
THEOREM TypeCorrect == Spec => []TypeOK
<1>1. IInv => TypeOK
  BY Zenon DEF IInv
<1>. QED
  BY <1>1, Invariance, PTL

\* scheduler(), yield(), sleep() and exit() never run a process on two CPUs,
\* and the RUNNING state always agrees with the per-CPU pointers.
THEOREM OneCpuPerProcess == Spec => []CpuExclusive
<1>1. IInv => CpuExclusive
  BY Zenon DEF IInv
<1>. QED
  BY <1>1, Invariance, PTL

\* exit() leaves no process behind whose parent cannot reap it any more.
THEOREM ParentsAlive == Spec => []NoOrphan
<1>1. IInv => NoOrphan
  BY Zenon DEF IInv
<1>. QED
  BY <1>1, Invariance, PTL

\* No wakeup of wait() by exit() or kill() is lost.
THEOREM ExitSeenByWait == Spec => []NoLostExit
<1>1. IInv => NoLostExit
  BY Zenon DEF IInv
<1>. QED
  BY <1>1, Invariance, PTL

\* allocproc() never gives a pid to two processes.
THEOREM PidsDistinct == Spec => []PidsUnique
<1>1. IInv => PidsUnique
  BY Zenon DEF IInv
<1>. QED
  BY <1>1, Invariance, PTL
=============================================================================
