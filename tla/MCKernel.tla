------------------------------ MODULE MCKernel ------------------------------
(***************************************************************************)
(* Parts of the kernel that share nothing with each other: three ring      *)
(* buffers (the ready queues of the MLFQ scheduler, a pipe, the input of   *)
(* the console), the memory of processes, the spin locks with the          *)
(* interrupt flag, and, of the user library, malloc.  The first state says *)
(* which of them moves.                                                    *)
(***************************************************************************)
EXTENDS MlfqRing, Pipe, Console, Vm, SpinLock, Umalloc

\* Two segments, one loaded from the file; one with less memory than file; one
\* that does not fit; one that is not aligned.
Seg(v, m, f, b) == [vaddr |-> v, memsz |-> m, filesz |-> f, byte |-> b]
Programs == {<<Seg(0, 2, 1, 7), Seg(2, 1, 0, 8)>>, <<Seg(0, 1, 2, 7)>>,
             <<Seg(0, 5, 2, 7)>>, <<Seg(1, 2, 2, 7)>>}
LoadedPrograms == {<<7, 0>>}
Increments == {-2, -3, -9, 3}

\* No process of a pipe or of the console sleeps although what it waits for is
\* there, and a console whose ring is full has a finished line in it, without which
\* its reader would wait for ever (pipewrite, piperead, pipeclose, consoleintr,
\* consoleread, kill).
SleepersWait == PipeSleepersWait /\ ConsSleepersWait /\ FullIsFinished

VARIABLE part

Idle(S) ==
  /\ "queue" \in S => UNCHANGED RingVars
  /\ "pipe" \in S => UNCHANGED PipeVars
  /\ "console" \in S => UNCHANGED ConsVars
  /\ "memory" \in S => UNCHANGED VmVars
  /\ "locks" \in S => UNCHANGED SlVars
  /\ "malloc" \in S => UNCHANGED UmVars

Parts == {"queue", "pipe", "console", "memory", "locks", "malloc"}

Only(x, A) == part = x /\ A /\ Idle(Parts \ {x}) /\ UNCHANGED part

vars == <<part, RingVars, PipeVars, ConsVars, VmVars, SlVars, UmVars>>

Init ==
  part \in Parts /\ RingInit /\ PipeInit /\ ConsInit /\ VmInit /\ SlInit /\ UmInit

\* Only the memory stops: when all its calls are made, or the only process has
\* given its pages back.
MemoryStops == part = "memory" /\ UNCHANGED vars

Next ==
  \/ Only("queue", RingNext)
  \/ Only("pipe", PipeNext)
  \/ Only("console", ConsNext)
  \/ Only("memory", VmNext)
  \/ Only("locks", SlNext)
  \/ Only("malloc", UmNext)
  \/ MemoryStops

\* A process that can go on in a call of a pipe does, and one outside of a call
\* either makes another one or closes its end in the end.
Spec ==
  /\ Init /\ [][Next]_vars
  /\ \A p \in PipeUsers : WF_PipeVars(Only("pipe", PipeGoesOn(p)))
=============================================================================
