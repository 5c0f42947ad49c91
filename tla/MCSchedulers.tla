---------------------------- MODULE MCSchedulers ----------------------------
(***************************************************************************)
(* The scheduler in its four builds: MLFQ (Mlfq) and the loops over the    *)
(* process table (SchedLoop).  The first state says which one runs.        *)
(***************************************************************************)
EXTENDS Mlfq, SchedLoop

VARIABLE part

Queues == part = "mlfq" /\ Next /\ UNCHANGED <<part, LoopVars>>
Loop(A) == part = "loop" /\ A /\ UNCHANGED <<part, vars>>

SchedVars == <<part, vars, LoopVars>>

SchedInit ==
  /\ part \in {"mlfq", "loop"} /\ Init /\ LoopInit
  /\ part = "mlfq" => policy = "FCFS"

SchedNext == Queues \/ Loop(LoopNext)

\* The fairness of SchedLoop: every CPU runs its scheduler loop and takes timer
\* interrupts for ever.
SchedSpec ==
  /\ SchedInit /\ [][SchedNext]_SchedVars
  /\ \A c \in LoopCPUs : /\ WF_SchedVars(Loop(Pick(c)))
                         /\ WF_SchedVars(Loop(EndPass(c)))
                         /\ WF_SchedVars(Loop(LoopTimerYield(c)))
=============================================================================
