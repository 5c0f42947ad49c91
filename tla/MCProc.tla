------------------------------- MODULE MCProc -------------------------------
(* Proc for TLC: the constants are given in the cfg files. *)
EXTENDS Proc, TLC

\* CPUs are interchangeable: Proc never names one.
CpuSymmetry == Permutations(CPUs)

\* Bound: at most one process sleeps, or has slept, for a device, and at most
\* one is off its CPU because of the timer.
FewOff ==
  /\ Cardinality({p \in Slots : pc[p] = "io" \/ chan[p] \in Chans}) <= 1
  /\ Cardinality({p \in Slots : kctx[p] = "yield"}) <= 1
=============================================================================
