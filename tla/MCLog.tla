------------------------------- MODULE MCLog --------------------------------
(* Log for TLC.  No property depends on which of the equal processes acts. *)
EXTENDS Log, TLC

Symmetry == Permutations(Procs)
=============================================================================
