------------------------------ MODULE MCBcache ------------------------------
(***************************************************************************)
(* The buffer cache with fewer buffers than its users and the log can take *)
(* together, so that bget also finds none, and more blocks than buffers,   *)
(* so that buffers are recycled all the time.                              *)
(***************************************************************************)
EXTENDS Bcache, TLC

CONSTANT v0

\* Processes and blocks are interchangeable: nothing orders them.
Symmetry == Permutations(Procs) \cup Permutations(Blocks)

\* Bound: at any time one block differs from the others.
OneChanged ==
  Cardinality({k \in Blocks : disk[k] # v0}
              \cup {blockno[b] : b \in {c \in Bufs : data[c] # v0}}) <= 1
=============================================================================
