--------------------------- MODULE AddressSpaces ---------------------------
(***************************************************************************)
(* What the memory of processes promises: each has pages of its own, which *)
(* only it changes.  Pages that are added are zero, fork copies them,      *)
(* exec replaces them by a program and its stack, and a call that fails    *)
(* leaves them as they are.                                                *)
(***************************************************************************)
EXTENDS Integers, Sequences

CONSTANTS Owners, Programs, Bytes, NoMem

VARIABLE mem     \* the pages of a process, or NoMem

Fresh(n) == [k \in 1 .. n |-> 0]

Store(p) ==
  \E k \in DOMAIN mem[p], b \in Bytes : mem' = [mem EXCEPT ![p][k] = b]

Grow(p) == \E n \in 1 .. 16 : mem' = [mem EXCEPT ![p] = @ \o Fresh(n)]

Shrink(p) == \E n \in 0 .. Len(mem[p]) - 1 : mem' = [mem EXCEPT ![p] = SubSeq(@, 1, n)]

Copy(p) == \E q \in Owners : mem[q] = NoMem /\ mem' = [mem EXCEPT ![q] = mem[p]]

\* A guard page and the stack come after the program.
Replace(p) == \E prog \in Programs : mem' = [mem EXCEPT ![p] = prog \o Fresh(2)]

End(p) == mem' = [mem EXCEPT ![p] = NoMem]

Init == mem \in [Owners -> {NoMem} \cup {<<b>> : b \in Bytes}]

Next ==
  \E p \in Owners :
    mem[p] # NoMem /\ (Store(p) \/ Grow(p) \/ Shrink(p) \/ Copy(p) \/ Replace(p) \/ End(p))

Spec == Init /\ [][Next]_mem
=============================================================================
