------------------------------ MODULE MlfqRing ------------------------------
(***************************************************************************)
(* The ring operations of MlfqQueue against what they stand for: a list    *)
(* per level, to which push appends, from which pop takes the head and     *)
(* remove takes one member wherever it is.  The calls are the ones proc.c  *)
(* makes: a process that is in no ring is pushed, remove is called for one *)
(* that is in the ring.                                                    *)
(***************************************************************************)
EXTENDS MlfqQueue, FiniteSets

CONSTANT Procs   \* the values of struct proc* that are queued

\* proc[NPROC] and queue[.][NPROC].
ASSUME RingAssumption == IsFiniteSet(Procs) /\ Cardinality(Procs) <= N

VARIABLES
  rings,   \* face, back and queue
  fifo     \* the list each ring stands for

RingVars == <<rings, fifo>>

RingInit == rings = EmptyRings /\ fifo = [i \in Levels |-> <<>>]

In(p, s) == \E k \in 1 .. Len(s) : s[k] = p

InSome(p) == \E i \in Levels : In(p, fifo[i])

DoPush(a, p) ==
  /\ ~InSome(p)
  /\ rings' = push(rings, a, p)
  /\ fifo' = IF Pushes(rings, a, p) THEN [fifo EXCEPT ![a] = Append(@, p)] ELSE fifo

DoPop(a) ==
  /\ ~IsEmpty(rings, a)
  /\ rings' = pop(rings, a)
  /\ fifo' = [fifo EXCEPT ![a] = Tail(@)]

Without(s, k) == SubSeq(s, 1, k - 1) \o SubSeq(s, k + 1, Len(s))

DoRemove(a, p) ==
  /\ rings' = remove(rings, a, p)
  /\ \E k \in 1 .. Len(fifo[a]) :
       /\ fifo[a][k] = p
       /\ fifo' = [fifo EXCEPT ![a] = Without(@, k)]

RingNext ==
  \E a \in Levels :
    \/ DoPop(a)
    \/ \E p \in Procs : DoPush(a, p) \/ DoRemove(a, p)

RingSpec == RingInit /\ [][RingNext]_RingVars

\* Each ring holds exactly the processes pushed and not yet popped or removed,
\* in the order they were pushed, whether it is wrapped or not: remove's
\* shifting loses, doubles and reorders nobody.  And with as many cells as there
\* are processes a ring is never full when a process that is in no ring is pushed,
\* so "queue full" is never printed.
RingIsFifo ==
  /\ \A i \in Levels : Entries(rings, i) = fifo[i]
  /\ \A a \in Levels, p \in Procs : ~InSome(p) => IsEmpty(rings, a) \/ ~Full(rings, a)

=============================================================================
