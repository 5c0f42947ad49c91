----------------------------- MODULE MlfqQueue ------------------------------
(***************************************************************************)
(* The ready queues of the MLFQ build (proc.c: push, pop, remove): NQ      *)
(* rings of N cells each.  The rings are a record r with the arrays face   *)
(* and back (first and last cell in use, -1 when empty) and queue.         *)
(*                                                                         *)
(* No operation clears a cell that is given up, but only the last cell of  *)
(* a ring is ever read again (see Read), so the model forgets the others.  *)
(***************************************************************************)
EXTENDS Integers, Sequences

CONSTANTS
  N,       \* NPROC: cells of a ring
  NQ,      \* number of rings, 5 in the code
  Null     \* a cell that was never written

ASSUME QueueAssumption == N \in Nat \ {0} /\ NQ \in Nat \ {0}

Levels == 0 .. NQ - 1
Cells == 0 .. N - 1

\* main.c: the rings start empty.
EmptyRings ==
  [face |-> [i \in Levels |-> -1], back |-> [i \in Levels |-> -1],
   queue |-> [i \in Levels |-> [j \in Cells |-> Null]]]

IsEmpty(r, i) == r.face[i] = -1

\* The number of entries of ring i and the cell of its k-th one (from 0).
Length(r, i) ==
  IF IsEmpty(r, i) THEN 0 ELSE ((r.back[i] - r.face[i]) % N) + 1
CellOf(r, i, k) == (r.face[i] + k) % N

\* The entries of ring i, oldest first.
Entries(r, i) == [k \in 1 .. Length(r, i) |-> r.queue[i][CellOf(r, i, k - 1)]]

Queued(r, i) == {Entries(r, i)[k] : k \in 1 .. Length(r, i)}

\* The indices the duplicate test of push reads in ring i.  An empty ring has
\* face = back = -1, so the loop reads queue[i][-1] once.
Scanned(r, i) ==
  IF r.face[i] <= r.back[i] THEN r.face[i] .. r.back[i]
  ELSE (r.face[i] .. N - 1) \cup (0 .. r.back[i])

\* queue[i][j] as the compiler lays the array out: queue[i][-1] is the last
\* cell of the ring before.  What lies before queue[0] is not a proc.
Read(r, i, j) ==
  IF j >= 0 THEN r.queue[i][j]
  ELSE IF i > 0 THEN r.queue[i - 1][N - 1] ELSE Null

Duplicate(r, b) == \E i \in Levels : \E j \in Scanned(r, i) : Read(r, i, j) = b

Full(r, a) ==
  r.face[a] = r.back[a] + 1 \/ (r.face[a] = 0 /\ r.back[a] = N - 1)

\* push(a, b) adds b unless ring a is non-empty and b is found or a is full.
Pushes(r, a, b) == IsEmpty(r, a) \/ (~Duplicate(r, b) /\ ~Full(r, a))

push(r, a, b) ==
  IF ~Pushes(r, a, b) THEN r
  ELSE LET last == (r.back[a] + 1) % N
       IN  [face |-> IF IsEmpty(r, a) THEN [r.face EXCEPT ![a] = 0] ELSE r.face,
            back |-> [r.back EXCEPT ![a] = last],
            queue |-> [r.queue EXCEPT ![a][last] = b]]

\* The first cell of ring a is given up: pop's tail and the end of remove.
Forget(r, a) ==
  IF r.face[a] = N - 1 THEN r ELSE [r EXCEPT !.queue[a][r.face[a]] = Null]

Advance(r, a) ==
  IF r.face[a] = r.back[a]
  THEN [Forget(r, a) EXCEPT !.face[a] = -1, !.back[a] = -1]
  ELSE [Forget(r, a) EXCEPT !.face[a] = (@ + 1) % N]

\* pop(a): the entry, and the rings without it.
PopHead(r, a) == r.queue[a][r.face[a]]
pop(r, a) == Advance(r, a)

\* Mutant: the entries before p are not moved up.
ShiftNothing(r, i, k) == r.queue[i]

\* remove closes the gap of the k-th entry: every entry before it moves one
\* cell on, across the end of the ring if it is wrapped.
Shift(r, i, k) ==
  [j \in Cells |-> LET d == (j - r.face[i]) % N
                   IN  IF d \in 1 .. k THEN r.queue[i][(j - 1) % N]
                       ELSE r.queue[i][j]]

\* remove(i, p): a ring of one entry is emptied without looking; otherwise p
\* is looked for, and nothing happens when it is not there.
remove(r, i, p) ==
  IF r.face[i] = r.back[i] THEN Advance(r, i)
  ELSE LET At == {k \in 1 .. Length(r, i) : Entries(r, i)[k] = p}
       IN  IF At = {} THEN r
           ELSE LET k == CHOOSE x \in At : \A y \in At : x <= y
                IN  Advance([r EXCEPT !.queue[i] = Shift(r, i, k - 1)], i)
=============================================================================
