------------------------------ MODULE Umalloc ------------------------------
(***************************************************************************)
(* malloc and free of user programs (umalloc.c): a ring of free blocks in  *)
(* the order of their addresses, in units of the header.  The static base  *)
(* is address 0, below the heap; sbrk may also be called by the program    *)
(* itself, so that the heap has gaps, and it may fail.  Sizes are far      *)
(* below the range of uint.                                                *)
(***************************************************************************)
EXTENDS Integers, FiniteSetsExt, SequencesExt

CONSTANTS
  HeapUnits,     \* bound: units sbrk can give
  MinCore,       \* the least number of units morecore asks for, 4096
  HeaderSize,    \* sizeof(Header), 8
  AllocBytes,    \* nbytes of calls of malloc
  SbrkUnits      \* units the program takes for itself

ASSUME UmallocAssumption ==
  HeapUnits \in Nat /\ MinCore \in Nat \ {0} /\ HeaderSize \in Nat \ {0} /\ AllocBytes \subseteq Nat

Addrs == 1 .. HeapUnits
base == 0

VARIABLES
  ptr, size,    \* the headers; ptr is 0 in a block that is not free
  freep,        \* -1 before the first malloc
  brk,          \* the first unit sbrk has not given
  live,         \* history: the blocks the program holds
  core          \* history: the units morecore has got

UmVars == <<ptr, size, freep, brk, live, core>>

UmInit ==
  /\ ptr = [a \in {base} \cup Addrs |-> 0] /\ size = [a \in {base} \cup Addrs |-> 0]
  /\ freep = -1 /\ brk = 1 /\ live = {} /\ core = {}

\* An allocator: its headers and freep.
Heap == [ptr |-> ptr, size |-> size, freep |-> freep]
Reset(h) == IF h.freep = -1 THEN [h EXCEPT !.freep = base] ELSE h

\* The k-th block of the ring, counted from freep.
RingFrom(h) ==
  LET at[k \in 0 .. HeapUnits + 1] == IF k = 0 THEN h.freep ELSE h.ptr[at[k - 1]] IN at

\* The loop of free stops at p: the block b comes between p and the next one, or
\* p is the highest and b is above it or below the lowest.
Follows(h, p, b) ==
  \/ b > p /\ b < h.ptr[p]
  \/ p >= h.ptr[p] /\ (b > p \/ b < h.ptr[p])

Place(h, b) ==
  LET at == RingFrom(h) IN at[Min({k \in DOMAIN at : Follows(h, at[k], b)})]

\* bp + bp->s.size == p->s.ptr
JoinsUp(h, b, n) == b + h.size[b] = n

\* free: the block is joined to its neighbours if they touch.
FreeBlock(h, b) ==
  LET p == Place(h, b)
      n == h.ptr[p]
      up == IF JoinsUp(h, b, n)
            THEN [h EXCEPT !.size[b] = @ + h.size[n], !.ptr[b] = h.ptr[n], !.ptr[n] = 0, !.size[n] = 0]
            ELSE [h EXCEPT !.ptr[b] = n]
      down == IF p + up.size[p] = b
              THEN [up EXCEPT !.size[p] = @ + up.size[b], !.ptr[p] = up.ptr[b], !.ptr[b] = 0, !.size[b] = 0]
              ELSE [up EXCEPT !.ptr[p] = b]
  IN  [down EXCEPT !.freep = p]

\* The first block of the ring after freep that has n units, as its place in the
\* ring; freep itself is the last that is looked at.
Fits(h, n) ==
  LET at == RingFrom(h)
      turn == Min({k \in 1 .. HeapUnits + 1 : at[k] = h.freep})
  IN  {k \in 1 .. turn : h.size[at[k]] >= n}

\* Mutant: the rest keeps one unit of what is given away.
RestTooLarge(h, p, n) == h.size[p] - n + 1

\* p->s.size -= nunits
Rest(h, p, n) == h.size[p] - n

\* malloc takes the end of the block, or all of it.
TakeFrom(h, n) ==
  LET at == RingFrom(h)
      k == Min(Fits(h, n))
      p == at[k]
      prev == at[k - 1]
      a == p + Rest(h, p, n)
  IN  [addr |-> a,
       heap |-> IF h.size[p] = n
                THEN [h EXCEPT !.ptr = [@ EXCEPT ![prev] = h.ptr[p]], !.freep = prev]
                ELSE [h EXCEPT !.size[p] = Rest(h, p, n), !.size[a] = n, !.freep = prev]]

SetHeap(h) == ptr' = h.ptr /\ size' = h.size /\ freep' = h.freep

\* malloc that finds a block.
MallocFound(n, h) ==
  LET t == TakeFrom(h, n) IN
  /\ SetHeap([t.heap EXCEPT !.ptr[t.addr] = 0])
  /\ live' = live \cup {t.addr}

\* The units of nbytes, and one for the header.
NUnits(nbytes) == (nbytes + HeaderSize - 1) \div HeaderSize + 1

\* morecore asks for at least MinCore units.
CoreUnits(n) == IF n < MinCore THEN MinCore ELSE n

Malloc(nbytes) ==
  LET h == Reset(Heap)
      n == NUnits(nbytes)
      nu == CoreUnits(n)
      more == FreeBlock([h EXCEPT !.size[brk] = nu], brk)
  IN  IF Fits(h, n) # {}
      THEN MallocFound(n, h) /\ UNCHANGED <<brk, core>>
      ELSE IF brk + nu - 1 <= HeapUnits
      THEN /\ MallocFound(n, more)
           /\ brk' = brk + nu
           /\ core' = core \cup brk .. brk + nu - 1
      ELSE SetHeap(h) /\ UNCHANGED <<brk, live, core>>

UmFree(a) ==
  /\ a \in live
  /\ SetHeap(FreeBlock(Heap, a))
  /\ live' = live \ {a}
  /\ UNCHANGED <<brk, core>>

OwnSbrk(n) ==
  /\ brk + n - 1 <= HeapUnits
  /\ brk' = brk + n
  /\ UNCHANGED <<ptr, size, freep, live, core>>

UmNext ==
  \/ \E nbytes \in AllocBytes : Malloc(nbytes)
  \/ \E a \in Addrs : UmFree(a)
  \/ \E n \in SbrkUnits : OwnSbrk(n)

-----------------------------------------------------------------------------
Units(a) == a .. a + size[a] - 1
FreeBlocks == {RingFrom(Heap)[k] : k \in 0 .. HeapUnits} \ {base}

\* Every unit that morecore got is in exactly one block, held by the program or
\* free, after any calls of malloc and free (splitting, joining, failing sbrk).
\* The ring goes through the free blocks once, upwards from base, so the search of
\* free ends; and two free blocks never touch, so memory that has been given back
\* can be used for a larger block.
UnitsInOneBlock ==
  freep # -1 =>
    LET blocks == live \cup FreeBlocks
        above(a) == {b \in FreeBlocks : b > a}
    IN  /\ live \cap FreeBlocks = {}
        /\ UNION {Units(a) : a \in blocks} = core
        /\ \A a, b \in blocks : a # b => Units(a) \cap Units(b) = {}
        /\ \A a \in FreeBlocks \cup {base} : ptr[a] = IF above(a) = {} THEN base ELSE Min(above(a))
        /\ \A a, b \in FreeBlocks : a + size[a] # b
=============================================================================
