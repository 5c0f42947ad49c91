----------------------------- MODULE MergeSort -----------------------------
(***************************************************************************)
(* The concurrent merge sorts of q1/Q1.c: mergeSort, whose tasks are       *)
(* processes on shared memory, and threaded_mergeSort, whose tasks are     *)
(* threads; both split, wait for the two halves and merge in the same way. *)
(* normal_mergeSort is the same without concurrency.  The tasks of a range *)
(* work on one array.  fork and pthread_create succeed: the program does   *)
(* not look at their results.                                              *)
(***************************************************************************)
EXTENDS Integers, FiniteSetsExt, SequencesExt

CONSTANTS
  Lengths,      \* values of n
  Numbers       \* numbers in the input

ASSUME MergeSortAssumption == Lengths \subseteq Nat /\ Numbers \subseteq Int

VARIABLES
  arr, input,   \* the array from index 0 on, and what it was at the beginning
  tasks,        \* place of every task that was started, by its range <<low, high>>
  idx,          \* where the loop of a task is
  LR            \* the copies of the halves that merge works from

MsVars == <<arr, input, tasks, idx, LR>>

Size == Cardinality(DOMAIN arr)
Whole == <<0, Size - 1>>

MsInit ==
  /\ \E n \in Lengths : arr \in [0 .. n - 1 -> Numbers]
  /\ input = arr
  /\ tasks = [t \in {Whole} |-> "start"]
  /\ idx = [t \in {Whole} |-> 0]
  /\ LR = [t \in {Whole} |-> <<<<>>, <<>>>>]

low(t) == t[1]
high(t) == t[2]
mid(t) == low(t) + (high(t) - low(t)) \div 2
Halves(t) == {<<low(t), mid(t)>>, <<mid(t) + 1, high(t)>>}

\* A range with fewer than five numbers is not split.
Splits(t) == low(t) <= high(t) - 4

TaskIs(t, pc) == t \in DOMAIN tasks /\ tasks[t] = pc
TaskGoes(t, pc) == tasks' = [tasks EXCEPT ![t] = pc]

\* fork or pthread_create for the two halves.
Split(t) ==
  LET all == DOMAIN tasks \cup Halves(t) IN
  /\ TaskIs(t, "start") /\ Splits(t)
  /\ tasks' = [u \in all |-> IF u = t THEN "wait" ELSE IF u \in Halves(t) THEN "start" ELSE tasks[u]]
  /\ idx' = [u \in all |-> IF u \in DOMAIN idx THEN idx[u] ELSE low(u)]
  /\ LR' = [u \in all |-> IF u \in DOMAIN LR THEN LR[u] ELSE <<<<>>, <<>>>>]
  /\ UNCHANGED <<arr, input>>

\* Selection sort: the first least number from i on is swapped to i.
SelectLeast(t) ==
  LET i == idx[t]
      rest == i .. high(t)
      least == Min({j \in rest : \A k \in rest : arr[j] <= arr[k]})
  IN  /\ TaskIs(t, "start") /\ ~Splits(t) /\ i <= high(t)
      /\ arr' = [arr EXCEPT ![i] = arr[least], ![least] = arr[i]]
      /\ idx' = [idx EXCEPT ![t] = i + 1]
      /\ UNCHANGED <<input, tasks, LR>>

SelectEnd(t) ==
  /\ TaskIs(t, "start") /\ ~Splits(t) /\ idx[t] > high(t)
  /\ TaskGoes(t, "done")
  /\ UNCHANGED <<arr, input, idx, LR>>

\* Mutant: the parent waits for the first child only.
JoinedFirst(t) == tasks[<<low(t), mid(t)>>] = "done"

\* waitpid or pthread_join for both.
Joined(t) == \A h \in Halves(t) : tasks[h] = "done"

\* merge copies the halves,
MergeCopy(t) ==
  /\ TaskIs(t, "wait") /\ Joined(t)
  /\ LR' = [LR EXCEPT ![t] = <<[i \in 1 .. mid(t) - low(t) + 1 |-> arr[low(t) + i - 1]],
                               [j \in 1 .. high(t) - mid(t) |-> arr[mid(t) + j]]>>]
  /\ idx' = [idx EXCEPT ![t] = low(t)]
  /\ TaskGoes(t, "merge")
  /\ UNCHANGED <<arr, input>>

\* The next number is from the left half.
TakesLeft(L, R) == L # <<>> /\ (R = <<>> \/ Head(L) <= Head(R))

\* and puts the numbers back one by one.
MergePut(t) ==
  LET L == LR[t][1]
      R == LR[t][2]
      k == idx[t]
  IN  /\ TaskIs(t, "merge") /\ k <= high(t)
      /\ IF TakesLeft(L, R)
         THEN arr' = [arr EXCEPT ![k] = Head(L)] /\ LR' = [LR EXCEPT ![t] = <<Tail(L), R>>]
         ELSE arr' = [arr EXCEPT ![k] = Head(R)] /\ LR' = [LR EXCEPT ![t] = <<L, Tail(R)>>]
      /\ idx' = [idx EXCEPT ![t] = k + 1]
      /\ UNCHANGED <<input, tasks>>

MergeEnd(t) ==
  /\ TaskIs(t, "merge") /\ idx[t] > high(t)
  /\ TaskGoes(t, "done")
  /\ UNCHANGED <<arr, input, idx, LR>>

Sorting(t) ==
  \/ Split(t) \/ SelectLeast(t) \/ SelectEnd(t) \/ MergeCopy(t) \/ MergePut(t) \/ MergeEnd(t)

MsNext == \E t \in DOMAIN tasks : Sorting(t)

\* The numbers of a range, in their order.
SortedRange(f, t) ==
  /\ \A i, j \in low(t) .. high(t) : i < j => f[i] <= f[j]
  /\ \A x \in Numbers : Quantify(low(t) .. high(t), LAMBDA i : f[i] = x)
                        = Quantify(low(t) .. high(t), LAMBDA i : input[i] = x)

\* A task that has ended leaves its range sorted, with the numbers that were in
\* it, until its parent merges it: neither its sister nor anyone else writes
\* there (mergeSort, threaded_mergeSort).
DoneIsSorted ==
  \A t \in DOMAIN tasks :
    TaskIs(t, "done") /\ (\A u \in DOMAIN tasks : t \in Halves(u) => tasks[u] = "wait")
      => SortedRange(arr, t)

SortEnded == tasks[Whole] = "done"
=============================================================================
