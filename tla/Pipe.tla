-------------------------------- MODULE Pipe --------------------------------
(***************************************************************************)
(* A pipe (pipe.c): a ring of PIPESIZE bytes and two counters of type uint *)
(* that only ever grow and wrap around.  What a call does between two      *)
(* sleeps it does under p->lock: one action.                               *)
(*                                                                         *)
(* Several processes may have either end open.  The last close of an end   *)
(* calls pipeclose (fileclose).                                            *)
(***************************************************************************)
EXTENDS Integers, Sequences, FiniteSets

CONSTANTS
  Writers, Readers,
  PIPESIZE,
  PipeUInt,     \* 2^32 in the code
  CallSizes,     \* bound: the numbers of bytes of one call
  Killable,      \* bound: the processes that kill is called for
  MaxBytes       \* bound: bytes all writers together put into the pipe

ASSUME PipeAssumption ==
  /\ PIPESIZE \in Nat \ {0} /\ CallSizes \subseteq Nat \ {0} /\ MaxBytes \in Nat
  /\ PipeUInt \in Nat /\ PipeUInt % PIPESIZE = 0 /\ PipeUInt > PIPESIZE
  /\ Writers \cap Readers = {} /\ Killable \subseteq Writers \cup Readers

PipeUsers == Writers \cup Readers

VARIABLES
  nread, nwrite, data, readopen, writeopen,   \* struct pipe
  freed,       \* kfree was called on it
  pcall,       \* the call a process is in
  pleft,       \* the bytes of the call that are still to be copied
  pchan,       \* what a process sleeps on
  pkilled,
  presult,     \* the value the last call of a process returned
  sent, got    \* history: the bytes put in and the bytes taken out

struct == <<nread, nwrite, data, readopen, writeopen, freed>>
PipeVars == <<struct, pcall, pleft, pchan, pkilled, presult, sent, got>>

NoByte == <<>>

Wrap(n) == n % PipeUInt

PipeInit ==
  /\ nread = 0 /\ nwrite = 0
  /\ data = [i \in 0 .. PIPESIZE - 1 |-> NoByte]
  /\ readopen = TRUE /\ writeopen = TRUE /\ freed = FALSE
  /\ pcall = [p \in PipeUsers |-> "none"]
  /\ pleft = [p \in PipeUsers |-> 0]
  /\ pchan = [p \in PipeUsers |-> "awake"]
  /\ pkilled = [p \in PipeUsers |-> FALSE]
  /\ presult = [p \in PipeUsers |-> -1]
  /\ sent = <<>> /\ got = <<>>

WakePipe(ch) == [p \in PipeUsers |-> IF pchan[p] = ch THEN "awake" ELSE pchan[p]]

\* The bytes in the pipe; nwrite - nread in unsigned arithmetic.
Used == (nwrite - nread) % PipeUInt

\* Mutant: the pipe counts as full one byte late.
PipeRoomLate == PIPESIZE + 1 - Used

\* Full is nwrite == nread + PIPESIZE.
PipeRoom == PIPESIZE - Used

\* The bytes of a writer are its name and their number.
NextBytes(p, k) ==
  LET before == Cardinality({i \in DOMAIN sent : sent[i][1] = p})
  IN  [i \in 1 .. k |-> <<p, before + i>>]

Return(p, v) ==
  /\ pcall' = [pcall EXCEPT ![p] = "none"]
  /\ pleft' = [pleft EXCEPT ![p] = 0]
  /\ presult' = [presult EXCEPT ![p] = v]

\* A process calls write or read with n bytes; not yet under the lock.
PipeBegin(p, n) ==
  /\ pcall[p] = "none" /\ ~pkilled[p]
  /\ pcall' = [pcall EXCEPT ![p] = IF p \in Writers THEN "write" ELSE "read"]
  /\ pleft' = [pleft EXCEPT ![p] = n]
  /\ presult' = [presult EXCEPT ![p] = n]
  /\ UNCHANGED <<struct, pchan, pkilled, sent, got>>

\* Mutant: a writer that sleeps does not wake the readers.
SleepWakesNobody(p) == [pchan EXCEPT ![p] = "nwrite"]

\* wakeup(&p->nread); sleep(&p->nwrite, &p->lock)
SleepForRoom(p) == [WakePipe("nread") EXCEPT ![p] = "nwrite"]

\* pipewrite from one sleep to the next: as many bytes as there is room for, and
\* then it returns, gives up or sleeps.
Pipewrite(p) ==
  LET room == PipeRoom
      k == IF pleft[p] < room THEN pleft[p] ELSE room
      new == NextBytes(p, k)
      left == pleft[p] - k
  IN  /\ pcall[p] = "write" /\ pchan[p] = "awake"
      /\ data' = [c \in DOMAIN data |->
                    LET past == (c - nwrite) % PIPESIZE
                    IN  IF past < k THEN new[past + 1] ELSE data[c]]
      /\ nwrite' = Wrap(nwrite + k)
      /\ sent' = sent \o new
      /\ \/ left = 0 /\ Return(p, presult[p]) /\ pchan' = WakePipe("nread")
         \/ left > 0 /\ (~readopen \/ pkilled[p]) /\ Return(p, -1) /\ UNCHANGED pchan
         \/ /\ left > 0 /\ readopen /\ ~pkilled[p]
            /\ pleft' = [pleft EXCEPT ![p] = left]
            /\ pchan' = SleepForRoom(p)
            /\ UNCHANGED <<pcall, presult>>
      /\ UNCHANGED <<nread, readopen, writeopen, freed, pkilled, got>>

\* The condition of the loop in piperead.
ReadWaits == nread = nwrite /\ writeopen

PipereadSleep(p) ==
  /\ pcall[p] = "read" /\ pchan[p] = "awake"
  /\ ReadWaits
  /\ IF pkilled[p] THEN Return(p, -1) /\ UNCHANGED pchan
     ELSE pchan' = [pchan EXCEPT ![p] = "nread"] /\ UNCHANGED <<pcall, pleft, presult>>
  /\ UNCHANGED <<struct, pkilled, sent, got>>

\* piperead after its loop.
Piperead(p) ==
  LET k == IF pleft[p] < Used THEN pleft[p] ELSE Used IN
  /\ pcall[p] = "read" /\ pchan[p] = "awake"
  /\ ~ReadWaits
  /\ got' = got \o [i \in 1 .. k |-> data[(nread + i - 1) % PIPESIZE]]
  /\ nread' = Wrap(nread + k)
  /\ pchan' = WakePipe("nwrite")
  /\ Return(p, k)
  /\ UNCHANGED <<nwrite, data, readopen, writeopen, freed, pkilled, sent>>

EndOf(p) == IF p \in Writers THEN Writers ELSE Readers

\* Mutant: closing the write end wakes nobody.
CloseSilent(p) == pchan

\* pipeclose wakes the other side.
CloseWakes(p) == WakePipe(IF p \in Writers THEN "nread" ELSE "nwrite")

\* The reference count of the end falls to 0.
LastClose(p) == \A q \in EndOf(p) \ {p} : pcall[q] \in {"closed", "pipeclose"}

\* fileclose drops the reference; the last one goes on to pipeclose.
CloseFile(p) ==
  /\ pcall[p] = "none"
  /\ pcall' = [pcall EXCEPT ![p] = IF LastClose(p) THEN "pipeclose" ELSE "closed"]
  /\ UNCHANGED <<struct, pleft, pchan, pkilled, presult, sent, got>>

Pipeclose(p) ==
  /\ pcall[p] = "pipeclose"
  /\ readopen' = (readopen /\ p \in Writers)
  /\ writeopen' = (writeopen /\ p \in Readers)
  /\ freed' = (~readopen' /\ ~writeopen')
  /\ pchan' = CloseWakes(p)
  /\ pcall' = [pcall EXCEPT ![p] = "closed"]
  /\ UNCHANGED <<nread, nwrite, data, pleft, pkilled, presult, sent, got>>

\* kill: a sleeping process is made RUNNABLE.
PipeKill(p) ==
  /\ p \in Killable /\ ~pkilled[p] /\ pcall[p] # "closed"
  /\ pkilled' = [pkilled EXCEPT ![p] = TRUE]
  /\ pchan' = [pchan EXCEPT ![p] = "awake"]
  /\ UNCHANGED <<struct, pcall, pleft, presult, sent, got>>

PipeGoesOn(p) ==
  Pipewrite(p) \/ PipereadSleep(p) \/ Piperead(p) \/ CloseFile(p) \/ Pipeclose(p)

\* The bytes written, or still to be written by calls that have begun.
Asked == Len(sent) + Cardinality(UNION {{q} \X (1 .. pleft[q]) : q \in Writers})

\* Nobody goes on: all have closed, or sleep, which PipeCallsReturn excludes.
PipeOver ==
  /\ \A p \in PipeUsers : pcall[p] = "closed" \/ pchan[p] # "awake"
  /\ UNCHANGED PipeVars

PipeNext ==
  \/ PipeOver
  \/ \E p \in PipeUsers :
       \/ PipeGoesOn(p) \/ PipeKill(p)
       \/ \E n \in CallSizes : (p \in Writers => Asked + n <= MaxBytes) /\ PipeBegin(p, n)

PipeSpec == PipeInit /\ [][PipeNext]_PipeVars

-----------------------------------------------------------------------------
\* The bytes taken out are the bytes put in, in the same order and without a gap,
\* and the ones in between are in the ring, also when the counters wrap around
\* and whoever is killed in the middle of a call (pipewrite, piperead).  A reader
\* that is told the end of file has got every byte and there will never be another
\* one; the page is freed when no process has an end open or is in a call.
PipeIsFifo ==
  /\ Used <= PIPESIZE
  /\ got \o [i \in 1 .. Used |-> data[(nread + i - 1) % PIPESIZE]] = sent
  /\ \A p \in Readers :
       presult[p] = 0 => got = sent /\ \A q \in Writers : pcall[q] = "closed"
  /\ freed => \A p \in PipeUsers : pcall[p] = "closed"

\* Nobody sleeps although what it waits for is there: a reader while there are
\* bytes or no writer, a writer while there is room or no reader, anybody while
\* killed (the wakeups of pipewrite, piperead, pipeclose and kill).  With one
\* exception: a writer that finds itself killed gives up without a wakeup, and
\* the bytes it wrote before do not wake a reader.  Nothing is said about a reader
\* once a writer is killed that has given up, or has not finished a call yet.
PipeSleepersWait ==
  \A p \in PipeUsers :
    /\ pchan[p] = "nread" =>
         /\ writeopen /\ ~pkilled[p]
         /\ Used = 0 \/ \E q \in Writers : pkilled[q] /\ presult[q] = -1
    /\ pchan[p] = "nwrite" => Used = PIPESIZE /\ readopen /\ ~pkilled[p]

\* Every call returns, as long as processes that are not in a call use the pipe
\* or close it in the end.
PipeCallsReturn ==
  \A p \in PipeUsers : []<>(pcall[p] \notin {"read", "write"})
=============================================================================
