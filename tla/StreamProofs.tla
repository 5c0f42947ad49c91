---------------------------- MODULE StreamProofs ----------------------------
(***************************************************************************)
(* Proofs about the two rings of bytes that processes sleep on.  A pipe is *)
(* a first-in first-out queue although its two counters wrap around, and   *)
(* nobody sleeps on it without a reason.  The ring that the console reads  *)
(* into implements the line discipline that programs read from.            *)
(***************************************************************************)
EXTENDS Pipe, Console, NatFacts

-----------------------------------------------------------------------------
(* Pipes. *)


\* A byte is named after its writer and numbered: how many of the writer's bytes
\* were sent before it, plus its place among those sent with it.
PipeNumbers == UNION {{Cardinality(T) + i : i \in Nat} : T \in SUBSET Nat}
PipeByte == Writers \X PipeNumbers

PipeTypes ==
  /\ sent \in Seq(PipeByte) /\ got \in Seq(PipeByte)
  /\ data \in [0 .. PIPESIZE - 1 -> PipeByte \cup {NoByte}]
  /\ readopen \in BOOLEAN /\ writeopen \in BOOLEAN /\ freed \in BOOLEAN
  /\ pcall \in [PipeUsers -> {"none", "write", "read", "pipeclose", "closed"}]
  /\ pleft \in [PipeUsers -> Nat]
  /\ pchan \in [PipeUsers -> {"awake", "nread", "nwrite"}]
  /\ pkilled \in [PipeUsers -> BOOLEAN]
  /\ presult \in [PipeUsers -> Int]

\* The counters are the numbers of bytes written and read, as far as a uint goes;
\* byte number i is in cell i % PIPESIZE until it is read.
RingHolds ==
  /\ Len(got) <= Len(sent) /\ Len(sent) <= Len(got) + PIPESIZE
  /\ nread = Wrap(Len(got)) /\ nwrite = Wrap(Len(sent))
  /\ \A i \in 1 .. Len(got) : got[i] = sent[i]
  /\ \A i \in Len(got) .. Len(sent) - 1 : data[i % PIPESIZE] = sent[i + 1]

\* A call is one of its end, and it has something left to copy.
CallsOfEnds ==
  \A p \in PipeUsers :
    /\ pcall[p] = "write" => p \in Writers
    /\ pcall[p] = "read" => p \in Readers
    /\ pcall[p] \in {"write", "read"} => pleft[p] > 0
    /\ pchan[p] = "nread" => pcall[p] = "read"
    /\ pchan[p] = "nwrite" => pcall[p] = "write"

\* The process that closes an end is the last one that had it open.
EndsClosed ==
  /\ \A p \in PipeUsers :
       pcall[p] = "pipeclose" => \A q \in EndOf(p) \ {p} : pcall[q] = "closed"
  /\ ~writeopen => \A q \in Writers : pcall[q] = "closed"
  /\ ~readopen => \A q \in Readers : pcall[q] = "closed"
  /\ freed => ~writeopen /\ ~readopen

\* Who was told the end of file got everything.
EofIsTheEnd ==
  \A p \in Readers :
    presult[p] = 0 => got = sent /\ \A q \in Writers : pcall[q] = "closed"

PipeInv ==
  PipeTypes /\ RingHolds /\ CallsOfEnds /\ EndsClosed /\ EofIsTheEnd /\ PipeSleepersWait

-----------------------------------------------------------------------------
(* The arithmetic of the counters. *)

LEMMA PipeFactor ==
  /\ PIPESIZE \in Nat \ {0} /\ PipeUInt \in Nat \ {0} /\ PIPESIZE < PipeUInt
  /\ \E f \in Int : PipeUInt = PIPESIZE * f
<1>1. PIPESIZE \in Nat \ {0} /\ PipeUInt \in Nat /\ PIPESIZE < PipeUInt /\ PipeUInt % PIPESIZE = 0
  BY PipeAssumption, Zenon
<1>2. PipeUInt \in Int
  BY <1>1
<1>3. PICK f \in Int : PipeUInt = PIPESIZE * f + (PipeUInt % PIPESIZE)
  BY <1>1, <1>2, Quotient, Zenon
<1>4. PipeUInt = PIPESIZE * f + 0
  BY <1>1, <1>3, Zenon
<1>5. PIPESIZE * f \in Int
  BY <1>1
<1>6. PipeUInt = PIPESIZE * f
  BY <1>4, <1>5
<1>7. PipeUInt \in Nat \ {0}
  BY <1>1
<1>. QED
  BY <1>1, <1>6, <1>7, Zenon

\* Two counters that wrap are as far apart as the numbers they stand for.
LEMMA WrapApart ==
  ASSUME NEW s \in Nat, NEW g \in Nat, g <= s, s <= g + PIPESIZE
  PROVE  (Wrap(s) - Wrap(g)) % PipeUInt = s - g
<1>. DEFINE u == PipeUInt
            x == s % u
            y == g % u
<1>1. u \in Nat \ {0} /\ PIPESIZE \in Nat /\ PIPESIZE < u
  BY PipeFactor, Zenon
<1>. HIDE DEF u
<1>2. x \in 0 .. u - 1 /\ y \in 0 .. u - 1 /\ s \in Int /\ g \in Int
  BY <1>1, ModRange
<1>3. (x + (-y)) % u = (s + (-y)) % u
  <2>1. -y \in Int
    BY <1>1, <1>2
  <2>. QED
    BY <1>1, <1>2, <2>1, ModPlus, Zenon
<1>4. (s - y) % u = (s - g) % u
  <2>1. 1 \in Int /\ u = u * 1
    BY <1>1
  <2>. QED
    BY <1>1, <1>2, <2>1, ModMinus, ZenonT(40)
<1>5. (s - g) % u = s - g
  BY <1>1
<1>6. x + (-y) = x - y /\ s + (-y) = s - y
  <2>. HIDE DEF x, y
  <2>. QED
    BY <1>1, <1>2, Zenon
<1>7. (x - y) % u = s - g
  BY <1>3, <1>4, <1>5, <1>6, Zenon
<1>. QED
  BY <1>7, Zenon DEF Wrap, u

\* A counter that wraps points to the same cell as the number it stands for.
LEMMA WrapCell ==
  ASSUME NEW n \in Nat, NEW k \in Int
  PROVE  /\ (Wrap(n) + k) % PIPESIZE = (n + k) % PIPESIZE
         /\ (k - Wrap(n)) % PIPESIZE = (k - n) % PIPESIZE
<1>1. PICK f \in Int : PipeUInt = PIPESIZE * f
  BY PipeFactor, Zenon
<1>2. PIPESIZE \in Nat \ {0} /\ PipeUInt \in Nat \ {0} /\ n \in Int
  BY PipeFactor
<1>3. ((n % PipeUInt) + k) % PIPESIZE = (n + k) % PIPESIZE
  BY <1>1, <1>2, ModWrap, ZenonT(40)
<1>4. (k - (n % PipeUInt)) % PIPESIZE = (k - n) % PIPESIZE
  BY <1>1, <1>2, ModMinus, ZenonT(40)
<1>. QED
  BY <1>3, <1>4, Zenon DEF Wrap

\* Adding to a counter that wraps.
LEMMA WrapPlus ==
  ASSUME NEW n \in Nat, NEW k \in Int
  PROVE  Wrap(Wrap(n) + k) = Wrap(n + k)
<1>1. PipeUInt \in Nat \ {0} /\ n \in Int
  BY PipeFactor
<1>2. ((n % PipeUInt) + k) % PipeUInt = (n + k) % PipeUInt
  BY <1>1, ModPlus, Zenon
<1>. QED
  BY <1>2, Zenon DEF Wrap

\* What the counters say is in the pipe.
LEMMA UsedIs ==
  ASSUME PipeTypes, RingHolds
  PROVE  /\ Used = Len(sent) - Len(got) /\ Used \in 0 .. PIPESIZE
         /\ nread = nwrite <=> Used = 0
<1>1. Len(sent) \in Nat /\ Len(got) \in Nat /\ PIPESIZE \in Nat
  BY PipeFactor DEF PipeTypes
<1>2. Used = Len(sent) - Len(got)
  <2>1. (Wrap(Len(sent)) - Wrap(Len(got))) % PipeUInt = Len(sent) - Len(got)
    BY <1>1, WrapApart, Zenon DEF RingHolds
  <2>. QED
    BY <2>1, Zenon DEF Used, RingHolds
<1>3. Used \in 0 .. PIPESIZE
  BY <1>1, <1>2 DEF RingHolds
<1>4. nread \in 0 .. PipeUInt - 1 /\ nwrite \in 0 .. PipeUInt - 1 /\ PipeUInt \in Nat \ {0}
  <2>1. Len(sent) \in Int /\ Len(got) \in Int /\ PipeUInt \in Nat \ {0}
    BY <1>1, PipeFactor
  <2>2. Wrap(Len(sent)) \in 0 .. PipeUInt - 1 /\ Wrap(Len(got)) \in 0 .. PipeUInt - 1
    BY <2>1, ModRange, Zenon DEF Wrap
  <2>. QED
    BY <2>1, <2>2, Zenon DEF RingHolds
<1>5. nread = nwrite => Used = 0
  BY <1>4 DEF Used
<1>6. Used = 0 => nread = nwrite
  <2>1. Used = 0 => Len(sent) = Len(got)
    BY <1>1, <1>2
  <2>. QED
    BY <2>1, Zenon DEF RingHolds
<1>. QED
  BY <1>2, <1>3, <1>5, <1>6, Zenon

-----------------------------------------------------------------------------
(* What the invariant says of the pipe. *)

LEMMA PipeInvIsFifo == PipeInv => PipeIsFifo
<1>. SUFFICES ASSUME PipeInv PROVE PipeIsFifo
  BY Zenon
<1>. DEFINE s == Len(sent)
            g == Len(got)
            rest == [i \in 1 .. Used |-> data[(nread + i - 1) % PIPESIZE]]
<1>1. PipeTypes /\ RingHolds /\ EofIsTheEnd /\ EndsClosed
  BY Zenon DEF PipeInv
<1>2. s \in Nat /\ g \in Nat /\ PIPESIZE \in Nat \ {0}
  BY <1>1, PipeFactor DEF PipeTypes
<1>3. Used = s - g /\ Used \in 0 .. PIPESIZE
  BY <1>1, UsedIs, Zenon
<1>4. \A i \in 1 .. Used : rest[i] = sent[g + i]
  <2>. SUFFICES ASSUME NEW i \in 1 .. Used PROVE rest[i] = sent[g + i]
    BY Zenon
  <2>. HIDE DEF s, g
  <2>1. i \in Nat /\ i - 1 \in Int /\ g + (i - 1) \in g .. s - 1 /\ (g + (i - 1)) + 1 = g + i
    BY <1>2, <1>3
  <2>2. (Wrap(g) + (i - 1)) % PIPESIZE = (g + (i - 1)) % PIPESIZE
    BY <1>2, <2>1, WrapCell, Zenon
  <2>3. data[(g + (i - 1)) % PIPESIZE] = sent[(g + (i - 1)) + 1]
    BY <1>1, <2>1, Zenon DEF RingHolds, s, g
  <2>4. nread = Wrap(g) /\ nread \in Int
    <3>1. g \in Int /\ PipeUInt \in Nat \ {0}
      BY <1>2, PipeFactor
    <3>2. Wrap(g) \in 0 .. PipeUInt - 1
      BY <3>1, ModRange, Zenon DEF Wrap
    <3>. QED
      BY <1>1, <3>1, <3>2 DEF RingHolds, g
  <2>5. nread + i - 1 = nread + (i - 1)
    BY <2>1, <2>4, Zenon
  <2>6. data[(nread + i - 1) % PIPESIZE] = sent[g + i]
    BY <2>1, <2>2, <2>3, <2>4, <2>5, Zenon
  <2>. QED
    BY <2>6, Zenon
<1>5. rest \in Seq(PipeByte) /\ Len(rest) = Used
  <2>. HIDE DEF rest
  <2>1. ASSUME NEW i \in 1 .. Used PROVE rest[i] \in PipeByte
    <3>1. rest[i] = sent[g + i]
      BY <1>4, Zenon
    <3>2. g + i \in 1 .. Len(sent)
      BY <1>1, <1>2, <1>3
    <3>3. sent \in Seq(PipeByte)
      BY <1>1, Zenon DEF PipeTypes
    <3>4. sent[g + i] \in PipeByte
      <4>. HIDE DEF g
      <4>. QED
        BY <3>2, <3>3
    <3>. QED
      BY <3>1, <3>4, Zenon
  <2>2. \A i \in 1 .. Used : data[(nread + i - 1) % PIPESIZE] \in PipeByte
    BY <2>1, Zenon DEF rest
  <2>3. rest \in [1 .. Used -> PipeByte]
    BY <2>2, Zenon DEF rest
  <2>. QED
    BY <1>3, <2>3
<1>6. got \o rest = sent
  <2>. HIDE DEF rest
  <2>1. got \o rest \in Seq(PipeByte) /\ Len(got \o rest) = s
    BY <1>1, <1>2, <1>3, <1>5 DEF PipeTypes
  <2>2. ASSUME NEW i \in 1 .. s PROVE (got \o rest)[i] = sent[i]
    <3>1. CASE i <= g
      <4>1. got \in Seq(PipeByte) /\ i \in 1 .. g
        BY <1>1, <1>2, <3>1 DEF PipeTypes
      <4>2. (got \o rest)[i] = got[i]
        BY <1>5, <4>1
      <4>3. got[i] = sent[i]
        BY <1>1, <4>1 DEF RingHolds
      <4>. QED
        BY <4>2, <4>3, Zenon
    <3>2. CASE i > g
      <4>1. (got \o rest)[i] = rest[i - g] /\ i - g \in 1 .. Used /\ g + (i - g) = i
        BY <1>1, <1>2, <1>3, <1>5, <3>2 DEF PipeTypes
      <4>. QED
        BY <1>4, <4>1, Zenon
    <3>3. i <= g \/ i > g
      BY <1>2
    <3>. QED
      BY <3>1, <3>2, <3>3, Zenon
  <2>. DEFINE whole == got \o rest
  <2>3. whole \in Seq(PipeByte) /\ sent \in Seq(PipeByte) /\ Len(whole) = Len(sent)
        /\ \A i \in 1 .. Len(sent) : whole[i] = sent[i]
    BY <1>1, <2>1, <2>2, Zenon DEF PipeTypes
  <2>. HIDE DEF whole
  <2>4. whole = sent
    BY <2>3
  <2>. QED
    BY <2>4, Zenon DEF whole
<1>7. freed => \A p \in PipeUsers : pcall[p] = "closed"
  BY <1>1, Zenon DEF EndsClosed, PipeUsers
<1>8. Used <= PIPESIZE
  BY <1>2, <1>3
<1>. QED
  BY <1>1, <1>6, <1>7, <1>8, Zenon DEF PipeIsFifo, EofIsTheEnd

-----------------------------------------------------------------------------
(* The invariant holds at the start. *)

LEMMA PipeInitInv == PipeInit => PipeInv
<1>. SUFFICES ASSUME PipeInit PROVE PipeInv
  BY Zenon
<1>1. Len(sent) = 0 /\ Len(got) = 0 /\ PIPESIZE \in Nat
  BY PipeFactor, Zenon DEF PipeInit
<1>2. PipeTypes
  <2>1. sent \in Seq(PipeByte) /\ got \in Seq(PipeByte)
    BY DEF PipeInit
  <2>2. data \in [0 .. PIPESIZE - 1 -> PipeByte \cup {NoByte}]
    BY Zenon DEF PipeInit
  <2>3. /\ readopen \in BOOLEAN /\ writeopen \in BOOLEAN /\ freed \in BOOLEAN
        /\ pkilled \in [PipeUsers -> BOOLEAN]
    BY Zenon DEF PipeInit
  <2>4. /\ pcall \in [PipeUsers -> {"none", "write", "read", "pipeclose", "closed"}]
        /\ pleft \in [PipeUsers -> Nat]
        /\ pchan \in [PipeUsers -> {"awake", "nread", "nwrite"}]
        /\ presult \in [PipeUsers -> Int]
    BY DEF PipeInit
  <2>. QED
    BY <2>1, <2>2, <2>3, <2>4, Zenon DEF PipeTypes
<1>3. Wrap(0) = 0
  BY PipeFactor DEF Wrap
<1>4. RingHolds
  BY <1>1, <1>3 DEF PipeInit, RingHolds
<1>5. CallsOfEnds /\ EndsClosed /\ PipeSleepersWait
  BY Zenon DEF PipeInit, CallsOfEnds, EndsClosed, PipeSleepersWait
<1>6. EofIsTheEnd
  BY DEF PipeInit, EofIsTheEnd, PipeUsers
<1>. QED
  BY <1>2, <1>4, <1>5, <1>6, Zenon DEF PipeInv

-----------------------------------------------------------------------------
(* Steps that leave the ring alone. *)

\* The ring and the ends are judged by the variables that they are about.
LEMMA RingStays ==
  ASSUME PipeInv, UNCHANGED <<nread, nwrite, data, sent, got>>
  PROVE  RingHolds' /\ Used' = Used
<1>. QED
  BY Zenon DEF PipeInv, RingHolds, Used, Wrap

\* After wakeup(ch) nobody sleeps on ch, and nobody else is woken.
LEMMA Woken ==
  ASSUME PipeTypes, NEW ch
  PROVE  /\ WakePipe(ch) \in [PipeUsers -> {"awake", "nread", "nwrite"}]
         /\ \A p \in PipeUsers :
              WakePipe(ch)[p] = "awake" \/ (WakePipe(ch)[p] = pchan[p] /\ pchan[p] # ch)
<1>. QED
  BY Zenon DEF PipeTypes, WakePipe

\* A step inside a call, or that begins or ends one, closes nothing.
LEMMA EndsStay ==
  ASSUME PipeInv, NEW p \in PipeUsers, pcall[p] \in {"none", "write", "read"},
         NEW c \in {"none", "write", "read"}, pcall' = [pcall EXCEPT ![p] = c],
         UNCHANGED <<readopen, writeopen, freed>>
  PROVE  EndsClosed'
         /\ \A q \in PipeUsers : pcall[q] = "closed" => pcall'[q] = "closed"
<1>. QED
  BY DEF PipeInv, PipeTypes, EndsClosed, EndOf, PipeUsers

LEMMA PipeBeginKeeps ==
  ASSUME PipeInv, NEW p \in PipeUsers, NEW n \in CallSizes, PipeBegin(p, n)
  PROVE  PipeInv'
<1>. DEFINE c == IF p \in Writers THEN "write" ELSE "read"
<1>1. /\ pcall[p] = "none" /\ ~pkilled[p] /\ pcall' = [pcall EXCEPT ![p] = c]
      /\ pleft' = [pleft EXCEPT ![p] = n] /\ presult' = [presult EXCEPT ![p] = n]
      /\ n \in Nat /\ n > 0 /\ c \in {"write", "read"}
      /\ c = "write" => p \in Writers
      /\ c = "read" => p \in Readers
  BY PipeAssumption DEF PipeBegin, PipeUsers
<1>. HIDE DEF c
<1>2. UNCHANGED <<nread, nwrite, data, readopen, writeopen, freed, pchan, pkilled, sent, got>>
  BY Zenon DEF PipeBegin, struct
<1>3. PipeTypes'
  BY <1>1, <1>2 DEF PipeInv, PipeTypes
<1>4. RingHolds' /\ Used' = Used
  BY <1>2, RingStays, Zenon
<1>5. CallsOfEnds'
  BY <1>1, <1>2, Zenon DEF PipeInv, PipeTypes, CallsOfEnds
<1>6. EndsClosed' /\ \A q \in PipeUsers : pcall[q] = "closed" => pcall'[q] = "closed"
  BY <1>1, <1>2, EndsStay, Zenon
<1>7. EofIsTheEnd'
  BY <1>1, <1>2, <1>6 DEF PipeInv, PipeTypes, EofIsTheEnd, PipeUsers
<1>8. PipeSleepersWait'
  BY <1>1, <1>2, <1>4, Zenon DEF PipeInv, PipeTypes, PipeSleepersWait, PipeUsers
<1>. QED
  BY <1>3, <1>4, <1>5, <1>6, <1>7, <1>8, Zenon DEF PipeInv

LEMMA PipereadSleepKeeps ==
  ASSUME PipeInv, NEW p \in PipeUsers, PipereadSleep(p)
  PROVE  PipeInv'
<1>1. /\ pcall[p] = "read" /\ pchan[p] = "awake" /\ nread = nwrite /\ writeopen
      /\ UNCHANGED <<nread, nwrite, data, readopen, writeopen, freed, pkilled, sent, got>>
  BY Zenon DEF PipereadSleep, ReadWaits, struct
<1>2. RingHolds' /\ Used' = Used /\ Used = 0
  BY <1>1, RingStays, UsedIs, Zenon DEF PipeInv
<1>3. CASE pkilled[p]
  <2>1. /\ pcall' = [pcall EXCEPT ![p] = "none"] /\ pleft' = [pleft EXCEPT ![p] = 0]
        /\ presult' = [presult EXCEPT ![p] = -1] /\ pchan' = pchan
    BY <1>3, Zenon DEF PipereadSleep, Return
  <2>2. PipeTypes'
    BY <1>1, <2>1 DEF PipeInv, PipeTypes
  <2>3. CallsOfEnds'
    BY <1>1, <2>1, Zenon DEF PipeInv, PipeTypes, CallsOfEnds
  <2>4. EndsClosed' /\ \A q \in PipeUsers : pcall[q] = "closed" => pcall'[q] = "closed"
    BY <1>1, <2>1, EndsStay, Zenon
  <2>5. EofIsTheEnd'
    BY <1>1, <2>1, <2>4 DEF PipeInv, PipeTypes, EofIsTheEnd, PipeUsers
  <2>6. PipeSleepersWait'
    BY <1>1, <1>2, <2>1, Zenon DEF PipeInv, PipeTypes, PipeSleepersWait, PipeUsers
  <2>. QED
    BY <1>2, <2>2, <2>3, <2>4, <2>5, <2>6, Zenon DEF PipeInv
<1>4. CASE ~pkilled[p]
  <2>1. pchan' = [pchan EXCEPT ![p] = "nread"] /\ UNCHANGED <<pcall, pleft, presult>>
    BY <1>4, Zenon DEF PipereadSleep
  <2>2. PipeTypes'
    BY <1>1, <2>1, Zenon DEF PipeInv, PipeTypes
  <2>3. CallsOfEnds' /\ EndsClosed' /\ EofIsTheEnd'
    BY <1>1, <2>1, Zenon DEF PipeInv, PipeTypes, CallsOfEnds, EndsClosed, EofIsTheEnd
  <2>4. PipeSleepersWait'
    BY <1>1, <1>2, <1>4, <2>1, Zenon DEF PipeInv, PipeTypes, PipeSleepersWait
  <2>. QED
    BY <1>2, <2>2, <2>3, <2>4, Zenon DEF PipeInv
<1>. QED
  BY <1>3, <1>4, Zenon

LEMMA CloseFileKeeps ==
  ASSUME PipeInv, NEW p \in PipeUsers, CloseFile(p)
  PROVE  PipeInv'
<1>1. /\ pcall[p] = "none"
      /\ UNCHANGED <<nread, nwrite, data, readopen, writeopen, freed, pleft, pchan,
                     pkilled, presult, sent, got>>
  BY Zenon DEF CloseFile, struct
<1>2. PICK c \in {"pipeclose", "closed"} :
        /\ pcall' = [pcall EXCEPT ![p] = c]
        /\ c = "pipeclose" => \A q \in EndOf(p) \ {p} : pcall[q] \in {"closed", "pipeclose"}
  BY Zenon DEF CloseFile, LastClose
<1>3. PipeTypes'
  BY <1>1, <1>2, Zenon DEF PipeInv, PipeTypes
<1>4. RingHolds' /\ Used' = Used
  BY <1>1, RingStays, Zenon
<1>5. CallsOfEnds'
  BY <1>1, <1>2, Zenon DEF PipeInv, PipeTypes, CallsOfEnds
<1>6. \A q \in PipeUsers : pcall[q] = "closed" => pcall'[q] = "closed"
  BY <1>1, <1>2, Zenon DEF PipeInv, PipeTypes
<1>7. EndsClosed'
  <2>1. ASSUME NEW q \in EndOf(p) \ {p} PROVE pcall[q] # "pipeclose"
    <3>1. p \in EndOf(q) \ {q} /\ q \in PipeUsers
      BY PipeAssumption, Zenon DEF EndOf, PipeUsers
    <3>. QED
      BY <1>1, <3>1, Zenon DEF PipeInv, EndsClosed, EndOf, PipeUsers
  <2>2. ASSUME NEW u \in PipeUsers, pcall'[u] = "pipeclose", NEW q \in EndOf(u) \ {u}
        PROVE  pcall'[q] = "closed"
    BY <1>1, <1>2, <1>6, <2>1, <2>2 DEF PipeInv, PipeTypes, EndsClosed, EndOf, PipeUsers
  <2>3. /\ ~writeopen' => \A q \in Writers : pcall'[q] = "closed"
        /\ ~readopen' => \A q \in Readers : pcall'[q] = "closed"
        /\ freed' => ~writeopen' /\ ~readopen'
    BY <1>1, <1>6, Zenon DEF PipeInv, EndsClosed, PipeUsers
  <2>. QED
    BY <2>2, <2>3, Zenon DEF EndsClosed, EndOf
<1>8. EofIsTheEnd'
  BY <1>1, <1>6, Zenon DEF PipeInv, EofIsTheEnd, PipeUsers
<1>9. PipeSleepersWait'
  BY <1>1, <1>4, Zenon DEF PipeInv, PipeSleepersWait
<1>. QED
  BY <1>3, <1>4, <1>5, <1>7, <1>8, <1>9, Zenon DEF PipeInv

LEMMA PipecloseKeeps ==
  ASSUME PipeInv, NEW p \in PipeUsers, Pipeclose(p)
  PROVE  PipeInv'
<1>1. /\ pcall[p] = "pipeclose"
      /\ readopen' = (readopen /\ p \in Writers) /\ writeopen' = (writeopen /\ p \in Readers)
      /\ freed' = (~readopen' /\ ~writeopen')
      /\ pcall' = [pcall EXCEPT ![p] = "closed"]
      /\ UNCHANGED <<nread, nwrite, data, pleft, pkilled, presult, sent, got>>
  BY Zenon DEF Pipeclose
<1>2. PICK ch \in {"nread", "nwrite"} :
        /\ pchan' = WakePipe(ch)
        /\ p \in Writers => ch = "nread"
        /\ p \notin Writers => ch = "nwrite"
  BY Zenon DEF Pipeclose, CloseWakes
<1>3. /\ pchan' \in [PipeUsers -> {"awake", "nread", "nwrite"}]
      /\ \A q \in PipeUsers : pchan'[q] = "awake" \/ (pchan'[q] = pchan[q] /\ pchan[q] # ch)
  BY <1>2, Woken, Zenon DEF PipeInv
<1>4. PipeTypes'
  <2>1. readopen' \in BOOLEAN /\ writeopen' \in BOOLEAN /\ freed' \in BOOLEAN
    BY <1>1, Zenon
  <2>. QED
    BY <1>1, <1>3, <2>1, Zenon DEF PipeInv, PipeTypes
<1>5. RingHolds' /\ Used' = Used
  BY <1>1, RingStays, Zenon
<1>6. CallsOfEnds'
  BY <1>1, <1>3, Zenon DEF PipeInv, PipeTypes, CallsOfEnds
<1>7. \A q \in PipeUsers : pcall[q] = "closed" \/ q = p => pcall'[q] = "closed"
  BY <1>1, Zenon DEF PipeInv, PipeTypes
<1>8. \A q \in EndOf(p) : pcall'[q] = "closed"
  BY <1>1, <1>7, Zenon DEF PipeInv, EndsClosed, EndOf, PipeUsers
<1>9. EndsClosed'
  <2>1. ASSUME NEW u \in PipeUsers, pcall'[u] = "pipeclose", NEW q \in EndOf(u) \ {u}
        PROVE  pcall'[q] = "closed"
    BY <1>1, <1>7, <2>1 DEF PipeInv, PipeTypes, EndsClosed, EndOf, PipeUsers
  <2>2. ~writeopen' => \A q \in Writers : pcall'[q] = "closed"
    BY <1>1, <1>7, <1>8, Zenon DEF PipeInv, EndsClosed, EndOf, PipeUsers
  <2>3. ~readopen' => \A q \in Readers : pcall'[q] = "closed"
    BY <1>1, <1>7, <1>8, Zenon DEF PipeInv, EndsClosed, EndOf, PipeUsers
  <2>4. freed' => ~writeopen' /\ ~readopen'
    BY <1>1, Zenon
  <2>. QED
    BY <2>1, <2>2, <2>3, <2>4, Zenon DEF EndsClosed, EndOf
<1>10. EofIsTheEnd'
  BY <1>1, <1>7, Zenon DEF PipeInv, EofIsTheEnd, PipeUsers
<1>11. PipeSleepersWait'
  <2>. SUFFICES ASSUME NEW q \in PipeUsers
                PROVE  /\ pchan'[q] = "nread" =>
                            /\ writeopen' /\ ~pkilled'[q]
                            /\ Used' = 0 \/ \E x \in Writers : pkilled'[x] /\ presult'[x] = -1
                       /\ pchan'[q] = "nwrite" => Used' = PIPESIZE /\ readopen' /\ ~pkilled'[q]
    BY Zenon DEF PipeSleepersWait
  <2>1. p \in Writers => p \notin Readers
    BY PipeAssumption, Zenon
  <2>. QED
    BY <1>1, <1>2, <1>3, <1>5, <2>1, Zenon DEF PipeInv, PipeSleepersWait, PipeUsers
<1>. QED
  BY <1>4, <1>5, <1>6, <1>9, <1>10, <1>11, Zenon DEF PipeInv

LEMMA PipeKillKeeps ==
  ASSUME PipeInv, NEW p \in PipeUsers, PipeKill(p)
  PROVE  PipeInv'
<1>1. /\ pkilled' = [pkilled EXCEPT ![p] = TRUE] /\ pchan' = [pchan EXCEPT ![p] = "awake"]
      /\ UNCHANGED <<nread, nwrite, data, readopen, writeopen, freed, pcall, pleft, presult, sent, got>>
  BY Zenon DEF PipeKill, struct
<1>2. PipeTypes'
  <2>1. pkilled' \in [PipeUsers -> BOOLEAN]
    BY <1>1, Zenon DEF PipeInv, PipeTypes
  <2>. QED
    BY <1>1, <2>1, Zenon DEF PipeInv, PipeTypes
<1>3. RingHolds' /\ Used' = Used
  BY <1>1, RingStays, Zenon
<1>4. CallsOfEnds' /\ EndsClosed' /\ EofIsTheEnd'
  BY <1>1, Zenon DEF PipeInv, PipeTypes, CallsOfEnds, EndsClosed, EofIsTheEnd
<1>5. \A q \in PipeUsers : q # p => pkilled'[q] = pkilled[q] /\ pchan'[q] = pchan[q]
  BY <1>1, Zenon DEF PipeInv, PipeTypes
<1>6. pkilled'[p] /\ pchan'[p] = "awake"
  BY <1>1, Zenon DEF PipeInv, PipeTypes
<1>7. PipeSleepersWait'
  BY <1>1, <1>3, <1>5, <1>6 DEF PipeInv, PipeSleepersWait, PipeUsers
<1>. QED
  BY <1>2, <1>3, <1>4, <1>7, Zenon DEF PipeInv

-----------------------------------------------------------------------------
(* Bytes come in and go out. *)

LEMMA NextBytesType ==
  ASSUME PipeTypes, NEW p \in Writers, NEW k \in Nat
  PROVE  NextBytes(p, k) \in Seq(PipeByte) /\ Len(NextBytes(p, k)) = k
<1>. DEFINE S == {i \in DOMAIN sent : sent[i][1] = p}
            before == Cardinality(S)
<1>1. S \in SUBSET Nat
  <2>1. Len(sent) \in Nat /\ DOMAIN sent = 1 .. Len(sent)
    BY DEF PipeTypes
  <2>. QED
    BY <2>1
<1>2. NextBytes(p, k) = [i \in 1 .. k |-> <<p, before + i>>]
  BY Zenon DEF NextBytes
<1>3. ASSUME NEW i \in 1 .. k PROVE <<p, before + i>> \in PipeByte
  <2>1. i \in Nat
    OBVIOUS
  <2>. QED
    <3>1. before + i \in {before + j : j \in Nat}
      BY <2>1, Zenon
    <3>2. {before + j : j \in Nat} \in {{Cardinality(T) + j : j \in Nat} : T \in SUBSET Nat}
      BY <1>1, Zenon
    <3>3. before + i \in PipeNumbers
      BY <3>1, <3>2, Zenon DEF PipeNumbers
    <3>. QED
      BY <3>3, Zenon DEF PipeByte
<1>. HIDE DEF before
<1>4. NextBytes(p, k) \in [1 .. k -> PipeByte]
  BY <1>2, <1>3, Zenon
<1>. QED
  BY <1>4

\* k bytes are written into the ring, for which there is room.
LEMMA RingTakes ==
  ASSUME PipeInv, NEW k \in Nat, k <= PIPESIZE - Used,
         NEW new \in Seq(PipeByte), Len(new) = k,
         data' = [c \in DOMAIN data |->
                    LET past == (c - nwrite) % PIPESIZE
                    IN  IF past < k THEN new[past + 1] ELSE data[c]],
         nwrite' = Wrap(nwrite + k), sent' = sent \o new, nread' = nread, got' = got
  PROVE  /\ RingHolds' /\ Used' = Used + k
         /\ sent' \in Seq(PipeByte)
         /\ data' \in [0 .. PIPESIZE - 1 -> PipeByte \cup {NoByte}]
<1>. DEFINE s == Len(sent)
            g == Len(got)
            P == PIPESIZE
<1>1. PipeTypes /\ RingHolds
  BY Zenon DEF PipeInv
<1>2. s \in Nat /\ g \in Nat /\ P \in Nat \ {0} /\ g <= s
  BY <1>1, PipeFactor DEF PipeTypes, RingHolds
<1>3. Used = s - g
  BY <1>1, UsedIs, Zenon
<1>4. /\ sent' \in Seq(PipeByte) /\ Len(sent') = s + k
      /\ \A i \in 1 .. s : sent'[i] = sent[i]
      /\ \A i \in 1 .. k : sent'[s + i] = new[i]
  <2>1. sent \in Seq(PipeByte)
    BY <1>1, Zenon DEF PipeTypes
  <2>. DEFINE ext == sent \o new
  <2>2. ext \in Seq(PipeByte) /\ Len(ext) = s + Len(new)
    BY <2>1, Joined, Zenon
  <2>3. \A i \in 1 .. s : ext[i] = sent[i]
    BY <2>1, Joined, Zenon
  <2>4. ASSUME NEW i \in 1 .. Len(new) PROVE ext[s + i] = new[i]
    BY <2>1, Joined
  <2>5. sent' = ext
    BY Zenon
  <2>. HIDE DEF ext
  <2>. QED
    BY <2>2, <2>3, <2>4, <2>5, Zenon
<1>5. s + k <= g + P
  BY <1>2, <1>3
<1>6. nwrite = Wrap(s) /\ nread = Wrap(g) /\ nwrite' = Wrap(s + k)
  <2>1. Wrap(Wrap(s) + k) = Wrap(s + k)
    BY <1>2, WrapPlus
  <2>. QED
    BY <1>1, <2>1, Zenon DEF RingHolds
\* A cell is written when it is the one of a new byte.
<1>7. ASSUME NEW c \in 0 .. P - 1
      PROVE  data'[c] = IF (c - s) % P < k THEN new[((c - s) % P) + 1] ELSE data[c]
  <2>1. DOMAIN data = 0 .. PIPESIZE - 1
    BY <1>1, Zenon DEF PipeTypes
  <2>2. (c - nwrite) % PIPESIZE = (c - s) % PIPESIZE
    <3>1. c \in Int
      BY <1>2
    <3>. QED
      BY <1>2, <1>6, <3>1, WrapCell, Zenon
  <2>3. data'[c] = IF (c - nwrite) % PIPESIZE < k THEN new[((c - nwrite) % PIPESIZE) + 1] ELSE data[c]
    BY <2>1, Zenon
  <2>. QED
    BY <2>2, <2>3, Zenon
<1>. HIDE DEF s, g, P
<1>8. \A n \in Int : (n - s) % P \in 0 .. P - 1 /\ n % P \in 0 .. P - 1
  BY <1>2, ModRange
<1>9. data' \in [0 .. P - 1 -> PipeByte \cup {NoByte}]
  <2>1. ASSUME NEW c \in 0 .. P - 1 PROVE data'[c] \in PipeByte \cup {NoByte}
    <3>. DEFINE past == (c - s) % P
    <3>1. past \in 0 .. P - 1
      <4>1. c \in Int
        BY <1>2
      <4>. QED
        BY <1>8, <4>1, Zenon
    <3>2. data[c] \in PipeByte \cup {NoByte}
      BY <1>1, Zenon DEF PipeTypes, P
    <3>3. data'[c] = IF past < k THEN new[past + 1] ELSE data[c]
      BY <1>7, Zenon
    <3>. HIDE DEF past
    <3>4. past < k => past + 1 \in 1 .. Len(new)
      BY <1>2, <3>1
    <3>5. past < k => new[past + 1] \in PipeByte
      BY <3>4
    <3>. QED
      BY <3>2, <3>3, <3>5, Zenon
  <2>2. data' = [c \in 0 .. P - 1 |-> data'[c]]
    <3>1. DOMAIN data = 0 .. P - 1
      BY <1>1, Zenon DEF PipeTypes, P
    <3>. QED
      BY <3>1, Zenon
  <2>. QED
    BY <2>1, <2>2, Zenon
\* Byte number i is in the cell i % P, be it an old one or a new one.
<1>10. ASSUME NEW i \in g .. (s + k) - 1 PROVE data'[i % P] = sent'[i + 1]
  <2>. DEFINE c == i % P
              past == (c - s) % P
  <2>1. i \in Int /\ c \in 0 .. P - 1 /\ -s \in Int
    <3>1. i \in Int /\ -s \in Int
      BY <1>2
    <3>. QED
      BY <1>8, <3>1, Zenon
  <2>2. past = (i - s) % P
    <3>1. ((i % P) + (-s)) % P = (i + (-s)) % P
      BY <1>2, <2>1, ModPlus, Zenon
    <3>. HIDE DEF c
    <3>2. c + (-s) = c - s /\ i + (-s) = i - s
      BY <1>2, <2>1, Zenon
    <3>. QED
      BY <3>1, <3>2, Zenon DEF c
  <2>3. data'[c] = IF past < k THEN new[past + 1] ELSE data[c]
    BY <1>7, <2>1, Zenon
  <2>. HIDE DEF c
  <2>4. CASE i >= s
    <3>1. i - s \in 0 .. P - 1 /\ i - s < k
      BY <1>2, <1>5, <2>4
    <3>2. (i - s) % P = i - s
      <4>1. i - s = P * 0 + (i - s) /\ i - s \in Int /\ 0 \in Int
        BY <1>2
      <4>. QED
        BY <1>2, <3>1, <4>1, ModUnique, Zenon
    <3>3. past = i - s
      BY <2>2, <3>2, Zenon
    <3>. HIDE DEF past
    <3>4. data'[c] = new[(i - s) + 1]
      BY <2>3, <3>1, <3>3, Zenon
    <3>5. sent'[i + 1] = new[(i - s) + 1]
      <4>1. (i - s) + 1 \in 1 .. k /\ s + ((i - s) + 1) = i + 1
        BY <1>2, <2>4, <3>1
      <4>. QED
        BY <1>4, <4>1, Zenon
    <3>. QED
      BY <3>4, <3>5, Zenon DEF c
  <2>5. CASE i < s
    <3>1. (i - s) + P \in 0 .. P - 1 /\ (i - s) + P >= k
      BY <1>2, <1>5, <2>5
    <3>2. i - s = P * (-1) + ((i - s) + P) /\ i - s \in Int /\ -1 \in Int
      BY <1>2
    <3>3. (i - s) % P = (i - s) + P
      BY <1>2, <3>1, <3>2, ModUnique, Zenon
    <3>4. past = (i - s) + P
      BY <2>2, <3>3, Zenon
    <3>. HIDE DEF past
    <3>5. data'[c] = data[c]
      BY <2>3, <3>1, <3>4
    <3>6. data[i % PIPESIZE] = sent[i + 1]
      <4>1. i \in g .. s - 1
        BY <1>2, <2>5
      <4>. QED
        BY <1>1, <4>1, Zenon DEF RingHolds, s, g
    <3>7. sent'[i + 1] = sent[i + 1]
      BY <1>2, <1>4, <2>5
    <3>. QED
      BY <3>5, <3>6, <3>7, Zenon DEF c, P
  <2>6. i >= s \/ i < s
    BY <1>2, <2>1
  <2>. QED
    BY <2>4, <2>5, <2>6, Zenon DEF c
<1>11. \A i \in 1 .. g : got[i] = sent'[i]
  BY <1>1, <1>2 DEF PipeTypes, RingHolds, s, g
<1>12. RingHolds'
  <2>1. Len(got') = g /\ Len(sent') = s + k /\ g <= s + k
    BY <1>2, <1>4 DEF g
  <2>. QED
    BY <1>5, <1>6, <1>10, <1>11, <2>1, Zenon DEF RingHolds, Wrap, P
<1>13. Used' = Used + k
  <2>1. (Wrap(s + k) - Wrap(g)) % PipeUInt = (s + k) - g
    <3>1. s + k \in Nat /\ g <= s + k
      BY <1>2
    <3>. QED
      BY <1>2, <1>5, <3>1, WrapApart, Zenon DEF P
  <2>2. Used' = (s + k) - g
    BY <1>6, <2>1, Zenon DEF Used, Wrap
  <2>. QED
    BY <1>2, <1>3, <2>2
<1>. QED
  BY <1>4, <1>9, <1>12, <1>13, Zenon DEF P

\* k bytes are read from the ring, which holds them.
LEMMA RingGives ==
  ASSUME PipeInv, NEW k \in Nat, k <= Used,
         got' = got \o [i \in 1 .. k |-> data[(nread + i - 1) % PIPESIZE]],
         nread' = Wrap(nread + k), UNCHANGED <<nwrite, data, sent>>
  PROVE  RingHolds' /\ Used' = Used - k /\ got' \in Seq(PipeByte)
         /\ (Used = 0 => got' = got) /\ (got = sent => Used = 0)
<1>. DEFINE s == Len(sent)
            g == Len(got)
            out == [i \in 1 .. k |-> data[(nread + i - 1) % PIPESIZE]]
            all == [i \in 1 .. Used |-> data[(nread + i - 1) % PIPESIZE]]
<1>1. PipeTypes /\ RingHolds /\ PipeIsFifo
  BY PipeInvIsFifo, Zenon DEF PipeInv
<1>2. s \in Nat /\ g \in Nat /\ PIPESIZE \in Nat \ {0} /\ g <= s /\ s <= g + PIPESIZE
  BY <1>1, PipeFactor DEF PipeTypes, RingHolds
<1>3. Used = s - g
  BY <1>1, UsedIs, Zenon
<1>4. got \o all = sent
  BY <1>1, Zenon DEF PipeIsFifo
<1>5. \A i \in 1 .. k : out[i] = all[i]
  BY <1>2, <1>3
<1>6. DOMAIN all = 1 .. (s - g) /\ DOMAIN out = 1 .. k
  BY <1>3, Zenon
<1>. HIDE DEF out, all, s, g
<1>7. \A i \in 1 .. k : out[i] = sent[g + i]
  <2>1. ASSUME NEW i \in 1 .. k PROVE (got \o all)[g + i] = all[i]
    <3>1. i \in 1 .. (s - g)
      BY <1>2, <1>3
    <3>2. all \in Seq({all[j] : j \in 1 .. (s - g)}) /\ Len(all) = s - g
      <4>1. all = [j \in 1 .. (s - g) |-> all[j]]
        BY <1>3, Zenon DEF all
      <4>2. s - g \in Nat
        BY <1>2
      <4>. QED
        <5>. DEFINE n == s - g
                    A == {all[h] : h \in 1 .. n}
        <5>1. \A j \in 1 .. n : all[j] \in A
          BY Zenon
        <5>2. n \in Nat /\ all = [j \in 1 .. n |-> all[j]]
          BY <4>1, <4>2, Zenon
        <5>. HIDE DEF n, A
        <5>3. all \in Seq(A) /\ Len(all) = n
          BY <5>1, <5>2, Listed, Zenon
        <5>. QED
          BY <5>3, Zenon DEF n, A
    <3>3. got \in Seq(PipeByte)
      BY <1>1, Zenon DEF PipeTypes
    <3>. QED
      BY <1>2, <3>1, <3>2, <3>3 DEF g
  <2>. QED
    BY <1>4, <1>5, <2>1, Zenon
<1>8. out \in Seq(PipeByte) /\ Len(out) = k
  <2>1. ASSUME NEW i \in 1 .. k PROVE out[i] \in PipeByte
    <3>1. g + i \in 1 .. s
      BY <1>2, <1>3
    <3>2. sent[g + i] \in PipeByte
      BY <1>1, <3>1 DEF PipeTypes, s
    <3>. QED
      BY <1>7, <3>2, Zenon
  <2>2. out = [i \in 1 .. k |-> out[i]]
    BY Zenon DEF out
  <2>3. out \in [1 .. k -> PipeByte]
    BY <2>1, <2>2, Zenon
  <2>. QED
    BY <2>3
<1>9. got' = got \o out
  BY Zenon DEF out
<1>10. /\ got' \in Seq(PipeByte) /\ Len(got') = g + k
       /\ \A i \in 1 .. g : got'[i] = got[i]
       /\ \A i \in 1 .. k : got'[g + i] = out[i]
  <2>1. got \in Seq(PipeByte)
    BY <1>1, Zenon DEF PipeTypes
  <2>. DEFINE ext == got \o out
  <2>2. ext \in Seq(PipeByte) /\ Len(ext) = g + Len(out)
    BY <1>8, <2>1, Joined, Zenon DEF g
  <2>3. \A i \in 1 .. g : ext[i] = got[i]
    BY <1>8, <2>1, Joined, Zenon DEF g
  <2>4. ASSUME NEW i \in 1 .. Len(out) PROVE ext[g + i] = out[i]
    BY <1>8, <2>1, Joined DEF g
  <2>5. got' = ext
    BY <1>9, Zenon
  <2>. HIDE DEF ext
  <2>. QED
    BY <1>8, <2>2, <2>3, <2>4, <2>5, Zenon
<1>11. \A i \in 1 .. (g + k) : got'[i] = sent[i]
  <2>. SUFFICES ASSUME NEW i \in 1 .. (g + k) PROVE got'[i] = sent[i]
    BY Zenon
  <2>1. CASE i <= g
    BY <1>1, <1>2, <1>10, <2>1 DEF RingHolds, g
  <2>2. CASE i > g
    <3>1. i - g \in 1 .. k /\ g + (i - g) = i
      BY <1>2, <2>2
    <3>. QED
      BY <1>7, <1>10, <3>1, Zenon
  <2>3. i <= g \/ i > g
    BY <1>2
  <2>. QED
    BY <2>1, <2>2, <2>3, Zenon
<1>12. nread' = Wrap(g + k) /\ nwrite = Wrap(s)
  <2>1. Wrap(Wrap(g) + k) = Wrap(g + k)
    BY <1>2, WrapPlus
  <2>. QED
    BY <1>1, <2>1, Zenon DEF RingHolds, g, s
<1>13. RingHolds'
  <2>1. g + k <= s /\ s <= (g + k) + PIPESIZE
    BY <1>2, <1>3
  <2>2. \A i \in g + k .. s - 1 : data[i % PIPESIZE] = sent[i + 1]
    <3>1. \A i \in g + k .. s - 1 : i \in g .. s - 1
      BY <1>2
    <3>. QED
      BY <1>1, <3>1, Zenon DEF RingHolds, s, g
  <2>3. Len(sent') = s /\ sent' = sent /\ data' = data /\ nwrite' = nwrite
    BY Zenon DEF s
  <2>. QED
    BY <1>10, <1>11, <1>12, <2>1, <2>2, <2>3, Zenon DEF RingHolds, Wrap
<1>14. Used' = Used - k
  <2>1. (Wrap(s) - Wrap(g + k)) % PipeUInt = s - (g + k)
    <3>1. g + k \in Nat /\ g + k <= s /\ s <= (g + k) + PIPESIZE
      BY <1>2, <1>3
    <3>. QED
      BY <1>2, <3>1, WrapApart, Zenon
  <2>2. Used' = s - (g + k)
    BY <1>12, <2>1, Zenon DEF Used, Wrap
  <2>. QED
    BY <1>2, <1>3, <2>2
<1>15. Used = 0 => got' = got
  <2>. SUFFICES ASSUME Used = 0 PROVE got' = got
    BY Zenon
  <2>1. Len(got') = g
    BY <1>2, <1>3, <1>10
  <2>2. \A i \in 1 .. g : got'[i] = got[i]
    BY <1>1, <1>2, <1>11 DEF RingHolds, g
  <2>. QED
    BY <1>1, <1>10, <2>1, <2>2 DEF PipeTypes, g
<1>16. got = sent => Used = 0
  BY <1>2, <1>3 DEF s, g
<1>. QED
  BY <1>10, <1>13, <1>14, <1>15, <1>16, Zenon

LEMMA PipewriteKeeps ==
  ASSUME PipeInv, NEW p \in PipeUsers, Pipewrite(p)
  PROVE  PipeInv'
<1>. DEFINE k == IF pleft[p] < PipeRoom THEN pleft[p] ELSE PipeRoom
            new == NextBytes(p, k)
            left == pleft[p] - k
<1>1. PipeTypes /\ RingHolds /\ CallsOfEnds /\ EndsClosed /\ EofIsTheEnd /\ PipeSleepersWait
  BY Zenon DEF PipeInv
<1>2. pcall[p] = "write" /\ pchan[p] = "awake" /\ p \in Writers /\ p \notin Readers
      /\ pleft[p] \in Nat \ {0} /\ pcall[p] # "closed"
  BY <1>1, PipeAssumption DEF Pipewrite, CallsOfEnds, PipeTypes
<1>3. Used \in 0 .. PIPESIZE /\ PIPESIZE \in Nat \ {0}
  BY <1>1, UsedIs, PipeFactor, Zenon
<1>4. k \in Nat /\ k <= PIPESIZE - Used /\ left \in Nat
      /\ (left > 0 => k = PIPESIZE - Used) /\ (left = 0 => k > 0)
  BY <1>2, <1>3 DEF PipeRoom
<1>5. new \in Seq(PipeByte) /\ Len(new) = k
  BY <1>1, <1>2, <1>4, NextBytesType, Zenon
<1>6. /\ data' = [c \in DOMAIN data |->
                    LET past == (c - nwrite) % PIPESIZE
                    IN  IF past < k THEN new[past + 1] ELSE data[c]]
      /\ nwrite' = Wrap(nwrite + k) /\ sent' = sent \o new
      /\ UNCHANGED <<nread, readopen, writeopen, freed, pkilled, got>>
      /\ \/ left = 0 /\ Return(p, presult[p]) /\ pchan' = WakePipe("nread")
         \/ left > 0 /\ (~readopen \/ pkilled[p]) /\ Return(p, -1) /\ UNCHANGED pchan
         \/ /\ left > 0 /\ readopen /\ ~pkilled[p]
            /\ pleft' = [pleft EXCEPT ![p] = left]
            /\ pchan' = SleepForRoom(p)
            /\ UNCHANGED <<pcall, presult>>
  BY Zenon DEF Pipewrite
<1>. HIDE DEF k, new, left
<1>7. /\ RingHolds' /\ Used' = Used + k /\ sent' \in Seq(PipeByte)
      /\ data' \in [0 .. PIPESIZE - 1 -> PipeByte \cup {NoByte}]
  <2>1. nread' = nread /\ got' = got
    BY <1>6, Zenon
  <2>. QED
    BY <1>4, <1>5, <1>6, <2>1, RingTakes, Zenon
\* The writer has its end open: nobody has been told the end of file.
<1>8. \A q \in Readers : presult[q] # 0
  BY <1>1, <1>2, Zenon DEF EofIsTheEnd
<1>. DEFINE Waits(q) ==
       /\ pchan'[q] = "nread" =>
            /\ writeopen' /\ ~pkilled'[q]
            /\ Used' = 0 \/ \E x \in Writers : pkilled'[x] /\ presult'[x] = -1
       /\ pchan'[q] = "nwrite" => Used' = PIPESIZE /\ readopen' /\ ~pkilled'[q]
<1>9. CASE left = 0 /\ Return(p, presult[p]) /\ pchan' = WakePipe("nread")
  <2>1. /\ pcall' = [pcall EXCEPT ![p] = "none"] /\ pleft' = [pleft EXCEPT ![p] = 0]
        /\ presult' = [presult EXCEPT ![p] = presult[p]]
    BY <1>9, Zenon DEF Return
  <2>2. presult' = presult
    BY <1>1, <2>1, Zenon DEF PipeTypes
  <2>3. /\ pchan' \in [PipeUsers -> {"awake", "nread", "nwrite"}]
        /\ \A q \in PipeUsers : pchan'[q] = "awake" \/ (pchan'[q] = pchan[q] /\ pchan[q] # "nread")
    BY <1>1, <1>9, Woken, Zenon
  <2>4. PipeTypes'
    BY <1>1, <1>6, <1>7, <2>1, <2>2, <2>3, Zenon DEF PipeTypes
  <2>5. CallsOfEnds'
    BY <1>1, <1>2, <2>1, <2>3, Zenon DEF PipeTypes, CallsOfEnds
  <2>6. EndsClosed'
    BY <1>2, <1>6, <2>1, EndsStay, Zenon
  <2>7. EofIsTheEnd'
    BY <1>8, <2>2, Zenon DEF EofIsTheEnd
  <2>8. ASSUME NEW q \in PipeUsers PROVE Waits(q)
    <3>1. Used # PIPESIZE
      BY <1>3, <1>4, <1>9
    <3>. QED
      BY <1>1, <2>3, <3>1, Zenon DEF PipeSleepersWait
  <2>9. PipeSleepersWait'
    BY <2>8, Zenon DEF PipeSleepersWait
  <2>. QED
    BY <1>7, <2>4, <2>5, <2>6, <2>7, <2>9, Zenon DEF PipeInv
<1>10. CASE left > 0 /\ (~readopen \/ pkilled[p]) /\ Return(p, -1) /\ UNCHANGED pchan
  <2>1. /\ pcall' = [pcall EXCEPT ![p] = "none"] /\ pleft' = [pleft EXCEPT ![p] = 0]
        /\ presult' = [presult EXCEPT ![p] = -1] /\ pchan' = pchan
    BY <1>10, Zenon DEF Return
  <2>2. presult'[p] = -1 /\ \A q \in PipeUsers : q # p => presult'[q] = presult[q]
    BY <1>1, <2>1, Zenon DEF PipeTypes
  <2>3. PipeTypes'
    BY <1>1, <1>6, <1>7, <2>1 DEF PipeTypes
  <2>4. CallsOfEnds'
    BY <1>1, <1>2, <2>1, Zenon DEF PipeTypes, CallsOfEnds
  <2>5. EndsClosed'
    BY <1>2, <1>6, <2>1, EndsStay, Zenon
  <2>6. EofIsTheEnd'
    BY <1>2, <1>8, <2>2, Zenon DEF EofIsTheEnd, PipeUsers
  <2>7. Used' = PIPESIZE
    BY <1>3, <1>4, <1>7, <1>10
  <2>8. ASSUME NEW q \in PipeUsers PROVE Waits(q)
    <3>1. readopen \/ pchan[q] # "nread"
      BY <1>1, Zenon DEF EndsClosed, CallsOfEnds
    <3>2. pkilled'[p] \/ ~readopen
      BY <1>6, <1>10, Zenon
    <3>3. pchan'[q] = "nread" => writeopen' /\ ~pkilled'[q]
      BY <1>1, <1>6, <2>1, Zenon DEF PipeSleepersWait
    <3>4. pchan'[q] = "nread" => pkilled'[p] /\ presult'[p] = -1
      BY <2>1, <2>2, <3>1, <3>2, Zenon
    <3>5. pchan'[q] = "nwrite" => readopen' /\ ~pkilled'[q]
      BY <1>1, <1>6, <2>1, Zenon DEF PipeSleepersWait
    <3>. QED
      BY <1>2, <2>7, <3>3, <3>4, <3>5, Zenon
  <2>9. PipeSleepersWait'
    BY <2>8, Zenon DEF PipeSleepersWait
  <2>. QED
    BY <1>7, <2>3, <2>4, <2>5, <2>6, <2>9, Zenon DEF PipeInv
<1>11. CASE /\ left > 0 /\ readopen /\ ~pkilled[p]
            /\ pleft' = [pleft EXCEPT ![p] = left]
            /\ pchan' = SleepForRoom(p)
            /\ UNCHANGED <<pcall, presult>>
  <2>1. /\ WakePipe("nread") \in [PipeUsers -> {"awake", "nread", "nwrite"}]
        /\ \A q \in PipeUsers : WakePipe("nread")[q] = "awake"
                \/ (WakePipe("nread")[q] = pchan[q] /\ pchan[q] # "nread")
    BY <1>1, Woken, Zenon
  <2>2. pchan' = [WakePipe("nread") EXCEPT ![p] = "nwrite"]
    BY <1>11, Zenon DEF SleepForRoom
  <2>3. /\ pchan' \in [PipeUsers -> {"awake", "nread", "nwrite"}] /\ pchan'[p] = "nwrite"
        /\ \A q \in PipeUsers \ {p} : pchan'[q] = "awake" \/ (pchan'[q] = pchan[q] /\ pchan[q] # "nread")
    <3>. DEFINE woken == WakePipe("nread")
    <3>. HIDE DEF woken
    <3>1. /\ woken \in [PipeUsers -> {"awake", "nread", "nwrite"}]
          /\ \A q \in PipeUsers : woken[q] = "awake" \/ (woken[q] = pchan[q] /\ pchan[q] # "nread")
          /\ pchan' = [woken EXCEPT ![p] = "nwrite"]
      BY <2>1, <2>2, Zenon DEF woken
    <3>. QED
      BY <3>1, Zenon
  <2>4. PipeTypes'
    BY <1>1, <1>4, <1>6, <1>7, <1>11, <2>3, Zenon DEF PipeTypes
  <2>5. CallsOfEnds'
    <3>1. \A q \in PipeUsers : q # p => pleft'[q] = pleft[q]
      BY <1>1, <1>11, Zenon DEF PipeTypes
    <3>2. pleft'[p] > 0
      BY <1>1, <1>11, Zenon DEF PipeTypes
    <3>. QED
      BY <1>1, <1>2, <1>11, <2>3, <3>1, <3>2, Zenon DEF CallsOfEnds
  <2>6. EndsClosed'
    BY <1>1, <1>6, <1>11, Zenon DEF EndsClosed, EndOf
  <2>7. EofIsTheEnd'
    BY <1>8, <1>11, Zenon DEF EofIsTheEnd
  <2>8. Used' = PIPESIZE
    BY <1>3, <1>4, <1>7, <1>11
  <2>9. ASSUME NEW q \in PipeUsers PROVE Waits(q)
    <3>1. pchan'[q] # "nread"
      BY <2>3, Zenon
    <3>2. pchan'[q] = "nwrite" => ~pkilled[q]
      BY <1>1, <1>11, <2>3, Zenon DEF PipeSleepersWait
    <3>. QED
      BY <1>6, <1>11, <2>8, <3>1, <3>2, Zenon
  <2>10. PipeSleepersWait'
    BY <2>9, Zenon DEF PipeSleepersWait
  <2>. QED
    BY <1>7, <2>4, <2>5, <2>6, <2>7, <2>10, Zenon DEF PipeInv
<1>. QED
  BY <1>6, <1>9, <1>10, <1>11, Zenon

LEMMA PipereadKeeps ==
  ASSUME PipeInv, NEW p \in PipeUsers, Piperead(p)
  PROVE  PipeInv'
<1>. DEFINE k == IF pleft[p] < Used THEN pleft[p] ELSE Used
<1>1. PipeTypes /\ RingHolds /\ CallsOfEnds /\ EndsClosed /\ EofIsTheEnd /\ PipeSleepersWait
  BY Zenon DEF PipeInv
<1>2. pcall[p] = "read" /\ pchan[p] = "awake" /\ p \in Readers /\ p \notin Writers
      /\ pleft[p] \in Nat \ {0} /\ (nread # nwrite \/ ~writeopen)
  BY <1>1, PipeAssumption DEF Piperead, ReadWaits, CallsOfEnds, PipeTypes
<1>3. Used \in 0 .. PIPESIZE /\ PIPESIZE \in Nat \ {0} /\ (nread = nwrite <=> Used = 0)
  BY <1>1, UsedIs, PipeFactor, Zenon
<1>4. k \in Nat /\ k <= Used /\ (k = 0 => Used = 0)
  BY <1>2, <1>3
<1>5. /\ got' = got \o [i \in 1 .. k |-> data[(nread + i - 1) % PIPESIZE]]
      /\ nread' = Wrap(nread + k) /\ pchan' = WakePipe("nwrite")
      /\ pcall' = [pcall EXCEPT ![p] = "none"] /\ pleft' = [pleft EXCEPT ![p] = 0]
      /\ presult' = [presult EXCEPT ![p] = k]
      /\ UNCHANGED <<nwrite, data, readopen, writeopen, freed, pkilled, sent>>
  BY Zenon DEF Piperead, Return
<1>. HIDE DEF k
<1>6. RingHolds' /\ Used' = Used - k /\ got' \in Seq(PipeByte)
      /\ (Used = 0 => got' = got) /\ (got = sent => Used = 0)
  <2>1. UNCHANGED <<nwrite, data, sent>>
    BY <1>5, Zenon
  <2>. QED
    BY <1>4, <1>5, <2>1, RingGives, Zenon
<1>7. /\ pchan' \in [PipeUsers -> {"awake", "nread", "nwrite"}]
      /\ \A q \in PipeUsers : pchan'[q] = "awake" \/ (pchan'[q] = pchan[q] /\ pchan[q] # "nwrite")
  BY <1>1, <1>5, Woken, Zenon
<1>8. presult'[p] = k /\ \A q \in PipeUsers : q # p => presult'[q] = presult[q]
  BY <1>1, <1>5, Zenon DEF PipeTypes
<1>9. PipeTypes'
  BY <1>1, <1>4, <1>5, <1>6, <1>7 DEF PipeTypes
<1>10. CallsOfEnds'
  BY <1>1, <1>2, <1>5, <1>7, Zenon DEF PipeTypes, CallsOfEnds
<1>11. EndsClosed' /\ \A q \in PipeUsers : pcall[q] = "closed" => pcall'[q] = "closed"
  BY <1>2, <1>5, EndsStay, Zenon
\* The pipe was empty and its write end closed, which is why the call did not wait.
<1>12. EofIsTheEnd'
  <2>. SUFFICES ASSUME NEW q \in Readers, presult'[q] = 0
                PROVE  got' = sent' /\ \A x \in Writers : pcall'[x] = "closed"
    BY Zenon DEF EofIsTheEnd
  <2>1. CASE q = p
    <3>1. Used = 0 /\ ~writeopen
      BY <1>2, <1>3, <1>4, <1>8, <2>1, Zenon
    <3>2. got' = got /\ sent' = sent
      BY <1>5, <1>6, <3>1, Zenon
    <3>3. got = sent
      <4>1. Len(got) = Len(sent)
        BY <1>1, <3>1, UsedIs DEF PipeTypes
      <4>2. /\ got \in Seq(PipeByte) /\ sent \in Seq(PipeByte)
            /\ \A i \in 1 .. Len(got) : got[i] = sent[i]
        BY <1>1, Zenon DEF PipeTypes, RingHolds
      <4>. QED
        BY <4>1, <4>2
    <3>. QED
      BY <1>1, <1>11, <3>1, <3>2, <3>3, Zenon DEF EndsClosed, PipeUsers
  <2>2. CASE q # p
    <3>1. got = sent /\ \A x \in Writers : pcall[x] = "closed"
      BY <1>1, <1>8, <2>2, Zenon DEF EofIsTheEnd, PipeUsers
    <3>. QED
      BY <1>5, <1>6, <1>11, <3>1, Zenon DEF PipeUsers
  <2>. QED
    BY <2>1, <2>2, Zenon
<1>13. ASSUME NEW q \in PipeUsers
       PROVE  /\ pchan'[q] = "nread" =>
                   /\ writeopen' /\ ~pkilled'[q]
                   /\ Used' = 0 \/ \E x \in Writers : pkilled'[x] /\ presult'[x] = -1
              /\ pchan'[q] = "nwrite" => Used' = PIPESIZE /\ readopen' /\ ~pkilled'[q]
  <2>1. Used = 0 => Used' = 0
    BY <1>3, <1>4, <1>6
  <2>2. \A x \in Writers : presult'[x] = presult[x]
    BY <1>2, <1>8, Zenon DEF PipeUsers
  <2>. QED
    BY <1>1, <1>5, <1>7, <2>1, <2>2, Zenon DEF PipeSleepersWait
<1>14. PipeSleepersWait'
  BY <1>13, Zenon DEF PipeSleepersWait
<1>. QED
  BY <1>6, <1>9, <1>10, <1>11, <1>12, <1>14, Zenon DEF PipeInv

-----------------------------------------------------------------------------

LEMMA PipeNextInv == PipeInv /\ [PipeNext]_PipeVars => PipeInv'
<1>. SUFFICES ASSUME PipeInv, [PipeNext]_PipeVars PROVE PipeInv'
  BY Zenon
<1>1. CASE UNCHANGED PipeVars
  <2>1. UNCHANGED <<nread, nwrite, data, readopen, writeopen, freed, pcall, pleft,
                    pchan, pkilled, presult, sent, got>>
    BY <1>1, Zenon DEF PipeVars, struct
  <2>2. RingHolds' /\ Used' = Used
    BY <2>1, RingStays, Zenon
  <2>. QED
    BY <2>1, <2>2, Zenon DEF PipeInv, PipeTypes, CallsOfEnds, EndsClosed, EofIsTheEnd, PipeSleepersWait
<1>2. CASE PipeOver
  BY <1>1, <1>2, Zenon DEF PipeOver
<1>3. ASSUME NEW p \in PipeUsers, PipeGoesOn(p) PROVE PipeInv'
  BY <1>3, PipewriteKeeps, PipereadSleepKeeps, PipereadKeeps, CloseFileKeeps, PipecloseKeeps, Zenon
     DEF PipeGoesOn
<1>4. ASSUME NEW p \in PipeUsers, PipeKill(p) PROVE PipeInv'
  BY <1>4, PipeKillKeeps, Zenon
<1>5. ASSUME NEW p \in PipeUsers, NEW n \in CallSizes, PipeBegin(p, n) PROVE PipeInv'
  BY <1>5, PipeBeginKeeps, Zenon
<1>. QED
  BY <1>1, <1>2, <1>3, <1>4, <1>5, Zenon DEF PipeNext

\* The counters of struct pipe are the numbers of bytes written and read modulo
\* the range of a uint, the ring holds the bytes in between, and an end is closed
\* in the struct only when all its processes have closed it (pipewrite, piperead,
\* pipeclose and fileclose).
THEOREM PipeInvariant == PipeSpec => []PipeInv
<1>. QED
  BY PipeInitInv, PipeNextInv, PTL DEF PipeSpec

\* Pipe!PipeIsFifo: for any number of writers and readers, any PIPESIZE that
\* divides the range of a uint and calls of any size, what is read from a pipe is
\* what was written, in order, also after the counters wrapped around; the end of
\* file comes after the last byte, and the page is freed when all have closed
\* (pipewrite, piperead, pipeclose).
THEOREM PipeFifo == PipeSpec => []PipeIsFifo
<1>. QED
  BY PipeInvariant, PipeInvIsFifo, PTL

\* Pipe!PipeSleepersWait: who sleeps in pipewrite or piperead has to, but for the
\* reader of bytes that a killed writer left (wakeup in pipewrite, piperead and
\* pipeclose; kill).
THEOREM PipeNoLostWakeup == PipeSpec => []PipeSleepersWait
<1>1. PipeInv => PipeSleepersWait
  BY Zenon DEF PipeInv
<1>. QED
  BY <1>1, PipeInvariant, PTL

-----------------------------------------------------------------------------
(* The input of the console. *)

ConsChar == {"zero", "char", "nl", "eof"}
IbufType == [0 .. INPUT_BUF - 1 -> ConsChar]

LEMMA ConsFactor ==
  /\ INPUT_BUF \in Nat \ {0} /\ ConsUInt \in Nat \ {0} /\ INPUT_BUF < ConsUInt
  /\ \E f \in Int : ConsUInt = INPUT_BUF * f
<1>1. INPUT_BUF \in Nat \ {0} /\ ConsUInt \in Nat /\ INPUT_BUF < ConsUInt /\ ConsUInt % INPUT_BUF = 0
  BY ConsoleAssumption
<1>2. ConsUInt \in Int
  BY <1>1
<1>3. PICK f \in Int : ConsUInt = INPUT_BUF * f + (ConsUInt % INPUT_BUF)
  BY <1>1, <1>2, Quotient
<1>4. ConsUInt = INPUT_BUF * f + 0
  BY <1>1, <1>3, Zenon
<1>5. INPUT_BUF * f \in Int
  BY <1>1
<1>6. ConsUInt = INPUT_BUF * f
  BY <1>4, <1>5
<1>7. ConsUInt \in Nat \ {0}
  BY <1>1
<1>. QED
  BY <1>1, <1>6, <1>7, Zenon

\* The character n places after input.r.
Char(n) == ibuf[(r + n) % INPUT_BUF]

\* The index n places after i.
LEMMA DistanceIs ==
  ASSUME NEW i \in 0 .. ConsUInt - 1, NEW n \in Nat, n < ConsUInt
  PROVE  Distance(i, (i + n) % ConsUInt) = n /\ (i + n) % ConsUInt \in 0 .. ConsUInt - 1
<1>. DEFINE u == ConsUInt
            x == i + n
<1>1. u \in Nat \ {0}
  BY ConsFactor
<1>2. x \in Int /\ -i \in Int /\ x + (-i) = n /\ n \in Int
  BY <1>1
<1>3. ((x % u) + (-i)) % u = (x + (-i)) % u
  <2>. HIDE DEF x, u
  <2>. QED
    BY <1>1, <1>2, ModPlus, Zenon
<1>4. x % u \in 0 .. u - 1
  <2>. HIDE DEF x, u
  <2>. QED
    BY <1>1, <1>2, ModRange
<1>5. (x % u) + (-i) = (x % u) - i
  <2>. DEFINE y == x % u
  <2>. HIDE DEF y
  <2>1. y \in 0 .. u - 1
    BY <1>4 DEF y
  <2>2. y + (-i) = y - i
    BY <1>1, <2>1
  <2>. QED
    BY <2>2 DEF y
<1>6. n % u = n
  <2>1. n = u * 0 + n /\ 0 \in Int /\ n \in 0 .. u - 1
    BY <1>1
  <2>. QED
    BY <1>1, <1>2, <2>1, ModUnique
<1>7. Distance(i, x % u) = ((x % u) - i) % u
  BY DEF Distance
<1>. QED
  BY <1>2, <1>3, <1>4, <1>5, <1>6, <1>7, Zenon

\* Every index is some places after any other.
LEMMA DistanceTo ==
  ASSUME NEW i \in 0 .. ConsUInt - 1, NEW j \in 0 .. ConsUInt - 1
  PROVE  /\ Distance(i, j) \in Nat /\ Distance(i, j) < ConsUInt
         /\ j = (i + Distance(i, j)) % ConsUInt
         /\ Distance(i, j) = 0 <=> i = j
<1>. DEFINE u == ConsUInt
            n == IF i <= j THEN j - i ELSE (j - i) + u
<1>1. u \in Nat \ {0}
  BY ConsFactor
<1>2. n \in Nat /\ n < u /\ i + n \in Int /\ n \in 0 .. u - 1
  BY <1>1
<1>3. (i + n) % u = j
  <2>1. CASE i <= j
    <3>1. i + n = u * 0 + j /\ 0 \in Int
      BY <1>1, <2>1
    <3>. QED
      BY <1>1, <1>2, <3>1, ModUnique
  <2>2. CASE ~(i <= j)
    <3>1. i + n = u * 1 + j /\ 1 \in Int
      BY <1>1, <2>2
    <3>. QED
      BY <1>1, <1>2, <3>1, ModUnique
  <2>. QED
    BY <2>1, <2>2
<1>4. n = 0 <=> i = j
  BY <1>1
<1>. HIDE DEF n
<1>5. Distance(i, (i + n) % ConsUInt) = n
  BY <1>2, DistanceIs
<1>6. Distance(i, j) = n
  BY <1>3, <1>5, Zenon
<1>. QED
  BY <1>2, <1>3, <1>4, <1>6, Zenon

\* m characters, n places after the index i.
LEMMA BetweenIs ==
  ibuf \in IbufType =>
    \A i \in 0 .. ConsUInt - 1, n, m \in Nat :
      n + m < ConsUInt =>
        LET B == Between((i + n) % ConsUInt, (i + (n + m)) % ConsUInt)
        IN  /\ B \in Seq(ConsChar) /\ Len(B) = m
            /\ \A k \in 1 .. m : B[k] = ibuf[(i + (n + (k - 1))) % INPUT_BUF]
<1>. SUFFICES ASSUME ibuf \in IbufType, NEW i \in 0 .. ConsUInt - 1, NEW n \in Nat, NEW m \in Nat,
                     n + m < ConsUInt
              PROVE  LET B == Between((i + n) % ConsUInt, (i + (n + m)) % ConsUInt)
                     IN  /\ B \in Seq(ConsChar) /\ Len(B) = m
                         /\ \A k \in 1 .. m : B[k] = ibuf[(i + (n + (k - 1))) % INPUT_BUF]
  OBVIOUS
<1>. DEFINE u == ConsUInt
            a == (i + n) % u
            b == (i + (n + m)) % u
            B == Between(a, b)
<1>1. u \in Nat \ {0} /\ INPUT_BUF \in Nat \ {0} /\ n < u /\ m < u /\ i \in Int
  BY ConsFactor
<1>2. a \in 0 .. u - 1
  BY <1>1, DistanceIs
<1>3. b = (a + m) % u
  <2>1. i + n \in Int /\ (i + n) + m = i + (n + m) /\ m \in Int
    BY <1>1
  <2>2. (((i + n) % u) + m) % u = ((i + n) + m) % u
    <3>. HIDE DEF u
    <3>. QED
      BY <1>1, <2>1, ModPlus, Zenon
  <2>. QED
    BY <2>1, <2>2, Zenon
<1>4. Distance(a, b) = m
  <2>. HIDE DEF a, b
  <2>1. Distance(a, (a + m) % ConsUInt) = m
    BY <1>1, <1>2, DistanceIs DEF u
  <2>. QED
    BY <1>3, <2>1, Zenon DEF u
<1>5. ASSUME NEW k \in 1 .. m
      PROVE  /\ ((a + k - 1) % u) % INPUT_BUF = (i + (n + (k - 1))) % INPUT_BUF
             /\ (i + (n + (k - 1))) % INPUT_BUF \in 0 .. INPUT_BUF - 1
  <2>. DEFINE x == i + (n + (k - 1))
  <2>1. k - 1 \in Int /\ (i + n) + (k - 1) = x /\ i + n \in Int /\ x \in Int
    BY <1>1
  <2>2. (((i + n) % u) + (k - 1)) % u = ((i + n) + (k - 1)) % u
    <3>. HIDE DEF u
    <3>. QED
      BY <1>1, <2>1, ModPlus, Zenon
  <2>3. a + k - 1 = a + (k - 1)
    <3>. HIDE DEF a
    <3>. QED
      BY <1>1, <1>2
  <2>4. (a + k - 1) % u = x % u
    BY <2>1, <2>2, <2>3, Zenon
  <2>5. PICK f \in Int : u = INPUT_BUF * f
    BY ConsFactor
  <2>. HIDE DEF x, u, a
  <2>6. (x % u) % INPUT_BUF = x % INPUT_BUF
    BY <1>1, <2>1, <2>5, ModTwice, Zenon
  <2>7. x % INPUT_BUF \in 0 .. INPUT_BUF - 1
    BY <1>1, <2>1, ModRange
  <2>. QED
    BY <2>4, <2>6, <2>7, Zenon DEF x
<1>6. B = [k \in 1 .. m |-> ibuf[((a + k - 1) % u) % INPUT_BUF]]
  BY <1>4, Zenon DEF Between
<1>. HIDE DEF a, b, u
<1>7. \A k \in 1 .. m : B[k] = ibuf[(i + (n + (k - 1))) % INPUT_BUF]
  BY <1>5, <1>6, Zenon
<1>8. \A k \in 1 .. m : ibuf[((a + k - 1) % u) % INPUT_BUF] \in ConsChar
  BY <1>5, Zenon DEF IbufType
<1>9. B \in [1 .. m -> ConsChar]
  BY <1>6, <1>8, Zenon
<1>. HIDE DEF B
<1>10. B \in Seq(ConsChar) /\ Len(B) = m
  BY <1>9
<1>. QED
  BY <1>7, <1>10, Zenon DEF B, a, b, u

\* x characters are finished and y are being edited.  The ring is not full of
\* characters that are still being edited, and none of these ends a line.
Shape(x, y) ==
  /\ ibuf \in IbufType /\ r \in 0 .. ConsUInt - 1
  /\ w = (r + x) % ConsUInt /\ e = (r + (x + y)) % ConsUInt
  /\ x + y <= INPUT_BUF /\ (x + y = INPUT_BUF => y = 0)
  /\ \A k \in 1 .. y : Char(x + (k - 1)) \notin {"nl", "eof"}

\* How far a call has come: what it has copied is what it no longer asks for.
ReaderOK(p) ==
  /\ cleft[p] <= ctarget[p]
  /\ cleft[p] > 0 => Len(cdst[p]) = ctarget[p] - cleft[p]

ReaderTypes ==
  /\ cleft \in [ConsReaders -> Nat] /\ ctarget \in [ConsReaders -> Nat]
  /\ cdst \in [ConsReaders -> Seq(ConsChar)]
  /\ casleep \in [ConsReaders -> BOOLEAN] /\ ckilled \in [ConsReaders -> BOOLEAN]

ConsInv ==
  /\ \E x, y \in Nat : Shape(x, y)
  /\ ReaderTypes /\ (\A p \in ConsReaders : ReaderOK(p)) /\ ConsSleepersWait

\* What the indices say about the ring.
RingSays(x, y) ==
  /\ Distance(r, w) = x /\ Distance(w, e) = y /\ Distance(r, e) = x + y
  /\ w \in 0 .. ConsUInt - 1 /\ e \in 0 .. ConsUInt - 1
  /\ Between(r, w) \in Seq(ConsChar) /\ Len(Between(r, w)) = x
  /\ \A k \in 1 .. x : Between(r, w)[k] = Char(k - 1)
  /\ Between(w, e) \in Seq(ConsChar) /\ Len(Between(w, e)) = y
  /\ \A k \in 1 .. y : Between(w, e)[k] = Char(x + (k - 1))

LEMMA ShapeFacts == \A x, y \in Nat : Shape(x, y) => RingSays(x, y)
<1>. SUFFICES ASSUME NEW x \in Nat, NEW y \in Nat, Shape(x, y)
              PROVE  RingSays(x, y)
  BY Zenon
<1>. DEFINE u == ConsUInt
<1>1. /\ ibuf \in IbufType /\ r \in 0 .. u - 1 /\ w = (r + x) % u /\ e = (r + (x + y)) % u
      /\ x + y < u /\ x < u /\ y < u /\ u \in Nat \ {0} /\ r \in Int /\ x + y \in Nat
  BY ConsFactor DEF Shape
<1>2. Distance(r, w) = x /\ w \in 0 .. u - 1
  BY <1>1, DistanceIs, Zenon
<1>3. Distance(r, e) = x + y /\ e \in 0 .. u - 1
  BY <1>1, DistanceIs, Zenon
<1>4. e = (w + y) % u
  <2>1. r + x \in Int /\ (r + x) + y = r + (x + y) /\ y \in Int
    BY <1>1
  <2>2. (((r + x) % u) + y) % u = ((r + x) + y) % u
    <3>. HIDE DEF u
    <3>. QED
      BY <1>1, <2>1, ModPlus, Zenon
  <2>. QED
    BY <1>1, <2>1, <2>2, Zenon
<1>5. Distance(w, e) = y
  BY <1>1, <1>2, <1>4, DistanceIs, Zenon
<1>6. r = (r + 0) % u
  <2>1. r + 0 = u * 0 + r /\ 0 \in Int /\ r + 0 \in Int
    BY <1>1
  <2>. QED
    BY <1>1, <2>1, ModUnique, Zenon
<1>7. 0 + x = x /\ 0 \in Nat /\ 0 + x < u
  BY <1>1
<1>8. /\ Between(r, w) \in Seq(ConsChar) /\ Len(Between(r, w)) = x
      /\ \A k \in 1 .. x : Between(r, w)[k] = ibuf[(r + (0 + (k - 1))) % INPUT_BUF]
  <2>. DEFINE B == Between((r + 0) % ConsUInt, (r + (0 + x)) % ConsUInt)
  <2>1. /\ B \in Seq(ConsChar) /\ Len(B) = x
        /\ \A k \in 1 .. x : B[k] = ibuf[(r + (0 + (k - 1))) % INPUT_BUF]
    BY <1>1, <1>7, BetweenIs, Zenon
  <2>2. B = Between(r, w)
    BY <1>1, <1>6, <1>7, Zenon
  <2>. HIDE DEF B
  <2>. QED
    BY <2>1, <2>2, Zenon
<1>9. \A k \in 1 .. x : 0 + (k - 1) = k - 1
  OBVIOUS
<1>10. /\ Between(w, e) \in Seq(ConsChar) /\ Len(Between(w, e)) = y
       /\ \A k \in 1 .. y : Between(w, e)[k] = ibuf[(r + (x + (k - 1))) % INPUT_BUF]
  <2>. DEFINE B == Between((r + x) % ConsUInt, (r + (x + y)) % ConsUInt)
  <2>1. /\ B \in Seq(ConsChar) /\ Len(B) = y
        /\ \A k \in 1 .. y : B[k] = ibuf[(r + (x + (k - 1))) % INPUT_BUF]
    BY <1>1, BetweenIs, Zenon
  <2>2. B = Between(w, e)
    BY <1>1, Zenon
  <2>. HIDE DEF B
  <2>. QED
    BY <2>1, <2>2, Zenon
<1>11. \A k \in 1 .. x : Between(r, w)[k] = ibuf[(r + (k - 1)) % INPUT_BUF]
  BY <1>8, <1>9, Zenon
<1>. QED
  BY <1>2, <1>3, <1>5, <1>8, <1>10, <1>11, Zenon DEF u, RingSays, Char

LEMMA ShapeFactsNext == (\A x, y \in Nat : Shape(x, y) => RingSays(x, y))'
<1>. QED
  BY ShapeFacts, PTL

\* Going n places and then m more.
LEMMA Further ==
  ASSUME NEW i \in 0 .. ConsUInt - 1, NEW n \in Int, NEW m \in Int
  PROVE  /\ (((i + n) % ConsUInt) + m) % ConsUInt = (i + (n + m)) % ConsUInt
         /\ (((i + n) % ConsUInt) + m) % INPUT_BUF = (i + (n + m)) % INPUT_BUF
         /\ ((i + n) % ConsUInt) % INPUT_BUF = (i + n) % INPUT_BUF
         /\ (i + n) % ConsUInt \in 0 .. ConsUInt - 1
<1>1. i + n \in Int /\ (i + n) + m = i + (n + m)
  BY ConsFactor
<1>2. PICK f \in Int : ConsUInt = INPUT_BUF * f
  BY ConsFactor, Zenon
<1>. DEFINE x == i + n
<1>3. /\ ((x % ConsUInt) + m) % ConsUInt = (x + m) % ConsUInt
      /\ ((x % ConsUInt) + m) % INPUT_BUF = (x + m) % INPUT_BUF
      /\ (x % ConsUInt) % INPUT_BUF = x % INPUT_BUF
      /\ x % ConsUInt \in 0 .. ConsUInt - 1
  <2>1. x \in Int
    BY <1>1, Zenon
  <2>. HIDE DEF x
  <2>2. ((x % ConsUInt) + m) % ConsUInt = (x + m) % ConsUInt
    BY <2>1, ConsFactor, ModPlus, Zenon
  <2>3. ((x % ConsUInt) + m) % INPUT_BUF = (x + m) % INPUT_BUF
    <3>1. INPUT_BUF \in Nat \ {0} /\ ConsUInt \in Nat \ {0}
      BY ConsFactor, Zenon
    <3>. QED
      BY <1>2, <2>1, <3>1, ModWrap, ZenonT(60)
  <2>4. (x % ConsUInt) % INPUT_BUF = x % INPUT_BUF
    BY <1>2, <2>1, ConsFactor, ModTwice, Zenon
  <2>5. x % ConsUInt \in 0 .. ConsUInt - 1
    BY <2>1, ConsFactor, ModRange, Zenon
  <2>. QED
    BY <2>2, <2>3, <2>4, <2>5, Zenon
<1>. QED
  BY <1>1, <1>3, Zenon

\* Initially the ring is empty.
LEMMA ConsInitInv == ConsInit => ConsInv /\ Lines!Init
<1>. SUFFICES ASSUME ConsInit PROVE ConsInv /\ Lines!Init
  BY Zenon
<1>1. Shape(0, 0)
  <2>1. 0 \in 0 .. ConsUInt - 1 /\ 0 + 0 = 0 /\ 0 <= INPUT_BUF
    BY ConsFactor
  <2>2. 0 % ConsUInt = 0
    <3>1. 0 = ConsUInt * 0 + 0 /\ 0 \in Int
      BY ConsFactor
    <3>. QED
      BY <2>1, <3>1, ConsFactor, ModUnique, Zenon
  <2>3. ibuf \in IbufType
    BY Zenon DEF ConsInit, IbufType, ConsChar
  <2>4. \A k \in 1 .. 0 : FALSE
    OBVIOUS
  <2>. QED
    BY <2>1, <2>2, <2>3, <2>4, Zenon DEF ConsInit, Shape
<1>2. ReaderTypes
  <2>1. <<>> \in Seq(ConsChar) /\ 0 \in Nat
    OBVIOUS
  <2>. QED
    BY <2>1, Zenon DEF ConsInit, ReaderTypes
<1>3. ASSUME NEW p \in ConsReaders PROVE ReaderOK(p)
  <2>1. cleft[p] = 0 /\ ctarget[p] = 0
    BY Zenon DEF ConsInit
  <2>. QED
    BY <2>1 DEF ReaderOK
<1>4. ConsInv
  BY <1>1, <1>2, <1>3, Zenon DEF ConsInv, ConsSleepersWait, ConsInit
<1>5. Between(r, w) = <<>> /\ Between(w, e) = <<>>
  <2>1. /\ Between(r, w) \in Seq(ConsChar) /\ Len(Between(r, w)) = 0
        /\ Between(w, e) \in Seq(ConsChar) /\ Len(Between(w, e)) = 0
    <3>1. RingSays(0, 0)
      BY <1>1, ShapeFacts
    <3>. QED
      BY <3>1, Zenon DEF RingSays
  <2>. QED
    BY <2>1
<1>. QED
  BY <1>4, <1>5, Zenon DEF ConsInit, Lines!Init

\* A step that leaves the indices and the characters alone.
LEMMA RingUntouched ==
  ASSUME UNCHANGED input, NEW x, NEW y, Shape(x, y)
  PROVE  /\ Shape(x, y)' /\ Between(r, w)' = Between(r, w) /\ Between(w, e)' = Between(w, e)
<1>1. ibuf' = ibuf /\ r' = r /\ w' = w /\ e' = e
  BY Zenon DEF input
<1>. QED
  BY <1>1, Zenon DEF Shape, Char, Between, Distance

\* A new call of consoleread.
LEMMA ConsBeginStep ==
  ASSUME ConsInv, NEW p \in ConsReaders, NEW n \in ReadSizes, ConsBegin(p, n)
  PROVE  ConsInv' /\ Lines!Begin(p)
<1>1. PICK x, y \in Nat : Shape(x, y)
  BY Zenon DEF ConsInv
<1>2. UNCHANGED input /\ UNCHANGED <<casleep, ckilled>>
  BY Zenon DEF ConsBegin
<1>3. n \in Nat /\ <<>> \in Seq(ConsChar) /\ Len(<<>>) = 0 /\ n - n = 0 /\ n <= n
  BY ConsoleAssumption
<1>4. /\ cleft' = [cleft EXCEPT ![p] = n] /\ ctarget' = [ctarget EXCEPT ![p] = n]
      /\ cdst' = [cdst EXCEPT ![p] = <<>>]
  BY Zenon DEF ConsBegin
<1>5. ReaderTypes'
  BY <1>2, <1>3, <1>4, Zenon DEF ConsInv, ReaderTypes
<1>6. ASSUME NEW q \in ConsReaders PROVE ReaderOK(q)'
  BY <1>3, <1>4, Zenon DEF ConsInv, ReaderTypes, ReaderOK
<1>7. ConsSleepersWait'
  BY <1>2, Zenon DEF ConsInv, ConsSleepersWait, input
<1>. QED
  BY <1>1, <1>2, <1>4, <1>5, <1>6, <1>7, RingUntouched, Zenon DEF ConsInv, Lines!Begin

\* A reader that goes to sleep, or whose call ends because it was killed.
LEMMA ConsWaitStep ==
  ASSUME ConsInv, NEW p \in ConsReaders, ConsWait(p)
  PROVE  ConsInv' /\ UNCHANGED Lines!vars
<1>1. PICK x, y \in Nat : Shape(x, y)
  BY Zenon DEF ConsInv
<1>2. UNCHANGED input /\ UNCHANGED <<cdst, ckilled>> /\ r = w
  BY Zenon DEF ConsWait
<1>3. CASE ckilled[p]
  <2>1. /\ cleft' = [cleft EXCEPT ![p] = 0] /\ ctarget' = [ctarget EXCEPT ![p] = 0]
        /\ casleep' = casleep
    BY <1>3, Zenon DEF ConsWait
  <2>2. 0 <= 0 /\ ~(0 > 0) /\ 0 \in Nat
    OBVIOUS
  <2>3. ReaderTypes' /\ \A q \in ConsReaders : ReaderOK(q)'
    BY <1>2, <2>1, <2>2, Zenon DEF ConsInv, ReaderTypes, ReaderOK
  <2>4. ConsSleepersWait'
    BY <1>2, <2>1, Zenon DEF ConsInv, ConsSleepersWait, input
  <2>. QED
    BY <1>1, <1>2, <2>3, <2>4, RingUntouched, Zenon DEF ConsInv, Lines!vars
<1>4. CASE ~ckilled[p]
  <2>1. casleep' = [casleep EXCEPT ![p] = TRUE] /\ cleft' = cleft /\ ctarget' = ctarget
    BY <1>4, Zenon DEF ConsWait
  <2>2. ReaderTypes' /\ \A q \in ConsReaders : ReaderOK(q)'
    BY <1>2, <2>1, Zenon DEF ConsInv, ReaderTypes, ReaderOK
  <2>3. ConsSleepersWait'
    BY <1>2, <1>4, <2>1, Zenon DEF ConsInv, ReaderTypes, ConsSleepersWait, input
  <2>. QED
    BY <1>1, <1>2, <2>2, <2>3, RingUntouched, Zenon DEF ConsInv, Lines!vars
<1>. QED
  BY <1>3, <1>4, Zenon

\* kill.
LEMMA ConsKillStep ==
  ASSUME ConsInv, NEW p \in ConsReaders, ConsKill(p)
  PROVE  ConsInv' /\ UNCHANGED Lines!vars
<1>1. PICK x, y \in Nat : Shape(x, y)
  BY Zenon DEF ConsInv
<1>2. /\ UNCHANGED input /\ UNCHANGED <<cleft, ctarget, cdst>>
      /\ ckilled' = [ckilled EXCEPT ![p] = TRUE] /\ casleep' = [casleep EXCEPT ![p] = FALSE]
  BY Zenon DEF ConsKill
<1>3. ReaderTypes' /\ \A q \in ConsReaders : ReaderOK(q)'
  BY <1>2, Zenon DEF ConsInv, ReaderTypes, ReaderOK
<1>4. ConsSleepersWait'
  BY <1>2, Zenon DEF ConsInv, ReaderTypes, ConsSleepersWait, input
<1>. QED
  BY <1>1, <1>2, <1>3, <1>4, RingUntouched, Zenon DEF ConsInv, Lines!vars

\* A step that changes nothing.
LEMMA ConsNothing ==
  ASSUME ConsInv, UNCHANGED ConsVars
  PROVE  ConsInv' /\ UNCHANGED Lines!vars
<1>1. PICK x, y \in Nat : Shape(x, y)
  BY Zenon DEF ConsInv
<1>2. UNCHANGED input /\ UNCHANGED <<cleft, ctarget, cdst, casleep, ckilled>>
  BY Zenon DEF ConsVars
<1>3. ReaderTypes' /\ (\A q \in ConsReaders : ReaderOK(q)') /\ ConsSleepersWait'
  BY <1>2, Zenon DEF ConsInv, ReaderTypes, ReaderOK, ConsSleepersWait, input
<1>. QED
  BY <1>1, <1>2, <1>3, RingUntouched, Zenon DEF ConsInv, Lines!vars

\* What the readers have is not touched by typing.
LEMMA ReadersUntouched ==
  ASSUME ConsInv, UNCHANGED <<cleft, ctarget, cdst, ckilled>>,
         casleep' \in [ConsReaders -> BOOLEAN]
  PROVE  ReaderTypes' /\ \A q \in ConsReaders : ReaderOK(q)'
<1>. QED
  BY Zenon DEF ConsInv, ReaderTypes, ReaderOK

\* The facts an action on the ring starts from.
LEMMA RingStarts ==
  ASSUME NEW x \in Nat, NEW y \in Nat, Shape(x, y)
  PROVE  /\ ibuf \in IbufType /\ r \in 0 .. ConsUInt - 1 /\ RingSays(x, y)
         /\ w = (r + x) % ConsUInt /\ e = (r + (x + y)) % ConsUInt
         /\ x + y <= INPUT_BUF /\ (x + y = INPUT_BUF => y = 0)
         /\ \A k \in 1 .. y : Char(x + (k - 1)) \notin {"nl", "eof"}
<1>. QED
  BY ShapeFacts, Zenon DEF Shape

\* The line is shortened to its first m characters.
LEMMA Shortens ==
  ASSUME ConsInv, NEW x \in Nat, NEW y \in Nat, Shape(x, y), NEW m \in Nat, m < y,
         e' = (r + (x + m)) % ConsUInt,
         UNCHANGED <<ibuf, r, w, cleft, ctarget, cdst, casleep, ckilled>>
  PROVE  /\ ConsInv' /\ Between(w, e) # <<>> /\ Len(Between(w, e)) = y
         /\ Between(w, e)' = SubSeq(Between(w, e), 1, m)
         /\ Between(r, w)' = Between(r, w) /\ cdst' = cdst
<1>1. /\ x + m < INPUT_BUF /\ x + m # INPUT_BUF /\ x + m <= INPUT_BUF /\ m <= y
      /\ \A k \in 1 .. m : k \in 1 .. y
  BY RingStarts, ConsFactor
<1>2. \A n : Char(n)' = Char(n)
  BY Zenon DEF Char
<1>3. Shape(x, m)'
  BY <1>1, <1>2, Zenon DEF Shape
<1>4. RingSays(x, y) /\ RingSays(x, m)'
  BY <1>3, ShapeFacts, ShapeFactsNext, Zenon
<1>. DEFINE L == Between(w, e)
            M == Between(w, e)'
<1>5. /\ L \in Seq(ConsChar) /\ Len(L) = y /\ M \in Seq(ConsChar) /\ Len(M) = m
      /\ \A k \in 1 .. m : M[k] = L[k]
  BY <1>1, <1>2, <1>4, Zenon DEF RingSays
<1>. HIDE DEF L, M
<1>6. M = SubSeq(L, 1, m) /\ L # <<>>
  <2>1. /\ SubSeq(L, 1, m) \in Seq(ConsChar) /\ Len(SubSeq(L, 1, m)) = m
        /\ \A k \in 1 .. m : SubSeq(L, 1, m)[k] = L[k]
    BY <1>1, <1>5
  <2>2. M = SubSeq(L, 1, m)
    BY <1>5, <2>1, SameLists, Zenon
  <2>3. L # <<>>
    BY <1>5
  <2>. QED
    BY <2>2, <2>3, Zenon
<1>7. Between(r, w)' = Between(r, w)
  BY Zenon DEF Between, Distance
<1>8. ReaderTypes' /\ \A q \in ConsReaders : ReaderOK(q)'
  BY ReadersUntouched, Zenon DEF ConsInv, ReaderTypes
<1>9. ConsSleepersWait'
  BY Zenon DEF ConsInv, ConsSleepersWait
<1>. QED
  BY <1>3, <1>5, <1>6, <1>7, <1>8, <1>9, Zenon DEF ConsInv, L, M

\* Control-U.  The line holds no newline, so that all of it goes.
LEMMA KillLineStep ==
  ASSUME ConsInv, KillLine
  PROVE  ConsInv' /\ Lines!Erase
<1>1. PICK x, y \in Nat : Shape(x, y)
  BY Zenon DEF ConsInv
<1>2. RingSays(x, y) /\ r \in 0 .. ConsUInt - 1 /\ w = (r + x) % ConsUInt
  BY <1>1, RingStarts, Zenon
<1>3. PICK k \in 0 .. y : (k > 0 => Between(w, e)[k] = "nl") /\ e' = (w + k) % ConsUInt
  BY <1>2, Zenon DEF KillLine, RingSays
<1>4. k = 0
  <2>1. SUFFICES ASSUME k \in 1 .. y PROVE FALSE
    BY <1>3
  <2>2. Between(w, e)[k] = Char(x + (k - 1)) /\ k > 0
    <3>1. k > 0
      BY <2>1
    <3>. QED
      BY <1>2, <2>1, <3>1, Zenon DEF RingSays
  <2>3. Char(x + (k - 1)) # "nl"
    BY <1>1, <2>1, Zenon DEF Shape
  <2>. QED
    BY <1>3, <2>2, <2>3, Zenon
<1>5. e' = (r + (x + 0)) % ConsUInt
  <2>1. x \in Int /\ 0 \in Int
    OBVIOUS
  <2>2. (((r + x) % ConsUInt) + 0) % ConsUInt = (r + (x + 0)) % ConsUInt
    BY <1>2, <2>1, Further, Zenon
  <2>. QED
    BY <1>2, <1>3, <1>4, <2>2, Zenon
<1>6. 0 < y /\ 0 \in Nat
  <2>1. y # 0
    BY <1>2, DistanceTo, Zenon DEF RingSays, KillLine
  <2>. QED
    BY <2>1
<1>7. UNCHANGED <<ibuf, r, w, cleft, ctarget, cdst, casleep, ckilled>>
  BY Zenon DEF KillLine
<1>8. /\ ConsInv' /\ Between(w, e) # <<>> /\ Between(w, e)' = SubSeq(Between(w, e), 1, 0)
      /\ Between(r, w)' = Between(r, w) /\ cdst' = cdst
  BY <1>1, <1>5, <1>6, <1>7, Shortens, Zenon
<1>9. SubSeq(Between(w, e), 1, 0) = <<>>
  BY <1>2 DEF RingSays
<1>. QED
  BY <1>8, <1>9, Zenon DEF Lines!Erase

\* Backspace.
LEMMA BackspaceStep ==
  ASSUME ConsInv, Backspace
  PROVE  ConsInv' /\ Lines!Erase
<1>1. PICK x, y \in Nat : Shape(x, y)
  BY Zenon DEF ConsInv
<1>2. /\ RingSays(x, y) /\ r \in 0 .. ConsUInt - 1 /\ w = (r + x) % ConsUInt
      /\ e = (r + (x + y)) % ConsUInt
  BY <1>1, RingStarts, Zenon
<1>3. y - 1 \in Nat /\ y - 1 < y /\ (x + y) + (-1) = x + (y - 1) /\ x + y \in Int /\ -1 \in Int
  <2>0. e # w
    BY Zenon DEF Backspace, Erasable
  <2>1. y # 0
    <3>1. w \in 0 .. ConsUInt - 1 /\ e \in 0 .. ConsUInt - 1 /\ Distance(w, e) = y
      BY <1>2, Zenon DEF RingSays
    <3>. QED
      BY <2>0, <3>1, DistanceTo, Zenon
  <2>. QED
    BY <2>1
<1>4. e' = (r + (x + (y - 1))) % ConsUInt
  <2>1. e - 1 = e + (-1)
    BY <1>2, ConsFactor DEF RingSays
  <2>2. e' = (((r + (x + y)) % ConsUInt) + (-1)) % ConsUInt
    BY <1>2, <2>1, Zenon DEF Backspace
  <2>. QED
    <3>. DEFINE n == x + y
                m == -1
    <3>1. n \in Int /\ m \in Int
      BY <1>3, Zenon
    <3>. HIDE DEF n, m
    <3>2. (((r + n) % ConsUInt) + m) % ConsUInt = (r + (n + m)) % ConsUInt
      BY <1>2, <3>1, Further, Zenon
    <3>. QED
      BY <1>3, <2>2, <3>2, Zenon DEF n, m
<1>5. UNCHANGED <<ibuf, r, w, cleft, ctarget, cdst, casleep, ckilled>>
  BY Zenon DEF Backspace
<1>6. /\ ConsInv' /\ Between(w, e) # <<>> /\ Between(w, e)' = SubSeq(Between(w, e), 1, y - 1)
      /\ Between(r, w)' = Between(r, w) /\ cdst' = cdst /\ Len(Between(w, e)) = y
  BY <1>1, <1>3, <1>4, <1>5, Shortens, Zenon
<1>. QED
  BY <1>6, Zenon DEF Lines!Erase

\* One more character behind the line.
LEMMA Grows ==
  ASSUME ConsInv, NEW x \in Nat, NEW y \in Nat, Shape(x, y), x + y < INPUT_BUF,
         NEW c \in {"char", "nl", "eof"},
         ibuf' = [ibuf EXCEPT ![e % INPUT_BUF] = c], e' = (e + 1) % ConsUInt, r' = r
  PROVE  /\ ibuf' \in IbufType /\ e' = (r + ((x + y) + 1)) % ConsUInt
         /\ Char(x + y)' = c /\ \A n \in 0 .. (x + y) - 1 : Char(n)' = Char(n)
<1>. DEFINE B == INPUT_BUF
            z == x + y
<1>1. /\ ibuf \in IbufType /\ r \in 0 .. ConsUInt - 1 /\ e = (r + z) % ConsUInt
      /\ z \in 0 .. B - 1 /\ B \in Nat \ {0} /\ z \in Int /\ 1 \in Int /\ r \in Int /\ r + z \in Int
  BY RingStarts, ConsFactor
<1>. HIDE DEF z
<1>2. e % B = (r + z) % B /\ e' = (r + (z + 1)) % ConsUInt
  BY <1>1, Further, Zenon
<1>3. (r + z) % B \in 0 .. B - 1
  <2>. HIDE DEF B
  <2>. QED
    BY <1>1, ModRange, Zenon
<1>4. ibuf' \in IbufType
  BY <1>1, Zenon DEF IbufType, ConsChar
<1>5. Char(z)' = c
  BY <1>1, <1>2, <1>3, Zenon DEF Char, IbufType
<1>6. ASSUME NEW n \in 0 .. z - 1 PROVE Char(n)' = Char(n)
  <2>1. n \in 0 .. B - 1 /\ n # z /\ r + n \in Int
    BY <1>1
  <2>2. (r + n) % B # (r + z) % B
    <3>. HIDE DEF B
    <3>. QED
      BY <1>1, <2>1, ModApart, Zenon
  <2>3. (r + n) % B \in 0 .. B - 1
    <3>. HIDE DEF B
    <3>. QED
      BY <1>1, <2>1, ModRange, Zenon
  <2>. QED
    BY <1>1, <1>2, <2>2, <2>3, Zenon DEF Char, IbufType
<1>. QED
  BY <1>2, <1>4, <1>5, <1>6, Zenon DEF z

\* A character that does not end the line.
LEMMA TypedInLine ==
  ASSUME ConsInv, NEW x \in Nat, NEW y \in Nat, Shape(x, y), x + y < INPUT_BUF,
         NEW c \in {"char", "nl", "eof"}, ~Finishes(c),
         ibuf' = [ibuf EXCEPT ![e % INPUT_BUF] = c], e' = (e + 1) % ConsUInt,
         UNCHANGED <<r, w, cleft, ctarget, cdst, casleep, ckilled>>
  PROVE  ConsInv' /\ Lines!Type(c)
<1>1. /\ RingSays(x, y) /\ r \in 0 .. ConsUInt - 1 /\ w = (r + x) % ConsUInt
      /\ \A k \in 1 .. y : Char(x + (k - 1)) \notin {"nl", "eof"}
  BY RingStarts, Zenon
<1>2. /\ ibuf' \in IbufType /\ e' = (r + ((x + y) + 1)) % ConsUInt
      /\ Char(x + y)' = c /\ \A n \in 0 .. (x + y) - 1 : Char(n)' = Char(n)
  BY Grows, Zenon
<1>3. c \notin {"nl", "eof"} /\ x + y + 1 # INPUT_BUF
  BY <1>1, Zenon DEF Finishes, RingSays
<1>4. /\ y + 1 \in Nat /\ (x + y) + 1 = x + (y + 1) /\ x + (y + 1) <= INPUT_BUF
      /\ x + (y + 1) # INPUT_BUF /\ x + ((y + 1) - 1) = x + y
      /\ \A k \in 1 .. y + 1 : (k \in 1 .. y /\ x + (k - 1) \in 0 .. (x + y) - 1) \/ k = y + 1
      /\ \A k \in 1 .. y : k \in 1 .. y + 1 /\ x + (k - 1) \in 0 .. (x + y) - 1
      /\ \A k \in 1 .. x : k - 1 \in 0 .. (x + y) - 1
      /\ y + 1 \in 1 .. y + 1
  BY <1>3, ConsFactor
<1>5. Shape(x, y + 1)'
  <2>1. ASSUME NEW k \in 1 .. y + 1 PROVE Char(x + (k - 1))' \notin {"nl", "eof"}
    BY <1>1, <1>2, <1>3, <1>4, Zenon
  <2>. QED
    BY <1>1, <1>2, <1>4, <2>1, Zenon DEF Shape
<1>6. RingSays(x, y + 1)'
  BY <1>4, <1>5, ShapeFactsNext, Zenon
<1>. DEFINE P == Between(r, w)
            L == Between(w, e)
            M == Between(w, e)'
<1>7. Between(r, w)' = P
  <2>1. /\ P \in Seq(ConsChar) /\ Between(r, w)' \in Seq(ConsChar)
        /\ Len(P) = x /\ Len(Between(r, w)') = x
        /\ \A k \in 1 .. x : Between(r, w)'[k] = P[k]
    BY <1>1, <1>2, <1>4, <1>6, Zenon DEF RingSays
  <2>. QED
    BY <2>1, SameLists, Zenon
<1>8. M = Append(L, c)
  <2>1. /\ L \in Seq(ConsChar) /\ M \in Seq(ConsChar) /\ Len(L) = y /\ Len(M) = y + 1
        /\ \A k \in 1 .. y : M[k] = L[k]
        /\ M[y + 1] = c
    BY <1>1, <1>2, <1>4, <1>6, Zenon DEF RingSays
  <2>. HIDE DEF L, M
  <2>2. /\ Append(L, c) \in Seq(ConsChar) /\ Len(Append(L, c)) = y + 1
        /\ \A k \in 1 .. y : Append(L, c)[k] = L[k]
        /\ Append(L, c)[y + 1] = c
    BY <2>1 DEF ConsChar
  <2>3. \A k \in 1 .. y + 1 : M[k] = Append(L, c)[k]
    BY <1>4, <2>1, <2>2, Zenon
  <2>. QED
    BY <2>1, <2>2, <2>3, SameLists, Zenon
<1>9. ReaderTypes' /\ (\A q \in ConsReaders : ReaderOK(q)') /\ ConsSleepersWait'
  BY ReadersUntouched, Zenon DEF ConsInv, ReaderTypes, ConsSleepersWait
<1>10. ConsInv'
  BY <1>4, <1>5, <1>9, Zenon DEF ConsInv
<1>11. Len(P) = x /\ Len(L) = y
  BY <1>1, Zenon DEF RingSays
<1>. QED
  BY <1>3, <1>7, <1>8, <1>10, <1>11, Zenon DEF Lines!Type, Lines!Room

\* A character that ends the line: what was edited is finished.
LEMMA TypedEnds ==
  ASSUME ConsInv, NEW x \in Nat, NEW y \in Nat, Shape(x, y), x + y < INPUT_BUF,
         NEW c \in {"char", "nl", "eof"}, Finishes(c),
         ibuf' = [ibuf EXCEPT ![e % INPUT_BUF] = c], e' = (e + 1) % ConsUInt,
         w' = e', casleep' = WokenReaders, UNCHANGED <<r, cleft, ctarget, cdst, ckilled>>
  PROVE  ConsInv' /\ Lines!Type(c)
<1>1. /\ RingSays(x, y) /\ r \in 0 .. ConsUInt - 1
  BY RingStarts, Zenon
<1>2. /\ ibuf' \in IbufType /\ e' = (r + ((x + y) + 1)) % ConsUInt
      /\ Char(x + y)' = c /\ \A n \in 0 .. (x + y) - 1 : Char(n)' = Char(n)
  BY Grows, Zenon
<1>3. c \in {"nl", "eof"} \/ x + y + 1 = INPUT_BUF
  BY <1>1, Zenon DEF Finishes, RingSays
<1>. DEFINE z == (x + y) + 1
<1>4. /\ z \in Nat /\ z + 0 = z /\ 0 \in Nat /\ z <= INPUT_BUF /\ (\A k \in 1 .. 0 : FALSE)
      /\ z - 1 = x + y /\ z \in 1 .. z
  BY ConsFactor
<1>5. Shape(z, 0)'
  BY <1>1, <1>2, <1>4, Zenon DEF Shape
<1>6. RingSays(z, 0)'
  BY <1>4, <1>5, ShapeFactsNext, Zenon
<1>. DEFINE P == Between(r, w)
            L == Between(w, e)
            Q == Between(r, w)'
            T == P \o Append(L, c)
<1>7. /\ P \in Seq(ConsChar) /\ Len(P) = x /\ L \in Seq(ConsChar) /\ Len(L) = y
      /\ Q \in Seq(ConsChar) /\ Len(Q) = z
      /\ (\A k \in 1 .. x : P[k] = Char(k - 1)) /\ (\A k \in 1 .. y : L[k] = Char(x + (k - 1)))
      /\ (\A k \in 1 .. z : Q[k] = Char(k - 1)')
  BY <1>1, <1>6, Zenon DEF RingSays
<1>8. Q = T
  <2>. HIDE DEF P, L, Q
  <2>0. /\ Append(L, c) \in Seq(ConsChar) /\ Len(Append(L, c)) = y + 1
        /\ (\A k \in 1 .. y : Append(L, c)[k] = L[k]) /\ Append(L, c)[y + 1] = c
    BY <1>7 DEF ConsChar
  <2>1. /\ T \in Seq(ConsChar) /\ Len(T) = z /\ T[z] = c
        /\ (\A k \in 1 .. x : T[k] = P[k]) /\ (\A k \in 1 .. y : T[x + k] = L[k])
    <3>. DEFINE A == Append(L, c)
    <3>. HIDE DEF A
    <3>1. A \in Seq(ConsChar) /\ Len(A) = y + 1 /\ A[y + 1] = c /\ \A k \in 1 .. y : A[k] = L[k]
      BY <2>0, Zenon DEF A
    <3>2. /\ P \o A \in Seq(ConsChar) /\ Len(P \o A) = Len(P) + Len(A)
          /\ \A k \in 1 .. Len(P) : (P \o A)[k] = P[k]
          /\ \A k \in 1 .. Len(A) : (P \o A)[Len(P) + k] = A[k]
      <4>1. P \in Seq(ConsChar) /\ A \in Seq(ConsChar)
        BY <3>1, <1>7, Zenon
      <4>. QED
        BY <4>1, Joined
    <3>3. /\ Len(P \o A) = x + (y + 1) /\ (\A k \in 1 .. x : (P \o A)[k] = P[k])
          /\ \A k \in 1 .. y + 1 : (P \o A)[x + k] = A[k]
      <4>1. Len(P) = x /\ Len(A) = y + 1
        BY <3>1, <1>7, Zenon
      <4>. QED
        BY <3>2, <4>1, Zenon
    <3>4. x + (y + 1) = z /\ y + 1 \in 1 .. y + 1 /\ \A k \in 1 .. y : k \in 1 .. y + 1
      OBVIOUS
    <3>. QED
      BY <3>1, <3>2, <3>3, <3>4, Zenon DEF A
  <2>2. ASSUME NEW k \in 1 .. z PROVE Q[k] = T[k]
    <3>1. CASE k \in 1 .. x /\ k - 1 \in 0 .. (x + y) - 1
      BY <3>1, <1>2, <1>7, <2>1, Zenon
    <3>2. CASE k - x \in 1 .. y /\ x + ((k - x) - 1) = k - 1 /\ k - 1 \in 0 .. (x + y) - 1
      <4>1. x + (k - x) = k
        BY <1>4
      <4>2. T[k] = L[k - x]
        BY <2>1, <3>2, <4>1, Zenon
      <4>. QED
        BY <3>2, <4>2, <1>2, <1>7, Zenon
    <3>3. CASE k = z
      <4>1. Q[z] = Char(x + y)'
        BY <1>4, <1>7, Zenon
      <4>. QED
        BY <3>3, <4>1, <1>2, <2>1, Zenon
    <3>4. \/ k \in 1 .. x /\ k - 1 \in 0 .. (x + y) - 1
          \/ k - x \in 1 .. y /\ x + ((k - x) - 1) = k - 1 /\ k - 1 \in 0 .. (x + y) - 1
          \/ k = z
      OBVIOUS
    <3>. QED
      BY <3>1, <3>2, <3>3, <3>4, Zenon
  <2>. QED
    BY <1>7, <2>1, <2>2, SameLists, Zenon
<1>9. Between(w, e)' = <<>>
  <2>1. Between(w, e)' \in Seq(ConsChar) /\ Len(Between(w, e)') = 0
    BY <1>6, Zenon DEF RingSays
  <2>. QED
    BY <2>1
<1>10. casleep' \in [ConsReaders -> BOOLEAN] /\ ConsSleepersWait'
  BY Zenon DEF WokenReaders, ConsSleepersWait
<1>11. ConsInv'
  BY <1>4, <1>5, <1>10, ReadersUntouched, Zenon DEF ConsInv
<1>. QED
  BY <1>3, <1>7, <1>8, <1>9, <1>11, Zenon DEF Lines!Type, Lines!Room

\* Any other character.
LEMMA TypedStep ==
  ASSUME ConsInv, NEW k \in {"char", "nl", "cr", "eof"}, Typed(k)
  PROVE  ConsInv' /\ \E c \in {"char", "nl", "eof"} : Lines!Type(c)
<1>. DEFINE c == IF k = "cr" THEN "nl" ELSE k
<1>0. c \in {"char", "nl", "eof"}
  BY Zenon
<1>1. PICK x, y \in Nat : Shape(x, y)
  BY Zenon DEF ConsInv
<1>2. x + y < INPUT_BUF
  BY <1>1, ShapeFacts, Zenon DEF Typed, Room, RingSays
<1>3. /\ ibuf' = [ibuf EXCEPT ![e % INPUT_BUF] = c] /\ e' = (e + 1) % ConsUInt
      /\ UNCHANGED <<r, cleft, ctarget, cdst, ckilled>>
      /\ Finishes(c) => w' = e' /\ casleep' = WokenReaders
      /\ ~Finishes(c) => w' = w /\ casleep' = casleep
  BY Zenon DEF Typed
<1>. HIDE DEF c
<1>4. ConsInv' /\ Lines!Type(c)
  <2>1. CASE Finishes(c)
    BY <1>0, <1>1, <1>2, <1>3, <2>1, TypedEnds, Zenon
  <2>2. CASE ~Finishes(c)
    BY <1>0, <1>1, <1>2, <1>3, <2>2, TypedInLine, Zenon
  <2>. QED
    BY <2>1, <2>2, Zenon
<1>. QED
  BY <1>0, <1>4, Zenon

\* m of the finished characters are gone.
LEMMA Drains ==
  ASSUME ConsInv, NEW x \in Nat, NEW y \in Nat, Shape(x, y), NEW m \in 0 .. x,
         r' = (r + m) % ConsUInt, UNCHANGED <<ibuf, w, e>>
  PROVE  /\ Shape(x - m, y)' /\ x - m \in Nat /\ Between(w, e)' = Between(w, e)
         /\ Between(r, w)' = SubSeq(Between(r, w), m + 1, Len(Between(r, w)))
<1>1. /\ ibuf \in IbufType /\ r \in 0 .. ConsUInt - 1 /\ RingSays(x, y)
      /\ w = (r + x) % ConsUInt /\ e = (r + (x + y)) % ConsUInt
      /\ x + y <= INPUT_BUF /\ (x + y = INPUT_BUF => y = 0)
      /\ \A k \in 1 .. y : Char(x + (k - 1)) \notin {"nl", "eof"}
  BY RingStarts, Zenon
<1>2. /\ x - m \in Nat /\ m \in Int /\ x - m \in Int /\ (x - m) + y \in Int
      /\ m + (x - m) = x /\ m + ((x - m) + y) = x + y
      /\ (x - m) + y <= INPUT_BUF /\ ((x - m) + y = INPUT_BUF => y = 0)
  BY <1>1, ConsFactor
<1>3. r' \in 0 .. ConsUInt - 1 /\ w' = (r' + (x - m)) % ConsUInt /\ e' = (r' + ((x - m) + y)) % ConsUInt
  <2>1. (((r + m) % ConsUInt) + (x - m)) % ConsUInt = (r + (m + (x - m))) % ConsUInt
    BY <1>1, <1>2, Further, Zenon
  <2>2. (((r + m) % ConsUInt) + ((x - m) + y)) % ConsUInt = (r + (m + ((x - m) + y))) % ConsUInt
    BY <1>1, <1>2, Further, Zenon
  <2>3. (r + m) % ConsUInt \in 0 .. ConsUInt - 1
    BY <1>1, <1>2, Further, Zenon
  <2>. QED
    BY <1>1, <1>2, <2>1, <2>2, <2>3, Zenon
<1>4. ASSUME NEW n \in Int PROVE Char(n)' = Char(m + n)
  <2>1. (((r + m) % ConsUInt) + n) % INPUT_BUF = (r + (m + n)) % INPUT_BUF
    BY <1>1, <1>2, Further, ZenonT(40)
  <2>. QED
    BY <2>1, Zenon DEF Char
<1>5. Shape(x - m, y)'
  <2>1. ASSUME NEW k \in 1 .. y PROVE Char((x - m) + (k - 1))' \notin {"nl", "eof"}
    <3>1. (x - m) + (k - 1) \in Int /\ m + ((x - m) + (k - 1)) = x + (k - 1)
      OBVIOUS
    <3>2. Char((x - m) + (k - 1))' = Char(x + (k - 1))
      BY <1>4, <3>1, Zenon
    <3>. QED
      BY <1>1, <3>2, Zenon
  <2>. QED
    BY <1>1, <1>2, <1>3, <2>1, Zenon DEF Shape
<1>6. RingSays(x - m, y)'
  BY <1>2, <1>5, ShapeFactsNext, Zenon
<1>7. Between(w, e)' = Between(w, e)
  BY Zenon DEF Between, Distance
<1>. DEFINE P == Between(r, w)
            Q == Between(r, w)'
<1>8. /\ P \in Seq(ConsChar) /\ Len(P) = x /\ Q \in Seq(ConsChar) /\ Len(Q) = x - m
      /\ (\A k \in 1 .. x : P[k] = Char(k - 1)) /\ (\A k \in 1 .. x - m : Q[k] = Char(k - 1)')
  BY <1>1, <1>6, Zenon DEF RingSays
<1>. HIDE DEF P, Q
<1>9. Q = SubSeq(P, m + 1, Len(P))
  <2>1. /\ SubSeq(P, m + 1, x) \in Seq(ConsChar) /\ Len(SubSeq(P, m + 1, x)) = x - m
        /\ \A k \in 1 .. x - m : SubSeq(P, m + 1, x)[k] = P[m + k]
    BY <1>8, Parts, Zenon
  <2>2. ASSUME NEW k \in 1 .. x - m PROVE Q[k] = P[m + k]
    <3>1. m + k \in 1 .. x /\ k - 1 \in Int /\ (m + k) - 1 = m + (k - 1)
      OBVIOUS
    <3>2. Q[k] = Char(m + (k - 1))
      BY <1>4, <1>8, <3>1, Zenon
    <3>3. P[m + k] = Char((m + k) - 1)
      BY <1>8, <3>1, Zenon
    <3>. QED
      BY <3>1, <3>2, <3>3, Zenon
  <2>3. \A k \in 1 .. x - m : Q[k] = SubSeq(P, m + 1, x)[k]
    BY <2>1, <2>2, Zenon
  <2>. QED
    BY <1>8, <2>1, <2>3, SameLists, Zenon
<1>. QED
  BY <1>2, <1>5, <1>7, <1>9, Zenon DEF P, Q

\* consoleread up to the end of the call or to the next sleep.
LEMMA ConsTakeStep ==
  ASSUME ConsInv, NEW p \in ConsReaders, ConsTake(p)
  PROVE  /\ ConsInv'
         /\ \/ UNCHANGED Lines!vars \/ Lines!TakeEof(p)
            \/ \E k \in 1 .. Len(Between(r, w)) : Lines!Take(p, k)
<1>. DEFINE avail == Between(r, w)
            Ends(i) == avail[i] \in {"nl", "eof"}
            eof(k) == avail[k] = "eof"
            taken(k) == IF eof(k) THEN k - 1 ELSE k
            gone(k) == IF eof(k) /\ ~SavesEof(p, taken(k)) THEN k ELSE taken(k)
<1>1. PICK k \in 1 .. Len(avail) :
        /\ cleft[p] > 0 /\ ~casleep[p]
        /\ k <= cleft[p] /\ (k = cleft[p] \/ k = Len(avail) \/ Ends(k))
        /\ \A i \in 1 .. k - 1 : ~Ends(i)
        /\ cdst' = [cdst EXCEPT ![p] = @ \o SubSeq(avail, 1, taken(k))]
        /\ r' = (r + gone(k)) % ConsUInt
        /\ cleft' = [cleft EXCEPT ![p] = IF Ends(k) THEN 0 ELSE @ - k]
        /\ ctarget' = [ctarget EXCEPT ![p] = IF cleft'[p] = 0 THEN 0 ELSE @]
        /\ UNCHANGED <<ibuf, w, e, casleep, ckilled>>
  BY Zenon DEF ConsTake
<1>2. PICK x, y \in Nat : Shape(x, y)
  BY Zenon DEF ConsInv
<1>3. avail \in Seq(ConsChar) /\ Len(avail) = x
  BY <1>2, ShapeFacts, Zenon DEF RingSays
<1>4. k \in 1 .. x /\ k \in Nat /\ k > 0
  BY <1>1, <1>3
<1>5. PICK t \in 0 .. x : t = taken(k)
  BY <1>4
<1>6. PICK m \in 0 .. x : m = gone(k)
  BY <1>4
<1>7. (~eof(k) => t = k /\ m = k) /\ (eof(k) => t = k - 1)
  BY <1>5, <1>6, Zenon
<1>8. r' = (r + m) % ConsUInt /\ cdst' = [cdst EXCEPT ![p] = @ \o SubSeq(avail, 1, t)]
  BY <1>1, <1>5, <1>6, Zenon
<1>. DEFINE before == cdst[p]
            add == SubSeq(avail, 1, t)
<1>9. /\ cleft[p] \in Nat /\ ctarget[p] \in Nat /\ cleft[p] <= ctarget[p]
      /\ before \in Seq(ConsChar) /\ Len(before) = ctarget[p] - cleft[p]
  BY <1>1, Zenon DEF ConsInv, ReaderTypes, ReaderOK
<1>10. add \in Seq(ConsChar) /\ Len(add) = t
  <2>1. t \in 0 .. Len(avail)
    BY <1>3, <1>5, Zenon
  <2>. HIDE DEF avail
  <2>. QED
    BY <1>3, <2>1, Parts, Zenon
<1>11. r # w
  <2>1. Distance(r, w) = x /\ w \in 0 .. ConsUInt - 1 /\ r \in 0 .. ConsUInt - 1
    BY <1>2, RingStarts, Zenon DEF RingSays
  <2>2. x # 0
    BY <1>4
  <2>. QED
    BY <2>1, <2>2, DistanceTo, Zenon
<1>12. /\ Shape(x - m, y)' /\ x - m \in Nat /\ Between(w, e)' = Between(w, e)
       /\ Between(r, w)' = SubSeq(avail, m + 1, Len(avail))
  <2>1. UNCHANGED <<ibuf, w, e>>
    BY <1>1, Zenon
  <2>. QED
    BY <1>2, <1>8, <2>1, Drains, Zenon
<1>13. ReaderTypes' /\ \A q \in ConsReaders : ReaderOK(q)'
  <2>1. PICK left \in Nat : left = IF Ends(k) THEN 0 ELSE cleft[p] - k
    BY <1>1, <1>4, <1>9
  <2>2. PICK goal \in Nat : goal = IF left = 0 THEN 0 ELSE ctarget[p]
    BY <1>9
  <2>3. PICK new \in Seq(ConsChar) : new = before \o add /\ Len(new) = Len(before) + t
    <3>. HIDE DEF before, add
    <3>1. before \o add \in Seq(ConsChar) /\ Len(before \o add) = Len(before) + Len(add)
      BY <1>9, <1>10, Joined
    <3>. QED
      BY <1>10, <3>1, Zenon
  <2>4. /\ cleft' = [cleft EXCEPT ![p] = left] /\ cleft'[p] = left
        /\ ctarget' = [ctarget EXCEPT ![p] = goal] /\ cdst' = [cdst EXCEPT ![p] = new]
    <3>1. cleft' = [cleft EXCEPT ![p] = left] /\ cleft'[p] = left
      BY <1>1, <2>1, Zenon DEF ConsInv, ReaderTypes
    <3>2. ctarget' = [ctarget EXCEPT ![p] = goal]
      BY <1>1, <2>2, <3>1, Zenon
    <3>3. cdst' = [cdst EXCEPT ![p] = new]
      BY <1>8, <2>3, Zenon
    <3>. QED
      BY <3>1, <3>2, <3>3, Zenon
  <2>5. left <= goal /\ (left > 0 => Len(new) = goal - left)
    <3>1. CASE Ends(k)
      <4>1. left = 0
        BY <2>1, <3>1, Zenon
      <4>. QED
        BY <4>1
    <3>2. CASE ~Ends(k)
      <4>1. t = k /\ left = cleft[p] - k
        BY <1>7, <2>1, <3>2, Zenon
      <4>2. Len(before) = ctarget[p] - cleft[p] /\ Len(new) = Len(before) + k
        BY <1>9, <2>3, <4>1, Zenon
      <4>3. Len(new) = ctarget[p] - left /\ left <= ctarget[p]
        <5>. HIDE DEF before
        <5>. QED
          BY <1>4, <1>9, <4>1, <4>2
      <4>4. left # 0 => goal = ctarget[p]
        BY <2>2, Zenon
      <4>5. left = 0 => left <= goal /\ ~(left > 0)
        OBVIOUS
      <4>. QED
        BY <4>3, <4>4, <4>5, Zenon
    <3>. QED
      BY <3>1, <3>2, Zenon
  <2>. HIDE DEF avail, Ends, before, add
  <2>6. ReaderTypes'
    <3>1. cleft' \in [ConsReaders -> Nat]
      BY <2>4, Zenon DEF ConsInv, ReaderTypes
    <3>2. ctarget' \in [ConsReaders -> Nat]
      BY <2>4, Zenon DEF ConsInv, ReaderTypes
    <3>3. cdst' \in [ConsReaders -> Seq(ConsChar)]
      BY <2>4, Zenon DEF ConsInv, ReaderTypes
    <3>. QED
      BY <1>1, <3>1, <3>2, <3>3, Zenon DEF ConsInv, ReaderTypes
  <2>7. ASSUME NEW q \in ConsReaders PROVE ReaderOK(q)'
    BY <2>4, <2>5, Zenon DEF ConsInv, ReaderTypes, ReaderOK
  <2>. QED
    BY <2>6, <2>7, Zenon
<1>14. ConsSleepersWait'
  BY <1>1, <1>11, Zenon DEF ConsInv, ConsSleepersWait
<1>15. ConsInv'
  BY <1>12, <1>13, <1>14, Zenon DEF ConsInv
\* No end of a line before the last character that is taken.
<1>16. \A i \in 1 .. t : avail[i] # "eof" /\ (avail[i] = "nl" => i = t)
  <2>1. CASE eof(k)
    <3>1. \A i \in 1 .. t : i \in 1 .. k - 1
      BY <1>7, <2>1
    <3>. QED
      BY <1>1, <3>1, Zenon
  <2>2. CASE ~eof(k)
    <3>1. \A i \in 1 .. t : i \in 1 .. k - 1 \/ i = k
      BY <1>4, <1>7, <2>2
    <3>. QED
      BY <1>1, <1>7, <2>2, <3>1, Zenon
  <2>. QED
    BY <2>1, <2>2, Zenon
<1>17. CASE m = t /\ t # 0
  <2>1. t \in 1 .. Len(avail)
    BY <1>3, <1>5, <1>17
  <2>2. Lines!Take(p, t)
    BY <1>8, <1>12, <1>16, <1>17, Zenon DEF Lines!Take
  <2>. QED
    BY <1>15, <2>1, <2>2, Zenon
<1>18. CASE m = t /\ t = 0
  <2>. HIDE DEF avail
  <2>1. SubSeq(avail, 0 + 1, Len(avail)) = avail /\ SubSeq(avail, 1, 0) = <<>> /\ before \o <<>> = before
    <3>. HIDE DEF before
    <3>. QED
      BY <1>3, <1>9
  <2>2. cdst' = cdst
    BY <1>8, <1>18, <2>1, Zenon DEF ConsInv, ReaderTypes
  <2>. QED
    BY <1>12, <1>15, <1>18, <2>1, <2>2, Zenon DEF avail, Lines!vars
<1>19. CASE m # t
  \* "if(n < target)" does not hold: the call has got nothing.
  <2>1. eof(k) /\ ~SavesEof(p, taken(k)) /\ m = k
    BY <1>5, <1>6, <1>19, Zenon
  <2>2. ~(cleft[p] - t < ctarget[p]) /\ t = k - 1
    BY <1>5, <1>7, <2>1, Zenon DEF SavesEof
  <2>3. k = 1 /\ t = 0 /\ Len(before) = 0
    <3>. HIDE DEF before
    <3>. QED
      BY <1>4, <1>9, <2>2
  <2>4. before = <<>> /\ avail # <<>> /\ Head(avail) = avail[1]
    <3>. HIDE DEF before, avail
    <3>. QED
      BY <1>3, <1>4, <1>9, <2>3
  <2>5. Tail(avail) = SubSeq(avail, 1 + 1, Len(avail))
    <3>. HIDE DEF avail
    <3>. QED
      BY <1>3, <1>4, <2>4
  <2>6. cdst' = cdst
    <3>1. SubSeq(avail, 1, 0) = <<>> /\ before \o <<>> = before
      <4>. HIDE DEF before, avail
      <4>. QED
        BY <1>3, <1>9
    <3>. QED
      BY <1>8, <2>3, <3>1, Zenon DEF ConsInv, ReaderTypes
  <2>7. Lines!TakeEof(p)
    BY <1>12, <2>1, <2>3, <2>4, <2>5, <2>6, Zenon DEF Lines!TakeEof
  <2>. QED
    BY <1>15, <2>7, Zenon
<1>. QED
  BY <1>17, <1>18, <1>19, Zenon
-----------------------------------------------------------------------------
(* The theorems about the console. *)

\* Every step of the console is one of the line discipline, or none, and keeps
\* the invariant.
LEMMA ConsStep ==
  ConsInv /\ [ConsNext]_ConsVars => ConsInv' /\ [Lines!Next]_(Lines!vars)
<1>. SUFFICES ASSUME ConsInv, [ConsNext]_ConsVars
              PROVE  ConsInv' /\ (Lines!Next \/ UNCHANGED Lines!vars)
  BY Zenon
<1>1. CASE UNCHANGED ConsVars
  BY <1>1, ConsNothing, Zenon
<1>2. CASE Consoleintr
  <2>1. CASE KillLine \/ Backspace
    BY <2>1, KillLineStep, BackspaceStep, Zenon DEF Lines!Next
  <2>2. CASE Dropped
    BY <2>2, ConsNothing, Zenon DEF Dropped
  <2>3. CASE \E k \in {"char", "nl", "cr", "eof"} : Typed(k)
    BY <2>3, TypedStep, Zenon DEF Lines!Next
  <2>. QED
    BY <1>2, <2>1, <2>2, <2>3, Zenon DEF Consoleintr
<1>3. CASE \E p \in ConsReaders :
             Consoleread(p) \/ ConsKill(p) \/ \E n \in ReadSizes : ConsBegin(p, n)
  <2>1. PICK p \in ConsReaders :
          Consoleread(p) \/ ConsKill(p) \/ \E n \in ReadSizes : ConsBegin(p, n)
    BY <1>3, Zenon
  <2>2. CASE ConsTake(p)
    BY <2>2, ConsTakeStep, Zenon DEF Lines!Next
  <2>3. CASE ConsWait(p) \/ ConsKill(p)
    BY <2>3, ConsWaitStep, ConsKillStep, Zenon
  <2>4. CASE \E n \in ReadSizes : ConsBegin(p, n)
    BY <2>4, ConsBeginStep, Zenon DEF Lines!Next
  <2>. QED
    BY <2>1, <2>2, <2>3, <2>4, Zenon DEF Consoleread
<1>. QED
  BY <1>1, <1>2, <1>3, Zenon DEF ConsNext

\* The indices of struct input always mark finished input, a line that is being
\* edited and holds no end of a line, and room; and what a call of consoleread
\* has copied is what it no longer asks for.
THEOREM ConsInvariant == ConsSpec => []ConsInv
<1>. QED
  BY ConsInitInv, ConsStep, PTL DEF ConsSpec

\* consoleintr and consoleread implement the line discipline for every size of
\* the ring, every range of its counters that is a multiple of it, and any
\* number of readers: whatever is typed and erased, and however two readers
\* share the input, nothing finished is lost, doubled or reordered, and a ^D
\* ends one read, which got nothing.
THEOREM ConsoleImplements == ConsSpec => Lines!Init /\ LineDiscipline
<1>. QED
  BY ConsInitInv, ConsStep, PTL DEF ConsSpec, LineDiscipline

\* wakeup(&input.r) wakes all readers: none is left asleep beside finished input.
THEOREM ConsoleNoLostWakeup == ConsSpec => []ConsSleepersWait
<1>1. ConsInv => ConsSleepersWait
  BY Zenon DEF ConsInv
<1>. QED
  BY <1>1, ConsInvariant, PTL

\* A full buffer is always finished: its last place ends the line.
THEOREM ConsoleNeverStuck == ConsSpec => []FullIsFinished
<1>1. ConsInv => FullIsFinished
  <2>. SUFFICES ASSUME ConsInv, Distance(r, e) = INPUT_BUF PROVE w = e
    BY Zenon DEF FullIsFinished
  <2>1. PICK x, y \in Nat : Shape(x, y)
    BY Zenon DEF ConsInv
  <2>2. /\ RingSays(x, y) /\ w = (r + x) % ConsUInt /\ e = (r + (x + y)) % ConsUInt
        /\ x + y = INPUT_BUF => y = 0
    BY <2>1, RingStarts, Zenon
  <2>3. y = 0
    BY <2>2, Zenon DEF RingSays
  <2>4. x + 0 = x
    OBVIOUS
  <2>. QED
    BY <2>2, <2>3, <2>4, Zenon
<1>. QED
  BY <1>1, ConsInvariant, PTL
=============================================================================
