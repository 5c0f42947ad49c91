------------------------------- MODULE Console -------------------------------
(***************************************************************************)
(* The input of the console (console.c): the ring input.buf with its read, *)
(* write and edit index, filled by consoleintr and emptied by consoleread. *)
(* Both work under cons.lock, which consoleread gives up only in sleep.    *)
(***************************************************************************)
EXTENDS Integers, Sequences

CONSTANTS
  ConsReaders,
  INPUT_BUF,
  ConsUInt,      \* the range of uint, 2^32 in the code
  ConsKillable,  \* bound: the readers that kill is called for
  ReadSizes      \* bound: the sizes of the buffers of a read

ASSUME ConsoleAssumption ==
  /\ INPUT_BUF \in Nat \ {0} /\ ReadSizes \subseteq Nat \ {0}
  /\ ConsUInt \in Nat /\ ConsUInt % INPUT_BUF = 0 /\ ConsUInt > INPUT_BUF

VARIABLES
  ibuf, r, w, e,   \* struct input
  cleft,           \* n of a reader's call, 0 outside a call
  ctarget,         \* target of the call, 0 outside a call
  cdst,            \* what the call has copied
  casleep,         \* the reader sleeps on &input.r
  ckilled

input == <<ibuf, r, w, e>>
ConsVars == <<input, cleft, ctarget, cdst, casleep, ckilled>>

ConsInit ==
  /\ ibuf = [i \in 0 .. INPUT_BUF - 1 |-> "zero"]
  /\ r = 0 /\ w = 0 /\ e = 0
  /\ cleft = [p \in ConsReaders |-> 0] /\ ctarget = [p \in ConsReaders |-> 0]
  /\ cdst = [p \in ConsReaders |-> <<>>]
  /\ casleep = [p \in ConsReaders |-> FALSE]
  /\ ckilled = [p \in ConsReaders |-> FALSE]

Distance(i, j) == (j - i) % ConsUInt
Between(i, j) == [k \in 1 .. Distance(i, j) |-> ibuf[((i + k - 1) % ConsUInt) % INPUT_BUF]]

-----------------------------------------------------------------------------
(* consoleintr: one turn of its loop over the characters typed. *)

\* Control-U: erases back to a newline, or to input.w.
KillLine ==
  /\ e # w
  /\ LET edited == Between(w, e)
     IN  \E k \in 0 .. Len(edited) :
           /\ k > 0 => edited[k] = "nl"
           /\ \A i \in k + 1 .. Len(edited) : edited[i] # "nl"
           /\ e' = (w + k) % ConsUInt
  /\ UNCHANGED <<ibuf, r, w, cleft, ctarget, cdst, casleep, ckilled>>

\* "input.e != input.w"
Erasable == e # w

Backspace ==
  /\ Erasable
  /\ e' = (e - 1) % ConsUInt
  /\ UNCHANGED <<ibuf, r, w, cleft, ctarget, cdst, casleep, ckilled>>

\* "input.e-input.r < INPUT_BUF"
Room == Distance(r, e) < INPUT_BUF

\* What ends a line, e being already incremented.
Finishes(c) == c \in {"nl", "eof"} \/ Distance(r, e) + 1 = INPUT_BUF

\* wakeup(&input.r)
WokenReaders == [p \in ConsReaders |-> FALSE]

\* Any other character.
Typed(k) ==
  LET c == IF k = "cr" THEN "nl" ELSE k IN
  /\ Room
  /\ ibuf' = [ibuf EXCEPT ![e % INPUT_BUF] = c]
  /\ e' = (e + 1) % ConsUInt
  /\ IF Finishes(c)
     THEN w' = e' /\ casleep' = WokenReaders
     ELSE UNCHANGED <<w, casleep>>
  /\ UNCHANGED <<r, cleft, ctarget, cdst, ckilled>>

\* Without room a character is dropped.
Dropped == ~Room /\ UNCHANGED ConsVars

Consoleintr ==
  KillLine \/ Backspace \/ Dropped \/ \E k \in {"char", "nl", "cr", "eof"} : Typed(k)

-----------------------------------------------------------------------------
(* consoleread *)

ConsBegin(p, n) ==
  /\ cleft[p] = 0 /\ ~ckilled[p]
  /\ cleft' = [cleft EXCEPT ![p] = n] /\ ctarget' = [ctarget EXCEPT ![p] = n]
  /\ cdst' = [cdst EXCEPT ![p] = <<>>]
  /\ UNCHANGED <<input, casleep, ckilled>>

\* Mutant: the mark is used up by the call that it ends.
SavesNoEof(p, taken) == FALSE

\* "if(n < target)": the mark is left to the next call.
SavesEof(p, taken) == cleft[p] - taken < ctarget[p]

\* The loop up to its end or to the next sleep: it looks at k characters.
ConsTake(p) ==
  LET avail == Between(r, w)
      Ends(i) == avail[i] \in {"nl", "eof"}
  IN  \E k \in 1 .. Len(avail) :
        LET eof == avail[k] = "eof"
            taken == IF eof THEN k - 1 ELSE k
        IN  /\ cleft[p] > 0 /\ ~casleep[p]
            /\ k <= cleft[p] /\ (k = cleft[p] \/ k = Len(avail) \/ Ends(k))
            /\ \A i \in 1 .. k - 1 : ~Ends(i)
            /\ cdst' = [cdst EXCEPT ![p] = @ \o SubSeq(avail, 1, taken)]
            /\ r' = (r + (IF eof /\ ~SavesEof(p, taken) THEN k ELSE taken)) % ConsUInt
            /\ cleft' = [cleft EXCEPT ![p] = IF Ends(k) THEN 0 ELSE @ - k]
            /\ ctarget' = [ctarget EXCEPT ![p] = IF cleft'[p] = 0 THEN 0 ELSE @]
            /\ UNCHANGED <<ibuf, w, e, casleep, ckilled>>

ConsWait(p) ==
  /\ cleft[p] > 0 /\ ~casleep[p]
  /\ r = w
  /\ IF ckilled[p]
     THEN /\ cleft' = [cleft EXCEPT ![p] = 0] /\ ctarget' = [ctarget EXCEPT ![p] = 0]
          /\ UNCHANGED casleep
     ELSE casleep' = [casleep EXCEPT ![p] = TRUE] /\ UNCHANGED <<cleft, ctarget>>
  /\ UNCHANGED <<input, cdst, ckilled>>

\* kill wakes a sleeping process.
ConsKill(p) ==
  /\ p \in ConsKillable /\ ~ckilled[p]
  /\ ckilled' = [ckilled EXCEPT ![p] = TRUE]
  /\ casleep' = [casleep EXCEPT ![p] = FALSE]
  /\ UNCHANGED <<input, cleft, ctarget, cdst>>

Consoleread(p) == ConsTake(p) \/ ConsWait(p)

ConsNext ==
  \/ Consoleintr
  \/ \E p \in ConsReaders :
       Consoleread(p) \/ ConsKill(p) \/ \E n \in ReadSizes : ConsBegin(p, n)

ConsSpec == ConsInit /\ [][ConsNext]_ConsVars

-----------------------------------------------------------------------------
\* A reader sleeps only while there is no finished input and it is not killed,
\* whichever of the readers took the input that woke both (consoleread).
ConsSleepersWait == \A p \in ConsReaders : casleep[p] => r = w /\ ~ckilled[p]

\* There is never a full buffer that is still being edited: typing could not
\* finish it, and a reader would wait for ever (consoleintr).
FullIsFinished == Distance(r, e) = INPUT_BUF => w = e

\* The ring implements the line discipline: nothing typed is lost, doubled,
\* reordered or erased after it was finished, lines are not merged, and each ^D
\* ends exactly one read, which got nothing ("Save ^D for next time, to make
\* sure caller gets a 0-byte result").
Lines == INSTANCE LineInput WITH
  Readers <- ConsReaders, Size <- INPUT_BUF,
  pending <- Between(r, w), line <- Between(w, e), dst <- cdst

LineDiscipline == [][Lines!Next]_(Lines!vars)
=============================================================================
