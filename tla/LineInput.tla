------------------------------ MODULE LineInput ------------------------------
(***************************************************************************)
(* What the console promises its readers: lines are edited until they are  *)
(* finished, finished input is handed out once and in order, no read goes  *)
(* beyond the end of a line, and an end-of-file mark gives exactly one     *)
(* read of nothing.                                                        *)
(***************************************************************************)
EXTENDS Integers, Sequences

CONSTANTS Readers, Size

VARIABLES
  pending,   \* finished input that nobody has read
  line,      \* the line being edited
  dst        \* what each reader's call has got so far

vars == <<pending, line, dst>>

Init == pending = <<>> /\ line = <<>> /\ dst = [p \in Readers |-> <<>>]

Room == Len(pending) + Len(line) < Size

\* A character is typed; it ends the line if it says so or nothing more fits.
Type(c) ==
  /\ Room
  /\ IF c \in {"nl", "eof"} \/ Len(pending) + Len(line) + 1 = Size
     THEN pending' = pending \o Append(line, c) /\ line' = <<>>
     ELSE line' = Append(line, c) /\ UNCHANGED pending
  /\ UNCHANGED dst

\* The last character, or all of the line, is erased.
Erase ==
  /\ line # <<>>
  /\ line' \in {SubSeq(line, 1, Len(line) - 1), <<>>}
  /\ UNCHANGED <<pending, dst>>

Begin(p) == dst' = [dst EXCEPT ![p] = <<>>] /\ UNCHANGED <<pending, line>>

\* k characters go to a reader, only the last of which may end a line.
Take(p, k) ==
  /\ \A i \in 1 .. k : pending[i] # "eof" /\ (pending[i] = "nl" => i = k)
  /\ pending' = SubSeq(pending, k + 1, Len(pending))
  /\ dst' = [dst EXCEPT ![p] = @ \o SubSeq(pending, 1, k)]
  /\ UNCHANGED line

\* The mark is used up by a call that got nothing.
TakeEof(p) ==
  /\ dst[p] = <<>> /\ pending # <<>> /\ Head(pending) = "eof"
  /\ pending' = Tail(pending)
  /\ UNCHANGED <<line, dst>>

Next ==
  \/ \E c \in {"char", "nl", "eof"} : Type(c)
  \/ Erase
  \/ \E p \in Readers :
       Begin(p) \/ TakeEof(p) \/ \E k \in 1 .. Len(pending) : Take(p, k)

Spec == Init /\ [][Next]_vars
=============================================================================
