------------------------------ MODULE Reversal ------------------------------
(***************************************************************************)
(* Assign1: Q1.c writes a file backwards, in blocks of buf bytes that it   *)
(* reads from the end of the file to its beginning; Q2.c compares two      *)
(* files in the same order and says whether one is the other backwards.    *)
(* Any open may fail: without its input Q1 does nothing, without its       *)
(* output it goes on, and Q2 looks at neither descriptor.  A read of an    *)
(* open file and a write to it move all the bytes asked for, if they are   *)
(* there: the results of both are not looked at.                           *)
(***************************************************************************)
EXTENDS Integers, Sequences

CONSTANTS
  buf,          \* bytes in a block, 10000000 in the source
  OldFiles,     \* what the input file may hold
  NewFiles      \* what else Q2 may be given to compare

\* With buf > 2, (z-1)/buf is 0 for an empty file and for the size -1 of a file that
\* is not open.
ASSUME ReversalAssumption ==
  buf \in Nat /\ buf > 2 /\ OldFiles \subseteq Seq(Nat) /\ NewFiles \subseteq Seq(Nat)

Files == {"old", "new"}

VARIABLES
  old, new,     \* the files
  opened,       \* the ones that the program could open
  rpc,          \* "reverse", "reversed", "compare" or "compared"
  rpos, rx,     \* the offset in the old file and the size of the next block
  npos,         \* the offset in the new file, for Q2
  verdict       \* what Q2 prints

RevVars == <<old, new, opened, rpc, rpos, rx, npos, verdict>>

\* lseek to the end: the size of file f with contents s, -1 if it is not open.
SeekEnd(f, s) == IF f \in opened' THEN Len(s) ELSE -1

\* ((z-1)/buf)*buf, where / rounds to 0: the beginning of the last block.
LastBlock(z) == IF z <= 0 THEN 0 ELSE ((z - 1) \div buf) * buf

Seek(z) == rpos' = LastBlock(z) /\ rx' = z - LastBlock(z)

RevInit ==
  /\ old \in OldFiles /\ new = <<>> /\ opened \in {{}, {"old"}, Files}
  /\ rpc = IF "old" \in opened THEN "reverse" ELSE "reversed"
  /\ rpos = LastBlock(Len(old)) /\ rx = Len(old) - rpos
  /\ npos = 0 /\ verdict = ""

\* The bytes of s from the last to the first.
Backwards(s) == [i \in 1 .. Len(s) |-> s[(Len(s) - i) + 1]]

\* read, and the block backwards in srev.
srev == Backwards(SubSeq(old, rpos + 1, rpos + rx))

\* The offset in the old file, behind the block that was read.
SeekCur == IF "old" \in opened THEN rpos + rx ELSE -1

\* Mutant: the first block of the file is left out.
MoreStrict == SeekCur - rx - buf > 0

\* There is a block before.
More == SeekCur - rx - buf >= 0

NextBlock == rpos' = rpos - buf /\ rx' = buf

\* A turn of the loop of Q1.
ReverseBlock ==
  /\ rpc = "reverse"
  /\ new' = IF "new" \in opened THEN new \o srev ELSE new
  /\ IF More THEN NextBlock /\ UNCHANGED rpc ELSE rpc' = "reversed" /\ UNCHANGED <<rpos, rx>>
  /\ UNCHANGED <<old, opened, npos, verdict>>

\* Q2 is run on the old file and on what Q1 wrote, or on another file.  It compares
\* them if stat says that their owners may read them.
CompareBegin(f, readable) ==
  /\ rpc = "reversed"
  /\ new' = f /\ npos' = 0 /\ opened' \in SUBSET Files
  /\ LET z == SeekEnd("old", old)
         zo == SeekEnd("new", f)
     IN  IF ~readable THEN rpc' = "compared" /\ UNCHANGED <<verdict, rpos, rx>>
         ELSE IF z # zo THEN rpc' = "compared" /\ verdict' = "NO" /\ UNCHANGED <<rpos, rx>>
         ELSE rpc' = "compare" /\ Seek(z) /\ UNCHANGED verdict
  /\ UNCHANGED old

\* The next bytes of the new file.
str2 == SubSeq(new, npos + 1, npos + rx)

\* A turn of the loop of Q2.
CompareBlock ==
  /\ rpc = "compare"
  /\ npos' = IF "new" \in opened THEN npos + rx ELSE npos
  /\ IF srev # str2 THEN rpc' = "compared" /\ verdict' = "NO" /\ UNCHANGED <<rpos, rx>>
     ELSE IF More THEN NextBlock /\ UNCHANGED <<rpc, verdict>>
     ELSE rpc' = "compared" /\ verdict' = "YES" /\ UNCHANGED <<rpos, rx>>
  /\ UNCHANGED <<old, new, opened>>

RevNext ==
  \/ ReverseBlock
  \/ \E f \in NewFiles \cup {new}, readable \in BOOLEAN : CompareBegin(f, readable)
  \/ CompareBlock

RevSpec == RevInit /\ [][RevNext]_RevVars

-----------------------------------------------------------------------------
\* Q1 with both files open writes the whole file backwards, whether or not its length
\* is a multiple of the block size, and also when it is empty.  When Q2 gives an
\* answer, it is YES exactly for a file that is the other one backwards, if it could
\* open both; with one of them open it is NO; and with neither open, when both sizes
\* are -1 and nothing is read, it is YES.
VerdictRight ==
  /\ rpc = "reversed" /\ opened = Files => new = Backwards(old)
  /\ rpc = "compared" /\ verdict # "" =>
       verdict = IF opened = {} \/ (opened = Files /\ new = Backwards(old)) THEN "YES" ELSE "NO"

RevEnded == rpc = "compared"
=============================================================================
