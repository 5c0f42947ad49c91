----------------------------- MODULE AtomicDisk -----------------------------
(***************************************************************************)
(* What the log promises the file system (log.c, head comment): system     *)
(* calls write blocks between begin_op and end_op, and a crash leaves the  *)
(* disk with all the writes of a system call or with none.                 *)
(***************************************************************************)
CONSTANTS Procs, Blocks, Vals, Val0

VARIABLES
  durable,   \* what a reboot finds
  current,   \* what system calls read
  active     \* the processes between begin_op and end_op

avars == <<durable, current, active>>

AInit ==
  /\ durable = [b \in Blocks |-> Val0]
  /\ current = durable
  /\ active = {}

Begin(p) ==
  /\ p \notin active
  /\ active' = active \cup {p}
  /\ UNCHANGED <<durable, current>>

WriteBlock(p, b, v) ==
  /\ p \in active
  /\ current' = [current EXCEPT ![b] = v]
  /\ UNCHANGED <<durable, active>>

End(p) ==
  /\ p \in active
  /\ active' = active \ {p}
  /\ UNCHANGED <<durable, current>>

\* All finished system calls become durable in one step, and no unfinished
\* one with them.
Commit ==
  /\ active = {}
  /\ durable' = current
  /\ UNCHANGED <<current, active>>

\* A crash loses what was not durable.
Crash ==
  /\ current' = durable
  /\ active' = {}
  /\ UNCHANGED durable

ANext ==
  \/ \E p \in Procs : Begin(p) \/ End(p)
  \/ \E p \in Procs, b \in Blocks, v \in Vals : WriteBlock(p, b, v)
  \/ Commit \/ Crash

ASpec == AInit /\ [][ANext]_avars
=============================================================================
