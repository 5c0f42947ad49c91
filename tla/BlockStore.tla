----------------------------- MODULE BlockStore -----------------------------
(***************************************************************************)
(* What the buffer cache promises (the interface comment of bio.c): one    *)
(* value per disk block, "a synchronization point for disk blocks used by  *)
(* multiple processes".  Only the holder of a block may change it.         *)
(***************************************************************************)
CONSTANTS Procs, Blocks, Vals, NoProc

VARIABLES
  content,   \* the value of every block
  user       \* the process that uses a block, or NoProc

vars == <<content, user>>

Init ==
  /\ content \in [Blocks -> Vals]
  /\ user = [k \in Blocks |-> NoProc]

Take(p, k) ==
  /\ user[k] = NoProc
  /\ user' = [user EXCEPT ![k] = p]
  /\ UNCHANGED content

Change(p, k, v) ==
  /\ user[k] = p
  /\ content' = [content EXCEPT ![k] = v]
  /\ UNCHANGED user

Give(p, k) ==
  /\ user[k] = p
  /\ user' = [user EXCEPT ![k] = NoProc]
  /\ UNCHANGED content

Next ==
  \E p \in Procs, k \in Blocks :
    Take(p, k) \/ Give(p, k) \/ \E v \in Vals : Change(p, k, v)

Spec == Init /\ [][Next]_vars
=============================================================================
