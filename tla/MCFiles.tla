------------------------------ MODULE MCFiles -------------------------------
(***************************************************************************)
(* The file system, in three parts that do not meet here: the directory    *)
(* tree and the inode cache (Fs), the blocks of files and the offsets of   *)
(* descriptors (FileData), and the file table (FileTable).  The first      *)
(* state says which of them moves.                                         *)
(***************************************************************************)
EXTENDS MCFs, FileData, FileTable

VARIABLE part

vars == <<part, FsVars, DataVars, FtVars>>

\* Inodes 1 and 2 are open once each; each process writes bytes of its own.
OpenInodes == <<1, 2>>
OwnByte == [p \in DataProcs |-> IF p = "p" THEN 7 ELSE 8]

\* The other two rest in one of their first states.
Init ==
  /\ part \in {"tree", "data", "table"} /\ FsInit /\ DataInit /\ FtInit
  /\ part # "tree" => ncalls = 4
  /\ part # "table" => alive = {CHOOSE p \in FtProcs : TRUE}

Next ==
  \/ part = "tree" /\ FsNext /\ UNCHANGED <<part, DataVars, FtVars>>
  \/ part = "data" /\ DataNext /\ UNCHANGED <<part, FsVars, FtVars>>
  \/ part = "table" /\ FtNext /\ UNCHANGED <<part, FsVars, DataVars>>

Spec == Init /\ [][Next]_vars
=============================================================================
