-------------------------------- MODULE MCFs --------------------------------
(* Directory trees and calls for TLC to try on Fs. *)
EXTENDS Fs

FsSpec == FsInit /\ [][FsNext]_FsVars

Dir(n, ents) == [type |-> "DIR", nlink |-> n, dir |-> ents]
File == [type |-> "FILE", nlink |-> 1, dir |-> NoEntries]
Root(n) == Dir(n, [EmptyDir(1, 1) EXCEPT !["a"] = 2, !["d"] = 3])

\* A file a and the directories d and d/d; a directory a with a file d; a directory
\* a and a directory d that has a file d.  Inode 5 is free.
Nested == <<Root(2), File, Dir(2, [EmptyDir(3, 1) EXCEPT !["d"] = 4]), Dir(1, EmptyDir(4, 3)), FreeInode>>
Flat == <<Root(2), Dir(1, EmptyDir(2, 1)), File, FreeInode, FreeInode>>
InD == <<Root(3), Dir(1, EmptyDir(2, 1)), Dir(1, [EmptyDir(3, 1) EXCEPT !["d"] = 4]), File, FreeInode>>

Trees == {[calls |-> 4, ino |-> Nested], [calls |-> 3, ino |-> Nested],
          [calls |-> 2, ino |-> Flat], [calls |-> 2, ino |-> InD]}

Rel(s) == [abs |-> FALSE, elems |-> s]
AllCalls ==
  [op : {"create", "unlink", "mkdir"}, path : {Rel(<<"a">>)}]
  \cup [op : {"unlink", "open"}, path : {Rel(<<"d">>)}]
  \cup [op : {"unlink", "chdir"}, path : {Rel(<<"d", "d">>)}]
  \cup [op : {"chdir"}, path : {Rel(<<"..">>)}]
  \cup [op : {"chdir", "mkdir"}, path : {[abs |-> TRUE, elems |-> <<>>]}]
  \cup [op : {"link"}, path : {Rel(<<"a">>)}, path2 : {Rel(<<"d", "a">>), Rel(<<"d">>)}]

\* The deepest cases take four calls, of which the first enters d/d.
Calls == [n \in 1 .. 4 |-> IF n = 4 THEN [op : {"chdir"}, path : {Rel(<<"d", "d">>)}] ELSE AllCalls]

Symmetry == Permutations(FsProcs)
=============================================================================
