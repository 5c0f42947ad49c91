----------------------------- MODULE MCTransfer -----------------------------
(* FileTransfer for TLC: what the server has and what is typed. *)
EXTENDS FileTransfer

\* A file of two chunks, one of less than a chunk and an empty one; file 4 does
\* not exist.
ThreeFiles == <<<<7, 8, 9>>, <<5>>, <<>>>>

Get(s) == [word |-> "get", names |-> s]
Word(w) == [word |-> w, names |-> <<>>]

\* Two names and another command.
Sessions ==
  {<<Get(<<f, g>>), w>> : f \in 1 .. 4, g \in 1 .. 4,
                          w \in {Word("exit"), Word("other"), Get(<<1>>), Get(<<2>>)}}

OneGet == {<<Get(<<1>>)>>}
=============================================================================
