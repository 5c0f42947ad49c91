SPECIFICATION FsSpec
CONSTANTS
  FsProcs = {p1, p2}
  NoFsProc = NoFsProc
  Names = {"a", "d"}
  NInodes = 5
  FsCalls <- Calls
  FsTrees <- Trees
  FsCrashes = TRUE
INVARIANT NoCircularWait
CHECK_DEADLOCK FALSE
SYMMETRY Symmetry
