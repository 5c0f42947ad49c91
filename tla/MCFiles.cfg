SPECIFICATION Spec
CONSTANTS
  FsProcs = {p1, p2}
  NoFsProc = NoFsProc
  Names = {"a", "d"}
  NInodes = 5
  FsCalls <- Calls
  FsTrees <- Trees
  FsCrashes = TRUE
  DataProcs = {"p", "q"}
  NoDataProc = NoDataProc
  Files = {1, 2}
  Fds = {1, 2}
  FileOf <- OpenInodes
  BSIZE = 2
  NDIRECT = 3
  NINDIRECT = 2
  MAXOPBLOCKS = 10
  BPB = 1
  DataBlocks = 8
  WriteSizes = {1, 7}
  Stamp <- OwnByte
  MaxDataCalls = 3
  FtProcs = {q1, q2}
  NFILE = 3
  NOFILE = 3
  FtInodes = {11}
  FtPipes = {21}
  MaxOpens = 3
INVARIANTS
  LinksCounted
  RefsCounted
  InUseNotFreed
  FilesKeepData
  BlocksOwnedOnce
  TransactionFits
  ObjectsCounted
SYMMETRY Symmetry
CHECK_DEADLOCK FALSE
