SPECIFICATION Spec
CONSTANTS
  Procs = {p1, p2, p3}
  Blocks = {b1, b2, b3}
  Vals = {v0, v1}
  Val0 = v0
  MAXOPBLOCKS = 2
  LOGSIZE = 4
  nlog = 4
  OpBlocks = 1
SYMMETRY Symmetry
INVARIANTS NeverPanics CleanIsOnDisk SleeperHasWaker
PROPERTIES CrashAtomic
