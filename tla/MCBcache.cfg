SPECIFICATION Spec
CONSTANTS
  Procs = {p1, p2}
  NBUF = 3
  Blocks = {k1, k2, k3, k4}
  Vals = {v0, v1}
  v0 = v0
  MaxPinned = 2
  NoProc = NoProc
  NoBlock = NoBlock
INVARIANTS
  BufferStaysMine
  WaitersServed
PROPERTIES
  StoreSpec
  PanicsOnlyWhenFull
SYMMETRY Symmetry
CONSTRAINT OneChanged
