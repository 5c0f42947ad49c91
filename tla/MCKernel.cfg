SPECIFICATION Spec
CONSTANTS
  N = 4
  NQ = 2
  Null = Null
  Procs = {p1, p2, p3, p4}
  Writers = {w1, w2}
  Readers = {r1, r2}
  PIPESIZE = 2
  PipeUInt = 4
  CallSizes = {3}
  Killable = {w1}
  MaxBytes = 6
  ConsReaders = {r1, r2}
  INPUT_BUF = 3
  ConsUInt = 6
  ConsKillable = {r1}
  ReadSizes = {2}
  VmProcs = {u1, u2}
  NoMem = NoMem
  NPages = 13
  PGSIZE = 2
  KERNBASE = 10
  AddrSpace = 20
  TabSpan = 2
  KernTabs = 1
  UserBytes = {7}
  SbrkArgs <- Increments
  Segments <- Programs
  Images <- LoadedPrograms
  MaxVmCalls = 4
  Cpus = {0, 1}
  SlProcs = {s1, s2}
  Free = Free
  HeapUnits = 10
  MinCore = 4
  HeaderSize = 8
  AllocBytes = {0, 9, 32}
  SbrkUnits = {1}
INVARIANTS
  RingIsFifo
  PipeIsFifo
  SleepersWait
  PagesUsedOnce
  InterruptFlagFollows
  LockPanicsNever
  UnitsInOneBlock
PROPERTIES
  PipeCallsReturn
  LineDiscipline
  PrivateMemory
