SPECIFICATION Spec
CONSTANTS
  NPROC = 3
  CPUs = {c1}
  NQ = 2
  Age = 1
  BootCPU = c1
INVARIANTS RunnableQueued
