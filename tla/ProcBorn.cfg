SPECIFICATION Spec
CONSTANTS
  NPROC = 3
  CPUs = {c1, c2}
  Chans = {ch1}
  NoChan = NoChan
  NoCPU = NoCPU
  KillArgs = {2}
  MaxPid = 4
PROPERTIES BornAlive
