SPECIFICATION Spec
CONSTANTS
  NPROC = 4
  CPUs = {c1, c2}
  Chans = {ch1}
  NoChan = NoChan
  NoCPU = NoCPU
  KillArgs = {3}
  MaxPid = 4
INVARIANTS CpuExclusive NoOrphan NoLostExit PidsUnique
SYMMETRY CpuSymmetry
CONSTRAINT FewOff
