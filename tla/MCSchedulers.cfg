SPECIFICATION SchedSpec
CONSTANTS
  NPROC = 3
  CPUs = {c1, c2}
  NQ = 2
  Age = 1
  BootCPU = c1
  LoopNPROC = 3
  LoopCPUs = {d1, d2}
  NoCPU = NoCPU
  DefaultPrio = 2
  Policies = {"ROUND_ROBIN", "PBS", "FCFS"}
  Priorities = {1, 3}
  MaxTicks = 4
INVARIANTS
  QueuedRunnable
PROPERTIES
  AgedOut
  EveryoneRuns
  LeastRuns
  PicksFirst
