CONSTANTS
  NPROC = 3
  CPU = {c1}
  NoCPU = NoCPU
  MaxPid = 3
  KillPids = {2, 3}
SPECIFICATION FairSpec
PROPERTIES
  KilledExits
  WaitReturns
  RunnableRuns
