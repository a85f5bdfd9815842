CONSTANTS
  NPROC = 3
  CPU = {c1, c2}
  NoCPU = NoCPU
  MaxPid = 4
  KillPids = {3}
SPECIFICATION Spec
SYMMETRY CPUSymmetry
INVARIANTS
  SchedAsserts
  RunsOnOneCPU
  ForkOwnsSlot
  LiveParent
  NoLostWakeup
PROPERTIES
  ReapOffCPU
