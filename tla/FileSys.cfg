CONSTANTS
  p1 = p1
  p2 = p2
  Proc = {p1, p2}
  NoProc = NoProc
  InitProc = p1
  NINODES = 3
  NBLOCKS = 4
  EPB = 4
  NDIRECT = 1
  ImageFiles <- OneFile
  NINODE = 3
  NFILE = 2
  NOFILE = 2
  NDEV = 1
  MaxLinks = 3
  MaxGroup = 2
  Workloads <- AllWorkloads
  WriteBlocks = 2
SPECIFICATION TreeSpec
INVARIANTS
  NothingLeaks
  RefsExact
  NoPanic
PROPERTIES
  CrashConsistent
CHECK_DEADLOCK FALSE
