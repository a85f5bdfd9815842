CONSTANTS
  p1 = p1
  p2 = p2
  Proc = {p1, p2}
  NoProc = NoProc
  InitProc = p1
  NINODES = 3
  NBLOCKS = 4
  EPB = 4
  NDIRECT = 1
  ImageFiles <- OneFile
  NINODE = 3
  NFILE = 2
  NOFILE = 2
  NDEV = 1
  MaxLinks = 3
  MaxGroup = 3
  Workloads <- OneWorkload
  WriteBlocks = 2
SPECIFICATION TreeSpec
PROPERTIES
  LastIputFrees
CHECK_DEADLOCK FALSE
