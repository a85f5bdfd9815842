CONSTANTS
  Block = {a, b, c}
  Value = {v0, v1}
  Proc = {p1, p2}
  InitProc = p1
  MAXOPBLOCKS = 3
  LOGSIZE = 6
  NLOG = 6
  OpBlocks = 2
SPECIFICATION FairSpec
INVARIANTS
  IdleDurable
  NoPanic
PROPERTIES
  AtomicUpdates
  SleeperWakes
