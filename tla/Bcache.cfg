CONSTANTS
  Proc = {p0, p1}
  NoProc = NoProc
  NBUF = 2
  Block = {k0, k1, k2}
  NoBlock = NoBlock
  Value = {v0, v1}
  MaxPins = 1
SPECIFICATION FairSpec
INVARIANTS
  CacheSound
PROPERTIES
  CacheIsStore
  BlockIsHad
CHECK_DEADLOCK FALSE
