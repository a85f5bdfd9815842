CONSTANTS
  r = r
  w = w
  s = s
  Proc = {r, w, s}
  NoProc = NoProc
  Byte = {b0, b1}
  PIPESIZE = 2
  UINT = 4
  Sizes = {3}
  Ends <- TwoWriters
  Victims = {w}
  OneCPU = TRUE
SPECIFICATION FairSpec
INVARIANTS
  NoLostWakeup
PROPERTIES
  BoundedFifo
  Returns
CHECK_DEADLOCK FALSE
