CONSTANTS
  p1 = p1
  p2 = p2
  Proc = {p1, p2}
  InitProc = p1
  NoProc = NoProc
  NPAGE = 16
  PGSIZE = 2
  WORD = 16
  InitSize = 2
  Programs <- MCPrograms
  MAXARG = 1
  Increments <- MCIncrements
  Intervals = {0, 1}
  UserTop = 8
SPECIFICATION Spec
VIEW Shape
INVARIANTS
  PagesOnce
  OnlyAlarmsPanic
  CopiesAgree
PROPERTIES
  FailedCallKeeps
CHECK_DEADLOCK FALSE
