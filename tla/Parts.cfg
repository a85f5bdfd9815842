CONSTANTS
  Reader = {p1, p2}
  Writer = {p3}
  NoOne = NoOne
  Intr = Intr
  SIZE = 2
  TXSIZE = 1
  WORD = 4
  Reads = {2}
  Writes = {1}
  NPROC = 3
  UINT = 3
  Naps = {2}
  Procs = {1, 2, 3, 4, 5}
  MAXARGS = 3
  MaxLine = 5
  Chunk = 3
  Limit = 9
  MaxGames = 3
SPECIFICATION Spec
SYMMETRY Symmetric
VIEW Shape
INVARIANTS
  NobodyStalls
  OldestFirst
  ParsesCommands
  PromptMeansDone
  HeapSound
  GamesInStep
PROPERTIES
  TimesAgree
  ConsoleIsTty
