CONSTANTS
  NPROC = 4
  NMLFQ = 2
  AGETICK = 2
  TICKS <- Slices
SPECIFICATION FairSpec
INVARIANTS
  QueuesConsistent
PROPERTIES
  StarvedOnlyByAging
