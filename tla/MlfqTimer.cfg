CONSTANTS
  NPROC = 2
  NMLFQ = 2
  AGETICK = 2
  TICKS <- Slices
SPECIFICATION TimerSpec
PROPERTIES
  TimerPreempts
