SPECIFICATION Spec
CHECK_DEADLOCK FALSE
CONSTANTS
  N = 2
  Does <- Napping
  Quantum = 1
  SleepTicks = 1
  MaxKeys = 1
PROPERTY TicksContinue
