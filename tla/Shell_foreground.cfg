SPECIFICATION SpecShell
CONSTANTS
  MAX_JOBS = 2
  MAX_FDS = 5
  MaxPid = 3
CHECK_DEADLOCK FALSE
PROPERTY ForegroundFinished
