SPECIFICATION MCSpec
CHECK_DEADLOCK FALSE
CONSTANTS
  MAX_CMD_LEN = 4
  HISTORY_SIZE = 2
  Letters = {"a"}
  Commands <- TwoCommands
  MaxHistory = 3
  MAX_ARGS = 3
  MaxLine = 4
  MAX_JOBS = 2
  MAX_FDS = 5
  MaxPid = 3
INVARIANTS
  HistoryIsRecent
  JobsFound
  NoDescriptorLeak
  PipeEndsPlaced
PROPERTIES
  ImplementsLineSpec
  
  ArgsAreWords
  RemovedWhenReaped
