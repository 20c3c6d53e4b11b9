SPECIFICATION FairSpec
CONSTANTS
  MaxProcesses = 4
  MaxPid = 3
  BootProcs = 2
  Quantum = 2
  NoProc = NoProc
PROPERTY WaiterWakes
