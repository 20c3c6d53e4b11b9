SPECIFICATION SpecReaper
CONSTANTS
  MaxProcesses = 4
  MaxPid = 4
  BootProcs = 1
  Quantum = 1
  NoProc = NoProc
INVARIANTS
  TypeOK
  QueueDiscipline
  OnlyCurrentRuns
  ExitedNeverRuns
  
  OneShell
PROPERTIES
  NoOvertaking
  ReapsOwnExitedChild
