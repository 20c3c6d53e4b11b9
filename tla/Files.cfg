SPECIFICATION MCSpec
CHECK_DEADLOCK FALSE
CONSTANTS
  MaxFiles = 4
  MaxBlocks = 4
  BlockSize = 2
  MaxEntries = 3
  Byte = {0, 1}
  Procs = {p1, p2}
  First = p1
  MaxFds = 5
  MaxPipes = 2
  PipeSize = 3
  Names = {"hello.txt", "new"}
  Writes <- WriteValues
  Counts = {2}
  DupTo = {4}
  MaxInode = 6
INVARIANTS
  BlocksOwned
  
  
 
