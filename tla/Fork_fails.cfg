SPECIFICATION Spec
CHECK_DEADLOCK FALSE
CONSTANTS
  Images = {}
  p1 = p1
  p2 = p2
  TotalPages = 14
  FirstPage = 1
  BitmapBits = 14
  Entries = 2
  Procs <- TwoProcs
  UserHeapStart = 12
  HeapLimit = 14
  StackPages = 1
  Increments <- AllIncrements
  Data = {100}
  Stores = {12}
PROPERTY FailedForkFreesAll
