SPECIFICATION MCSpec
CHECK_DEADLOCK FALSE
CONSTANTS
  TotalPages = 9
  FirstPage = 2
  BitmapBits = 10
  MaxCount = 3
  Procs = {p1, p2, p3, p4, p5}
  NULL = NULL
  HeapSize = 184
  Header = 24
  MinBlock = 16
  Requests = {0, 5, 24, 48}
INVARIANTS
  CounterExact
  
  
  Tiled
  Coalesced
  LiveIntact
  StatsMatch
PROPERTY ImplementsPageSpec
