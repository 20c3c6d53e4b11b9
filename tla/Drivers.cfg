SPECIFICATION MCSpec
CHECK_DEADLOCK FALSE
CONSTANTS
  N = 4
  Does <- Mixed
  Quantum = 2
  SleepTicks = 1
  MaxKeys = 2
  Size = 4
  Letters = {"c", "ESC"}
  Dead = {"release"}
  VGA_WIDTH = 2
  VGA_HEIGHT = 3
  EarlyGlyphs = {"a", "b"}
  MaxRows = 5
  Width = 2
  Height = 2
  Glyphs = {"a"}
  Terminals = 2
  TabStop = 2
  Fields = 2
  MaxX = 4
  MaxY = 4
INVARIANTS
  EoiIsOwed
  
  ShowsLastRows
  
PROPERTY ImplementsKeySpec
