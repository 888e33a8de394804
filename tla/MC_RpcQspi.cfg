CONSTANTS
  FlashSize = 16
  Page = 1
  Window = 8
  CellsOf <- MCCellsOf
  Parts <- MCParts
  Calls <- MCCalls
  MaxCalls = 5
SPECIFICATION Spec
 
INVARIANT CacheHidesNoProgram
 
CHECK_DEADLOCK FALSE
