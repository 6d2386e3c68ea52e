SPECIFICATION Spec
CONSTANTS
  AddrUnits = 40
  StackTop = 6
  StackBottom = 4
  Freelist = 1
  BLOCK = 2
  Requests = {0, 5, 16}
  BreakBound = 39
  RamUnits = 32
PROPERTIES NoMoreHeap
CHECK_DEADLOCK FALSE
