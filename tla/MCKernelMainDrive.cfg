SPECIFICATION Spec
CONSTANTS
  AddrUnits = 20
  StackTop = 6
  StackBottom = 4
  Freelist = 1
  BLOCK = 3
  BreakBound = 19
  Buses = 2
  Slots = 1
  Functions = 2
  Kinds = {"absent", "odd", "there"}
  TableCells = 2
  MayAttach <- Drive
  Words = 3
  MemCells = 40
  Byte = 2
  Nibble = 2
  Faults = {"ERR", "DF"}
  BusyNoise = {"DF"}
  PollBound = 4
  HEIGHT = 18
INVARIANTS MainDriveIsADrive
CHECK_DEADLOCK FALSE
