SPECIFICATION Spec
CONSTANTS
  Buses = 2
  Slots = 2
  Functions = 2
  Kinds = {"absent", "odd", "there"}
  TableCells = 2
  MemCells = 20
  Blocks = {8, 10, 12}
INVARIANTS OneEntryPerFunction LastOnBus NoStrayWrite
CHECK_DEADLOCK FALSE
