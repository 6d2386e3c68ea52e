SPECIFICATION ProbeSpec
CONSTANTS
  MayAttach <- Drive
  Words = 3
  MemCells = 4
  PollBound = 2
  Byte = 2
  Nibble = 2
  Faults = {}
  BusyNoise = {}
INVARIANTS BusyIsOver
