SPECIFICATION Spec
CONSTANTS
  MayAttach <- AllButSecondarySlave
  Faults = {}
  BusyNoise = {}
  Lbas = {0}
  Counts = {1, 2}
  Words = 2
  Byte = 2
  Nibble = 2
  CountMod = 4
INVARIANTS ReadsEachSector
CHECK_DEADLOCK FALSE
