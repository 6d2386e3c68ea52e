SPECIFICATION Spec
CONSTANTS
  MayAttach <- AllButSecondarySlave
  Faults = {"ERR", "DF"}
  BusyNoise = {"DRQ", "ERR", "DF"}
  Lbas = {0, 1, 8}
  Counts = {0, 1, 2}
  Words = 2
  Byte = 2
  Nibble = 2
  CountMod = 4
INVARIANTS DataOnlyWhenReady PanicOnlyOnError CommandToIdleDrive RightSector
PROPERTIES PollEnds
CHECK_DEADLOCK FALSE
