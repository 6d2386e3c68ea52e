SPECIFICATION LibrarySpec
CONSTANTS
  TbufSize = 9
  LenMod = 4
  Ints <- AllInts
  Bases = {0, 1, 2, 3, 10, 16, 17}
  Strings <- ShortStrings
  Top = 5
  Byte = {0, 1, 2}
  Delims = {2}
  Counts = {0, 1, 3, 4}
  IntMod = 6
INVARIANTS WrittenNumber TbufSuffices AtoiMeaning
INVARIANTS MemcpyMeaning ResultsMean StrcpyReturnsIff TokensSplit AllocationsFilled
PROPERTIES CallEnds
CHECK_DEADLOCK FALSE
