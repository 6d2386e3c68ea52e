SPECIFICATION Spec
CONSTANTS
  AddrUnits = 16
  StackTop = 3
  StackBottom = 11
  Freelist = 1
  BLOCK = 2
  Requests = {0, 5, 16}
  BreakBound = 15
INVARIANTS TypeOK BlocksDisjoint NoUnitLost IInv
PROPERTIES LiveUntouched NullOnlyWhenNothingFits GrowthSatisfiesCall ExhaustionIsFinal CallsReturn ImplementsHeapAbs
CHECK_DEADLOCK FALSE
