SPECIFICATION Spec
CONSTANTS
  WIDTH = 3
  HEIGHT = 2
  StringArg <- OneChar
  Behind <- Leftovers
  Colours = {"black", "red"}
  StackFrames = 4
  Formats <- AllFormats
  Texts <- KernelTexts
  PositionMod = 64
  RowBound = 6
INVARIANTS ColourDiscipline
PROPERTIES BelowScreenForGood NumberNeverReturns PrintReturns
CHECK_DEADLOCK FALSE
