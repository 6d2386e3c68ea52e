SPECIFICATION Spec
CONSTANTS
  WIDTH = 3
  HEIGHT = 2
  StringArg <- OneChar
  Behind = {}
  Colours = {"black", "red"}
  StackFrames = 4
  Formats <- KernelFormats
  Texts <- PanicTexts
  PositionMod = 64
  RowBound = 6
INVARIANTS PanicNamesPlace
CHECK_DEADLOCK FALSE
