SPECIFICATION KeyboardSpec
CONSTANTS
  Codes = {1, 2, 3}
  Overrun = 255
  Room = 3
PROPERTIES ImplementsKeyQueue KeyArrives
