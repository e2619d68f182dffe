SPECIFICATION Spec
CONSTANTS
  ResizePad = 1
  Capacities = {0, 2}
  Foreign = {2}
  WriteSizes = {0, 3}
  Fills = {0, 255}
  Sources <- MCSources
  Counts = {1, 3, 8, 11}
  TypedValues <- MCTypedValue
  Strings <- MCString
  Lengths = {0, 3}
  Positions = {0, 5, 18}
  MaxBytes = 5
  MaxCalls = 4
INVARIANTS BitsStayInside WrittenIsKept ReadIsWritten
CHECK_DEADLOCK FALSE
