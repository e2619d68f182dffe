SPECIFICATION FairLines
CONSTANTS
  Characters = {"x", "CR", "LF"}
  LineFeed = "LF"
  Delimiters <- MCDelimiters
  MaxBytes = 6
  MaxLosses = 1
INVARIANTS LinesInOrder
PROPERTIES LinesAreDelivered
CHECK_DEADLOCK FALSE
