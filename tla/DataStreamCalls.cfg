SPECIFICATION Spec
CONSTANTS
  s1 = s1
  s2 = s2
  Streams = {s1, s2}
  SizeWidths = {4, 8}
  Items <- MCItems
  Raws <- MCRaws
  Counts = {0, 2, 9}
  MaxElements = 3
  MaxBytes = 24
  MaxCalls = 5
INVARIANTS StreamIsQueue WrittenIsRead
SYMMETRY MCSymmetry
CHECK_DEADLOCK FALSE
