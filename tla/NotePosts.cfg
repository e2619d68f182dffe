SPECIFICATION Spec
CONSTANTS
  c1 = c1
  c2 = c2
  n1 = n1
  n2 = n2
  None = None
  Threads = {t1, t2}
  Names = {n1, n2}
  Centers = {c1, c2}
  CenterOf <- MCCenterOf
  Reaches <- MCReaches
  Operations <- MCAll
  MaxObservers = 2
  MaxDepth = 2
SYMMETRY MCSymmetry
INVARIANTS CalledIsRegistered OnlyRingsWait
PROPERTY PostSeesOneList
CHECK_DEADLOCK FALSE
