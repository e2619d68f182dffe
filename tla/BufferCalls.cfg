SPECIFICATION Spec
CONSTANTS
  x = x
  zero = zero
  Buffers = {a, b}
  Blocks = {p1, p2, p3, p4, p5}
  ForeignBlock = foreign
  Elements = {x, zero}
  Zero = zero
  Junk = Junk
  Sizes = {0, 1, 3}
  Sources <- MCSources
  MaxCalls = 5
SYMMETRY MCSymmetry
INVARIANTS LiveBlocksHaveOneOwner DeletesAreValid ContentIsKept
CHECK_DEADLOCK FALSE
