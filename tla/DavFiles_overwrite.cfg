SPECIFICATION Spec
CONSTANTS
  d = d
  e = e
  n = n
  m = m
  small = small
  large = large
  None = None
  Dirs = {d, e}
  Names = {n, m}
  Contents = {small, large}
  Size <- Sizes
  First <- TwoFiles
  Quota = 4
  Slots = {s1, s2}
  MaxOps = 3
  MaxBreaks = 1
  FaultSets <- NoFaults
SYMMETRY SlotSymmetry
CHECK_DEADLOCK FALSE
INVARIANTS
  OverwriteIsPossible
