SPECIFICATION Spec
CONSTANTS
  Names = {a, b}
  Fold <- NoTwins
  Slots = {t1}
  MaxDepth = 3
  MaxEntries = 3
  MaxStored = 4
  MaxGaps = 2
CHECK_DEADLOCK FALSE
PROPERTIES
  CopyIsComplete
