SPECIFICATION Spec
CONSTANTS
  Names = {a, b}
  Fold <- NoTwins
  Slots = {t1}
  MaxDepth = 3
  MaxEntries = 4
  MaxStored = 4
  MaxGaps = 2
SYMMETRY NameSymmetry
CHECK_DEADLOCK FALSE
INVARIANTS
  TypeOK
PROPERTIES
  BystandersKeepRows
  MoveCarriesRows
  BatchCarriesRows
  RestoreRegistersAll
