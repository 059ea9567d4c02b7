SPECIFICATION Spec
CONSTANTS
  Nil = Nil
  Ops = {o1, o2, o3}
  Paths = {a, b}
  FaultSets <- AllFaults
  MaxCrashes = 1
  MaxLists = 1
CHECK_DEADLOCK FALSE
SYMMETRY Symmetry
INVARIANTS
  NoPhantomRow
  NoDanglingTrashRow
PROPERTIES
  NothingIsLost
