SPECIFICATION Spec
CONSTANTS
  Nil = Nil
  Ops = {o1, o2}
  Paths = {a, b, c}
  FaultSets <- OverlapFaults
  MaxCrashes = 0
  MaxLists = 0
CHECK_DEADLOCK FALSE
PROPERTIES
  NoEntryIsReplaced
