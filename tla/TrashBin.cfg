SPECIFICATION Spec
CONSTANTS
  a = a
  b = b
  d = d
  p = p
  q = q
  None = None
  Items <- ThreeItems
  Home <- Where
  Dirs <- Directory
  Parts <- Lengths
  Slots = {s1, s2}
  MaxRows = 2
  MaxLocks = 3
  MB = 2
  Quota = 3
  MaxBreaks = 1
  FaultSets <- SomeFaults
SYMMETRY SlotSymmetry
CHECK_DEADLOCK FALSE
INVARIANTS
  TypeOK
  BinIsListed
  ListedIsThere
  DiskIsRegistered
  NoCircularWait
  UsedCoversFiles
  UsedIsTheSum
PROPERTIES
  NothingIsReplaced
