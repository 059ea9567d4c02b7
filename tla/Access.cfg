SPECIFICATION Spec
CONSTANTS
  None = None
  Admin = admin
  Guest = guest
  Others = {carol}
  Slots = {p1, p2}
  CacheTime = 1
  RefreshTime = 1
  IdleTime = 2
  Lifetime = 4
  MaxTime = 4
  MaxOps = 3
  MaxCrashes = 1
  FaultSets <- SomeFaults
SYMMETRY SlotSymmetry
CHECK_DEADLOCK FALSE
INVARIANTS
  TypeOK
  OldPasswordIsOut
PROPERTIES
  SessionInUseIsKept
