SPECIFICATION Spec
CONSTANTS
  big = big
  small = small
  None = None
  Ids = {big, small}
  Chunks <- TwoFiles
  Slots = {s1, s2}
  MaxChunk = 2
  Cap = 4
  MB = 2
  Quota = 1
  MaxBreaks = 1
  FaultSets <- SomeFaults
SYMMETRY SlotSymmetry
CHECK_DEADLOCK FALSE
INVARIANTS
  TypeOK
  PendingCovered
  ExactWhenIdle
  UsedIsExact
  WithinQuota
  MergedIsComplete

  
