SPECIFICATION FairSpec
CONSTANTS
  Nil = Nil
  Ops = {o1, o2}
  Paths = {a, b, c}
  FaultSets <- TxFaults
  MaxCrashes = 2
  MaxLists = 0
CHECK_DEADLOCK FALSE
INVARIANTS
  TypeOK
  EveryGapIsJournalled
  
PROPERTIES
  CrashesAreInvisible
  
  ServerComesBack
