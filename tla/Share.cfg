SPECIFICATION Spec
CONSTANTS
  None = None
  register = register
  Clients = {c1, c2}
  Shares = {s1}
  Slots = {p1, p2}
  Others = {register}
  Limit <- Limits
  Window <- Windows
  MaxEntries = 1
  PurgeTime = 1
  MaxFailures = 1
  LockTime = 2
  TokenTime = 1
  Lifetimes = {None, 1}
  MaxTime = 2
  MaxOps = 3
  MaxBare = 5
  FaultSets <- SomeFaults
SYMMETRY ClientSymmetry
CHECK_DEADLOCK FALSE
INVARIANTS
  TypeOK
  LimitHolds
  GuessesAreBounded
  
