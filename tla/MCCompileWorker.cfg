SPECIFICATION FairSpec
CONSTANTS
  Caller = {p1}
  zero = zero
  c1 = c1
  c2 = c2
  Code <- MCCode
  ZeroHash = zero
  pool_size = 2
  cache_size = 1
  MaxTasks = 3
  MaxCrashes = 1
CHECK_DEADLOCK FALSE
INVARIANTS
  TypeOK
  PermitsBalanced
  ObjectKept
  OrphansBounded
PROPERTY CalledIsCompiled
