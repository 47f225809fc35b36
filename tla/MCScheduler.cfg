SPECIFICATION FairSpec
CONSTANTS
  Threads = {w1, w2}
  block_size = 3
  MaxIncarnation = 1
INVARIANTS
  TypeOK
  NumValidatedExact
  ExclusiveExecution
  DependentsWait
  AbortedHasResumer
  NoLostExecution
  NoLostValidation
  JoinedComplete
PROPERTIES
  StatusDiagram
  Termination
