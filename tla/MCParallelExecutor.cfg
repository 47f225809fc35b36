SPECIFICATION PSpec
CONSTANTS
  Threads = {w1, w2}
  block_size = 3
  MaxIncarnation <- NoBound
  a = a
  b = b
  code = code
  ben = ben
  Loc <- MCLoc
  CodeLoc <- MCCodeLoc
  storage <- MCStorage
  beneficiary = ben
  Blocks <- MCBlocks
SYMMETRY ThreadSymmetry
INVARIANTS
  PTypeOK
  FinalReadsValid
  EntriesOwned
PROPERTIES
  SerialEquivalence
  SchedulerContract
