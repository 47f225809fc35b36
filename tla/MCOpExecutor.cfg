SPECIFICATION Spec
CONSTANTS
  Worker = {w1, w2}
  Blocks <- MCBlocks
INVARIANT OpReturnsResults
CHECK_DEADLOCK FALSE
