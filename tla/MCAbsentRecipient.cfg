SPECIFICATION Spec
CONSTANTS
  rich = rich
  ben = ben
  new1 = new1
  new2 = new2
  gone = gone
  U256Max = 63
  Account <- MCAccount
  db <- MCdb
  Fee = 2
  MaxFee = 3
  Reward = 1
  Blocks <- MCBlocks
  MaxBlocks = 3
INVARIANT AbsentReadsNone
