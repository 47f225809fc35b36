SPECIFICATION BlockExecutorSpec
CONSTANTS
  block_size = 3
  Gas = {1, 2}
INVARIANT GasUsedOfBlock
