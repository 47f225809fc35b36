SPECIFICATION Spec
CONSTANTS
  block_size = 3
  Gas = {1, 2}
  Account <- MCAccount
  Before <- MCBefore
  Chain <- MCChain
  HashWindow = 2
  MaxFetches = 2
  MaxTests = 2
  EtherRuns <- MCEtherRuns
  EelsRuns <- MCEelsRuns
INVARIANT FetchedHashes
