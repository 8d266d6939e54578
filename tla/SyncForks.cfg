SPECIFICATION FairSpec
CONSTANTS
  n1 = n1
  n2 = n2
  n3 = n3
  Nodes <- MCNodes
  Blocks <- ForkBlocks
  MaxHeight = 3
  Known <- MCNodes
  Score <- MCScore
  MinReputation = 3
  PruningEnabled = TRUE
  KeepBlocks = 2
  RebuildOnStart = FALSE
  Torn = Torn
  NoBlock = NoBlock
  Chains <- ForkChains
  MaxDiscovered = 3
  MaxRestarts = 1
INVARIANTS
  SyncTypeOK
  SyncedHoldsChain
  HeldBlocksValid
PROPERTIES
  NoBlockLost
  ProcessingEnds
CHECK_DEADLOCK FALSE
