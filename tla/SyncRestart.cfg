SPECIFICATION Spec
CONSTANTS
  n1 = n1
  n2 = n2
  n3 = n3
  Nodes <- MCNodes
  Blocks <- ChainBlocks
  MaxHeight = 3
  Known <- MCNodes
  Score <- MCScore
  MinReputation = 3
  PruningEnabled = TRUE
  KeepBlocks = 2
  RebuildOnStart = TRUE
  Torn = Torn
  NoBlock = NoBlock
  Chains <- NoChains
  MaxDiscovered = 4
  MaxRestarts = 2
INVARIANTS
  LedgerInv
PROPERTIES
  ImplementsLedger
CHECK_DEADLOCK FALSE
