SPECIFICATION StorageSpec
CONSTANTS
  n1 = n1
  Nodes <- MCNodes
  Blocks <- MCBlocks
  MaxHeight = 3
  Known <- MCNodes
  Score <- MCScore
  MinReputation = 1
  PruningEnabled = TRUE
  KeepBlocks = 2
  RebuildOnStart = TRUE
  Torn = Torn
  NoBlock = NoBlock
INVARIANTS
  StorageTypeOK
  IndexConsistent
PROPERTIES
  Retention
