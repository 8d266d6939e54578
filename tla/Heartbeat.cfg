SPECIFICATION FairSpec
CONSTANTS
  n1 = n1
  n2 = n2
  h1 = h1
  h2 = h2
  Nodes = {n1, n2}
  Handlers = {h1, h2}
  Ahead = 2
  Freshness = 1
  Timeout = 1
  MinInterval = 2
  RateWindow = 1
  MaxPerWindow = 1
  MaxNodes = 1
  StoreLocation = FALSE
INVARIANTS
  HeartbeatInv
PROPERTIES
  KeptWhileHeard
  SilentNodeLeaves
