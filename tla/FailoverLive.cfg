SPECIFICATION FairSpec
CONSTANTS
  a1 = a1
  a2 = a2
  a3 = a3
  f1 = f1
  Unknown = Unknown
  NoAdapter = NoAdapter
  Unbounded = Unbounded
  Adapters <- Three
  Metrics <- VaryingMetrics
  Multiplier = 5
  Forcers <- NoForcer
  Operators = {}
  Stoppers = {n1}
  Closers = {c1}
  LogCap = 1
  MaxChecks = Unbounded
  MaxChanges = 1
PROPERTIES
  FailedPrimaryReplaced
  CallsReturn
  PrimarySettles
CHECK_DEADLOCK FALSE
