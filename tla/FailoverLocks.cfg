SPECIFICATION Spec
CONSTANTS
  a1 = a1
  a2 = a2
  a3 = a3
  f1 = f1
  Unknown = Unknown
  NoAdapter = NoAdapter
  Unbounded = Unbounded
  Adapters <- Two
  Metrics <- JumpMetrics
  Multiplier = 5
  Forcers <- OneForcer
  Operators = {o1}
  Stoppers = {n1}
  Closers = {}
  LogCap = 20
  MaxChecks = 3
  MaxChanges = 0
INVARIANTS
  LockInv
  NoDeadlock
  SwitchesBalanced
CHECK_DEADLOCK FALSE
