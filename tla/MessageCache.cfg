SPECIFICATION CacheSpec
CONSTANTS
  c1 = c1
  c2 = c2
  d1 = d1
  d2 = d2
  Unreadable = Unreadable
  Callers <- TwoCallers
  Devices = {d1, d2}
  Messages <- MCMessages
  MaxPerDevice = 2
  MaxTotal = 2
  MaxNow = 1
INVARIANTS
  CacheTypeOK
  LimitsHeld
  FileFollowsMemory
PROPERTIES
  NoSilentLoss
SYMMETRY CallerSymmetry
