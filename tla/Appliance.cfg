SPECIFICATION Spec
CONSTANTS
  r1 = r1
  r2 = r2
  d1 = d1
  d2 = d2
  t1 = t1
  t2 = t2
  None = None
  Unreadable = Unreadable
  Requests <- TwoRequests
  Callers <- AllCallers
  Devices = {d1, d2}
  Tokens = {t1}
  Messages <- OneMessage
  MaxPerDevice = 1
  MaxTotal = 1
  MaxDevices = 1
  RequireApproval = TRUE
  PairingTime = 0
  MaxNow = 1
INVARIANTS
  ApplianceConsistent
  PairedByConsent
  TokenPairsOne
PROPERTIES
  ImplementsCache
SYMMETRY RequestSymmetry
