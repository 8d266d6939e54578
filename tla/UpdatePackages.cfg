SPECIFICATION Spec
CONSTANTS
  a1 = a1
  n1 = n1
  n2 = n2
  c1 = c1
  c2 = c2
  i1 = i1
  p1 = p1
  p2 = p2
  p3 = p3
  p4 = p4
  bad1 = bad1
  bad2 = bad2
  bad3 = bad3
  NoPackage = NoPackage
  Adapters = {a1}
  Packages <- MCPackages
  Pkg <- MCPkg
  Nodes = {n1, n2}
  Peers = {n1}
  Trusted = {n1, n2}
  Registered <- MCRegistered
  MinTrusted = 2
  MinVerifications = 1
  Period = 1
  Expiry = 1
  MaxPending = 2
  Callers <- TwoCallers
  Installers = {i1}
  MaxNow = 1
INVARIANTS
  PackagesInv
  Vetted
PROPERTIES
  LosesOnlyByArrival
SYMMETRY Symmetry
