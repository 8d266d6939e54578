SPECIFICATION Spec
CONSTANTS
  ether = ether
  wifi = wifi
  p1 = p1
  p2 = p2
  h1 = h1
  h2 = h2
  q1 = q1
  NoWindow = NoWindow
  Peers = {p1, p2}
  Adapters = {ether, wifi}
  Managed = {ether}
  Requests <- MCRequests
  Durations = {1}
  SlotsPerHour = 1
  Horizon = 3
  RequestLifetime = 1
  Neighbourhoods = {{p1}}
  Availables = {{wifi}}
  LoadHours = {4}
  Loads = {90}
  Handlers <- TwoHandlers
  RequestIds = {q1}
  MaxDowntimes = 2
  StartTime = 4
  MaxNow = 5
INVARIANTS
  WindowsInv
PROPERTIES
  AcknowledgedApart
  AgreementStable
SYMMETRY HandlerSymmetry
