SPECIFICATION FairSpec
CONSTANTS
  c1 = c1
  ping = ping
  broadcast = broadcast
  Absent = Absent
  Torn = Torn
  Clients = {c1}
  ChannelCapacity = 1
  MaxRequests = 2
  AlwaysPersist = FALSE
  Id <- SameId
  MonitorTasks = {ping}
  ManagerReaders = {broadcast}
  ApiEnabled = TRUE
  MaxIds = 2
  MaxStarts = 2
INVARIANTS
  NodeConsistent
  IdentityFits
  StatusAccounted
  ClientsSeeAll
PROPERTIES
  ShutdownEnds
CHECK_DEADLOCK FALSE
