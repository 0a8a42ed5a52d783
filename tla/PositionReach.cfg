SPECIFICATION Spec
CONSTANTS
  n1 = n1
  n2 = n2
  n3 = n3
  Loopback <- MCLoopback
  Nodes = {n1, n2, n3}
  Reporters = {n1}
  Link <- Line
  Second = 3
  TimestampMod = 65536
  CheckInterval = 3
  CheckJitter = 1
  MaxIntervalTime = 20
  HopDelay = 1
  Lossy = FALSE
  Horizon = 90
  IdLifetime = 7
  EntryLifeTime = 30
INVARIANTS QuiescentMeansKnown ReportsArriveInTime AlwaysInformed
PROPERTIES KnownNodesStayKnown
