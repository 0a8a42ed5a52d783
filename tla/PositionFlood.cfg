SPECIFICATION Spec
CONSTANTS
  n1 = n1
  n2 = n2
  n3 = n3
  Loopback <- MCLoopback
  Nodes = {n1, n2, n3}
  Reporters = {n1}
  Link <- Triangle
  Second = 6
  TimestampMod = 65536
  CheckInterval = 6
  CheckJitter = 0
  MaxIntervalTime = 20
  HopDelay = 2
  Lossy = TRUE
  Horizon = 12
  IdLifetime = 6
  EntryLifeTime = 30
INVARIANTS TypeOK SeenIsDuplicate UpdateIdsUnique FloodEndsInTime NeverOwnNeighbor
PROPERTIES TableNeverRegresses ImplementsSharing
