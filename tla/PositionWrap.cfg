SPECIFICATION Spec
CONSTANTS
  n1 = n1
  n2 = n2
  n3 = n3
  Loopback <- MCLoopback
  Nodes = {n1, n2}
  Reporters = {n1}
  Link <- Pair
  Second = 1
  TimestampMod = 8
  CheckInterval = 1
  CheckJitter = 1
  MaxIntervalTime = 2
  HopDelay = 1
  Lossy = FALSE
  Horizon = 20
  IdLifetime = 2
  EntryLifeTime = 6
PROPERTIES PurgeOnlyExpired
