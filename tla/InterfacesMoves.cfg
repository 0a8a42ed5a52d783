SPECIFICATION Spec
CONSTANTS
  a1 = a1
  a2 = a2
  c1 = c1
  subnetA = subnetA
  subnetC = subnetC
  Interfaces = {1, 2}
  Addresses = {a1, a2}
  AddressesFor <- MCAddressesForTwo
  BroadcastOf <- MCBroadcastOfAll
  Loopback = loopback
  None = none
  MaxIntervalTime = 1
  EntryLifeTime = 2
  SetUpAgain = TRUE
  MaxSockets = 2
  Horizon = 5
INVARIANTS TypeOK  RejoinsInTime
CHECK_DEADLOCK FALSE
