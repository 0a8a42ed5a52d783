SPECIFICATION Spec
CONSTANTS
  a1 = a1
  a2 = a2
  c1 = c1
  subnetA = subnetA
  subnetC = subnetC
  Interfaces = {1, 2}
  Addresses = {a1, a2, c1}
  AddressesFor <- MCAddressesFor
  BroadcastOf <- MCBroadcastOf
  Loopback = loopback
  None = none
  MaxIntervalTime = 1
  EntryLifeTime = 2
  SetUpAgain = FALSE
  MaxSockets = 3
  Horizon = 5
PROPERTIES BroadcastsAreBroadcast
CHECK_DEADLOCK FALSE
