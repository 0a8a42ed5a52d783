SPECIFICATION Spec
CONSTANTS
  p1 = p1
  p2 = p2
  Garbage = garbage
  Area <- MCArea
  Nodes = {1, 2, 3, 4, 5, 6, 7}
  Place <- VoidPlace
  Velocity <- VoidVelocity
  Unit = 2
  Broadcast = 255
  Skipped = {127}
  Range2 = 35
  Packets = {p1, p2}
  Src <- Src6
  Dst <- Dst6
  HopLimit = 10
  EnableQueue = TRUE
  EnableRecoveryMode = TRUE
  FloodTime = 0
  Heard <- Late
  Informed <- AllButLate
  Lossy = TRUE
  Horizon = 1
  EntryLifeTime = 1
INVARIANTS TypeOK HopsBounded NoGreedyLoop RecoveryAdvances
PROPERTIES ImplementsCustody NextHopIsLive
CHECK_DEADLOCK FALSE
