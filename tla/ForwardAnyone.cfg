SPECIFICATION Spec
CONSTANTS
  p1 = p1
  p2 = p2
  Garbage = garbage
  Area <- MCArea
  Nodes = {1, 2, 3, 4, 5, 6, 7}
  Place <- VoidPlace
  Velocity <- VoidVelocity
  Unit = 2
  Broadcast = 255
  Skipped = {127, 255}
  Range2 = 35
  Packets = {p1}
  Src <- Src6
  Dst <- Dst6
  HopLimit = 5
  EnableQueue = FALSE
  EnableRecoveryMode = TRUE
  FloodTime = 0
  Heard = {}
  Informed <- Everyone
  Lossy = FALSE
  Horizon = 0
  EntryLifeTime = 2
INVARIANTS NextHopIsNeighbor
CHECK_DEADLOCK FALSE
