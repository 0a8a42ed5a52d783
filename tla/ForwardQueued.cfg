SPECIFICATION Spec
CONSTANTS
  p1 = p1
  p2 = p2
  Garbage = garbage
  Area <- MCArea
  Nodes = {1, 2, 3, 4}
  Place <- ConvoyPlace
  Velocity <- ConvoyVelocity
  Unit = 1
  Broadcast = 255
  Skipped = {127, 255}
  Range2 = 4
  Packets = {p1}
  Src <- Src4
  Dst <- Dst4
  HopLimit = 2
  EnableQueue = TRUE
  EnableRecoveryMode = FALSE
  FloodTime = 0
  Heard <- Everyone
  Informed = {}
  Lossy = FALSE
  Horizon = 0
  EntryLifeTime = 2
INVARIANTS TenHops
CHECK_DEADLOCK FALSE
