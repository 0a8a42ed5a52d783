SPECIFICATION FairSpec
CONSTANTS
  p1 = p1
  p2 = p2
  Garbage = garbage
  Area <- MCArea
  Nodes = {1, 2, 3, 4}
  Place <- ConvoyPlace
  Velocity <- ConvoyVelocity
  Unit = 1
  Broadcast = 255
  Skipped = {127, 255}
  Range2 = 4
  Packets = {p1}
  Src <- Src4
  Dst <- Dst4
  HopLimit = 3
  EnableQueue = FALSE
  EnableRecoveryMode = FALSE
  FloodTime = 0
  Heard <- Ends
  Informed <- Everyone
  Lossy = FALSE
  Horizon = 2
  EntryLifeTime = 3
PROPERTIES GreedyDelivers PositionFreshens
CHECK_DEADLOCK FALSE
