SPECIFICATION FairSpec
CONSTANTS
  p1 = p1
  p2 = p2
  p3 = p3
  d1 = d1
  d2 = d2
  Packets = {p1, p2, p3}
  Destinations = {d1, d2}
  DstOf <- MCDstOf
  EnableQueue = TRUE
  EnableRecoveryMode = FALSE
  MaxQueueLen = 2
  QueueTimeout = 1
  EntryLifeTime = 2
  Horizon = 2
INVARIANTS TypeOK QueueBounded EveryPacketOnce WaitersLeaveInOrder
PROPERTIES NoLateForward OnlyDueDrops EveryPacketSettles ImplementsCustody
