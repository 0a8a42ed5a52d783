SPECIFICATION Spec
CONSTANTS
  Area <- MCArea
  Unit = 4
  Second = 2
  Starts <- MCStarts
  Velocities <- MCVelocities
  Speed = 5
  Threshold = 12
  MaxIntervalTime = 6
  CheckJitter = 1
  Myadress <- MCMyadress
  Loopback <- MCLoopback
  PacketUid <- MCPacketUid
  EntryLifeTime = 30
  Horizon = 16
INVARIANTS TypeOK EveryoneAgrees PredictionBounded
PROPERTIES SteadyIsSilent
CHECK_DEADLOCK FALSE
