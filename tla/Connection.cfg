SPECIFICATION FairSpec
CONSTANTS
  Sockets = {1, 2, 3}
  NoSocket = 0
  HeartbeatInterval = 1
  LivenessTimeout = 3
  BackoffBase = 1
  BackoffFactor = 3
  BackoffCap = 2
  SweepInterval = 3
  MaxAttempt = 1
  MaxAge = 7
  MaxFaults = 2
  MaxMounts = 1
INVARIANTS
  OneConnection
  DeadIsNoticed
PROPERTIES
  NeverReapsTheLiving
  EventuallySettled
  GuestEventuallyGone
