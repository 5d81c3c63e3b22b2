SPECIFICATION HeartbeatSpec
CONSTANTS
  Interval = 2
  Timeout = 3
  MaxMissed = 3
  MaxPing = 6
INVARIANTS
  PunctualPeerKept
CHECK_DEADLOCK FALSE
