SPECIFICATION HeartbeatSpec
CONSTANTS
  Interval = 5
  Timeout = 3
  MaxMissed = 3
  MaxPing = 6
INVARIANTS
  SilenceIsBounded
PROPERTIES
  AlarmIsHonest
CHECK_DEADLOCK FALSE
