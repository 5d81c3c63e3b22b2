SPECIFICATION FairSpec
CONSTANTS
  Service = {s1, s2, s3}
  Peer = {s1, s2}
  Unknown = Unknown
  NoDial = NoDial
  AutoConnectTrusted = TRUE
  Enabled = TRUE
  Limits <- MCLimits
  Cap = 0
  MaxLinks = 1
  MaxLookups = 2
INVARIANTS
  ChaseIsOrderly
PROPERTIES
  DropIsChased
  ChaseSucceeds
CHECK_DEADLOCK FALSE
