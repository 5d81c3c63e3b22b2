SPECIFICATION FairSpec
CONSTANTS
  Smaller = Smaller
  Larger = Larger
  a = a
  b = b
  a1 = a1
  a2 = a2
  Link <- MCTwoLinks
  Dialer <- MCDialer
  NoLink = NoLink
INVARIANTS
  SidesAgree
PROPERTIES
  OneLinkAndTold
  KeepsContracts
  TablesConverge
CHECK_DEADLOCK FALSE
