SPECIFICATION Spec
CONSTANTS
  Smaller = Smaller
  Larger = Larger
  a = a
  b = b
  a1 = a1
  a2 = a2
  Link <- MCTwoLinks
  Dialer <- MCDialer
  NoLink = NoLink
PROPERTIES
  SupersededIsSilent
CHECK_DEADLOCK FALSE
