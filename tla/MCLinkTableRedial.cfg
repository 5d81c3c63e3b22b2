SPECIFICATION Spec
CONSTANTS
  Smaller = Smaller
  Larger = Larger
  a = a
  b = b
  a1 = a1
  a2 = a2
  Link <- MCSameDialer
  Dialer <- MCDialer
  NoLink = NoLink
SYMMETRY MCSymmetry
INVARIANTS
  SidesAgree
CHECK_DEADLOCK FALSE
