SPECIFICATION Spec
CONSTANTS
  Peer = {a, b, f}
  Bound = {a, b}
  Call = {c1, c2}
  Torn = Torn
  NoFile = NoFile
  Nothing = Nothing
  Asked = Asked
SYMMETRY Symmetry
INVARIANTS
  OnlyAccepted
  StoreCoherent
PROPERTIES
  ImplementsStore
  RevokedStaysAway
CHECK_DEADLOCK FALSE
