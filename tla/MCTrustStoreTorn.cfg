SPECIFICATION Spec
CONSTANTS
  Peer = {a, b, f}
  Bound = {a, b}
  Call = {c1, c2}
  Torn = Torn
  NoFile = NoFile
  Nothing = Nothing
  Asked = Asked
INVARIANT NeverCorrupt
CHECK_DEADLOCK FALSE
