SPECIFICATION Spec
CONSTANTS
  a = a
  b = b
  Node = {a, b}
  NoSession = NoSession
  MaxConns = 3
  MaxAttach = 5
SYMMETRY Symmetry
INVARIANTS
  LateSystemsMeet
CHECK_DEADLOCK FALSE
