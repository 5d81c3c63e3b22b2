SPECIFICATION Spec
CONSTANTS
  EnterFrames = 2
  NoPipe = NoPipe
  NoHand = NoHand
  Device = {b}
  Nowhere = Nowhere
  LedgerLimit = 1
  Handed = {"left"}
  Seen <- SeenScores
  MaxGrabs = 2
  MaxWire = 2
INVARIANTS
  HandsAndObjects
  LedgerTellsFate
  NoGhostObject
PROPERTIES
  SentWhenOpened
CHECK_DEADLOCK FALSE
