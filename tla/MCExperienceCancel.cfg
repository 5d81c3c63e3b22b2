SPECIFICATION Spec
CONSTANTS
  EnterFrames = 2
  NoPipe = NoPipe
  NoHand = NoHand
  Device = {b}
  Nowhere = Nowhere
  LedgerLimit = 1
  Handed = {"left"}
  Seen <- SeenScores
  MaxGrabs = 2
  MaxWire = 2
PROPERTIES
  CancelSendsNothing
CHECK_DEADLOCK FALSE
