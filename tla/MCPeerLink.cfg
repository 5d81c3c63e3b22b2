SPECIFICATION FairSpec
CONSTANTS
  Initiator = Initiator
  Responder = Responder
  MaxApp = 2
INVARIANTS
  TypeOK
  MutualConsent
  NothingOutrunsItsState
  AcceptsNeverStall
  HalfUpIsTransient
PROPERTIES
  ImplementsContract
  HandshakeEnds
  CloseReachesPeer
CHECK_DEADLOCK FALSE
