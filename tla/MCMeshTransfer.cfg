SPECIFICATION FairMeshSpec
CONSTANTS
  e1 = e1
  e2 = e2
  Job <- MCTwoEntities
  Priority <- MCPriority
  MaxConcurrent = 1
  MaxRetries = 1
  RetryOnRejectedAck = TRUE
  MaxSession = 2
INVARIANTS
  NoFalseSuccess
  EndsAgree
  Bookkeeping
PROPERTIES
  ServesScheduler
CHECK_DEADLOCK FALSE
