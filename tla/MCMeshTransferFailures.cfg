SPECIFICATION MeshSpec
CONSTANTS
  e1 = e1
  e2 = e2
  Job <- MCOneEntity
  Priority <- MCPriority
  MaxConcurrent = 1
  MaxRetries = 1
  RetryOnRejectedAck = FALSE
  MaxSession = 2
PROPERTIES
  FailuresRetried
CHECK_DEADLOCK FALSE
