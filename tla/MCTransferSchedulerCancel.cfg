SPECIFICATION FairSpec
CONSTANTS
  j1 = j1
  j2 = j2
  j3 = j3
  Job <- MCThreeJobs
  Priority <- MCPriority
  MaxConcurrent = 1
  MaxRetries = 1
  RetryOnRejectedAck = FALSE
PROPERTIES
  CancelSettles
CHECK_DEADLOCK FALSE
