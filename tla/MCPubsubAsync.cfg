SPECIFICATION FairSpec
CONSTANTS
  NumMsgs = 4
  max_async_requests = 2
  batch_size = 2
  MAX_RETRIES = 1
INVARIANTS
  OutstandingIsInflight
  BufferBound
  CheckpointBelowRequest
  CheckpointAccounts
PROPERTIES
  EveryMessageSettles
CHECK_DEADLOCK FALSE
