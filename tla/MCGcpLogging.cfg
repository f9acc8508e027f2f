SPECIFICATION FairSpec
CONSTANTS
  NumMsgs = 4
  MaxRestarts = 1
  batch_size = 2
  Limits = {0, 1, 2}
INVARIANTS
  CheckpointAccounts
  CheckpointBelowRequest
  NothingBatchedAtLimit
PROPERTIES
  BatchDrains
CHECK_DEADLOCK FALSE
