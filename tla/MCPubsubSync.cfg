SPECIFICATION FairSpec
CONSTANTS
  NumMsgs = 5
  batch_size = 3
  MaxRestarts = 2
  EmptyData = TRUE
INVARIANTS
  CheckpointBelowRequest
PROPERTIES
  ImplementsContract
  CheckpointCatchesUp
