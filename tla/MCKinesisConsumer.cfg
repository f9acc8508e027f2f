SPECIFICATION ConsumerFairSpec
CONSTANTS
  NumShards = 2
  Children <- MCChildren
  MaxPuts = 2
  MaxCrashes = 1
  IteratorTypes = {"TRIM_HORIZON", "AT_TIMESTAMP"}
  Older = 1
INVARIANTS
  CheckpointCovers
PROPERTIES
  AllHandled
CHECK_DEADLOCK FALSE
