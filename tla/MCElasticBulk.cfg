SPECIFICATION FairSpec
CONSTANTS
  NumMsgs = 4
  MaxRestarts = 2
  flush_count = 2
  max_retry = 1
  flush_on_shutdown = FALSE
  Modes = {"retry", "discard", "abort"}
INVARIANTS
  CheckpointAccounts
  AttemptsExact
PROPERTIES
  BatchDrains
CHECK_DEADLOCK FALSE
