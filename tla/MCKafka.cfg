SPECIFICATION MCSpec
CONSTANTS
  NumMsgs = 4
  Topics = {t1, t2}
  Configs = {{}, {"string", "number", "boolean"}, {"refused"}, {"string", "other value"}, {"other key"}}
  Entries = {"none", "name", "partition", "no partition"}
  QueueMax = 2
  MaxStops = 1
  MaxCrashes = 1
INVARIANTS
  CheckpointAccounts
  NothingLeaked
  OneLostPerCrash
PROPERTIES
  OffersAccepted
CHECK_DEADLOCK FALSE
