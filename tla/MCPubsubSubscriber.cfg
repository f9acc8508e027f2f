SPECIFICATION SubscriberFairSpec
CONSTANTS
  Published = {m1, m2}
  max_messages = 2
  Limits = {0, 1, 2}
  Bads = {{}, {m1}}
  RetryCounts = {2}
  MaxAcks = 1
  MaxFaults = 1
INVARIANTS
  AckedWereHandled
  HandledAreAcked
PROPERTIES
  AllHandled
CHECK_DEADLOCK FALSE
