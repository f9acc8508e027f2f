SPECIFICATION FilterSpec
CONSTANTS
  Keys <- MCKeys
  Home <- MCHome
  Partner <- MCPartner
  num_buckets = 2
  BUCKET_SIZE = 1
  MAX_INTERVALS = 3
  Kicks = 2
  Capacity = 75
  LastTime = 5
  MaxRestarts = 1
INVARIANTS
  EntriesExpire
