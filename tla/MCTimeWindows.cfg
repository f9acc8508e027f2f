SPECIFICATION WindowsSpec
CONSTANTS
  rows = 3
  columns = 1
  seconds_per_row = 2
  Magnitudes = {1}
  MaxTime = 13
  Given = {6, 9, 13}
  MaxValue = 1
  NAN = NAN
  NIL = NIL
  Methods = {"sum", "max"}
  MayFail = TRUE
  Texts = {t1, t2}
  Precision = 5
  Mixed = FALSE
  Keys <- MCKeys
  Home <- MCHome
  Partner <- MCPartner
  num_buckets = 2
  BUCKET_SIZE = 1
  MAX_INTERVALS = 3
  Kicks = 2
  Capacity = 75
  LastTime = 6
  MaxRestarts = 1
INVARIANTS
  DeltasAreExact
  AnnotationsDelivered
  AtMostOnce
  NothingExpiresEarly
  EverythingExpires
PROPERTIES
  ImplementsSeries
