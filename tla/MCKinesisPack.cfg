SPECIFICATION FairSpec
CONSTANTS
  NumMsgs = 4
  MaxRestarts = 1
  PUT_MAX = 8
  PUT_UNIT = 4
  pack_percentage = 3
  pack_delimiter_size = 1
  Sizes = {2, 3, 5}
INVARIANTS
  PackInOrder
  ExposureIsOneMessage
PROPERTIES
  PackDrains
