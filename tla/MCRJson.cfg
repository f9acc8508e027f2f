SPECIFICATION RJsonSpec
CONSTANTS
  Docs = {d1, d2}
  JsonTexts <- MCTexts
  MaxParses = 2
  MaxRemovals = 2
  MaxRefs = 3
SYMMETRY DocSymmetry
INVARIANTS
  RefsAlive
  HandlesCurrent
  TreesIntact
CHECK_DEADLOCK FALSE
