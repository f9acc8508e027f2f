SPECIFICATION ParquetSpec
CONSTANTS
  Schemas <- MCSchemas
  Assembly <- Read
  ByRef <- MCByRef
  Writers = {w1, w2}
  MaxCalls = 3
  BAD = BAD
  NULL = NULL
INVARIANTS
  ColumnsAligned
  SchemaAlive
PROPERTIES
  ImplementsRecordFile
CHECK_DEADLOCK FALSE
