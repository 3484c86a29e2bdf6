CONSTANTS
  Projects <- MCProjects
  InputSize = 4
  Initial = 2
  Chunks <- MCChunks
  MaxText = 7
  NULL = NULL
  JUNK = JUNK
SPECIFICATION Spec
INVARIANTS TypeOK CallsDeclared InBounds ReadsCount BulkTextKept BufferOwnedOnce ThrowsReported
CHECK_DEADLOCK FALSE
