CONSTANTS
  Projects <- MCProjects
  InputSize = 4
  Initial = 2
  Chunks <- MCChunks
  MaxText = 7
  NULL = NULL
  JUNK = JUNK
SPECIFICATION Spec
INVARIANT ReadsInOrder
CHECK_DEADLOCK FALSE
