CONSTANTS
  Block = {b1, b2, b3}
  Sandbox = {s1, s2}
  NULL = NULL
  JUNK = JUNK
  HOST = HOST
  Behaviour = {"realloc_moves"}
SPECIFICATION Spec
SYMMETRY Symmetry
INVARIANT ListHoldsNonFreed
CHECK_DEADLOCK FALSE
