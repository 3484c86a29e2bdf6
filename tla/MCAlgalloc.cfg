CONSTANTS
  Block = {b1, b2, b3, b4}
  Sandbox = {s1, s2}
  NULL = NULL
  JUNK = JUNK
  HOST = HOST
  Behaviour = {}
SPECIFICATION Spec
INVARIANTS TypeOK ListHoldsNonFreed BaseAddressValid NoWildAccess
PROPERTY ImplementsSandboxSpec
CHECK_DEADLOCK FALSE
