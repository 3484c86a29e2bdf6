CONSTANTS
  Thread = {t1, t2, t3}
  Block = {b1, b2, b3, b4, b5}
  NULL = NULL
  JUNK = JUNK
SPECIFICATION Spec
SYMMETRY Symmetry
CONSTRAINT Promised
INVARIANTS TypeOK ListExactWhenQuiet LateMallocHarmless
CHECK_DEADLOCK FALSE
