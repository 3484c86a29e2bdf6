CONSTANTS
  Run = {r1, r2}
  Algorithm = {a1}
  NULL = NULL
  MaxTime = 1
  MaxEdits = 0
  Environment = {"alongside"}
SPECIFICATION FairSpec
PROPERTY RunEnds
CHECK_DEADLOCK TRUE
