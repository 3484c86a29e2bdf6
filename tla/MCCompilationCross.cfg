CONSTANTS
  Run = {r1, r2}
  Algorithm = {a1, a2}
  NULL = NULL
  MaxTime = 1
  MaxEdits = 0
  Environment = {"alongside"}
SPECIFICATION Spec
SYMMETRY Symmetry
INVARIANT RightLibrary
CHECK_DEADLOCK TRUE
