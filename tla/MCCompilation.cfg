CONSTANTS
  Run = {r1}
  Algorithm = {a1, a2}
  NULL = NULL
  MaxTime = 1
  MaxEdits = 2
  Environment = {}
SPECIFICATION Spec
SYMMETRY Symmetry
INVARIANTS TypeOK RightLibrary LibrariesCurrent
PROPERTY FailureIsUsers
CHECK_DEADLOCK TRUE
