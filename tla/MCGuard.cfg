CONSTANTS
  Main = main
  Worker = worker
  Helper = {h1, h2}
  NULL = NULL
  MaxCalls = 3
  Fault = {}
SPECIFICATION FairSpec
INVARIANTS TypeOK CallRestores NeverNested
PROPERTIES ImplementsGuardSpec CallCompletes StrayFaultEnds
CHECK_DEADLOCK FALSE
