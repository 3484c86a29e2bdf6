CONSTANTS
  Main = main
  Worker = worker
  Helper = {}
  NULL = NULL
  MaxCalls = 2
  Fault = {"wire"}
SPECIFICATION FairSpec
PROPERTY CallCompletes
CHECK_DEADLOCK FALSE
