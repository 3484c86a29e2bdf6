CONSTANTS
  Times <- MCTimes
  NULL = NULL
  IntMax = 3
  ULongMax = 15
  Absolute = {"/data", "/algator"}
  None = None
  CommandLines <- MCCommandLines
  Surroundings <- MCSurroundings
  MaxRuns = 2
SPECIFICATION FairMainSpec
INVARIANTS MainTypeOK ArgumentsLive Isolation NoAccumulation OKMeansDone PhaseTruthful
INVARIANTS ResultsAgree PlainUsageObeyed
PROPERTIES ImplementsRunSpec EveryRunReports
CHECK_DEADLOCK FALSE
