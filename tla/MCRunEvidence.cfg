CONSTANTS
  None = None
  a = a
  b = b
  main = main
  Clients = {a, b, main}
  Scenarios <- RunScenarios
  MaxFaults = 1
SPECIFICATION FairSpec
INVARIANTS CheckpointsAreOnRecord LedgersAgree VerdictInspects
PROPERTY WritersFinish
CHECK_DEADLOCK FALSE
