SPECIFICATION Spec
CONSTANTS
  N = 3
  Retries = 1
  MaxFailovers = 1
  MaxCrashes = 1
  MaxFaults = 1
  MaxRuns = 2
INVARIANTS
  TypeOK
  AtMostOneDown
  KeepsMajority
  QuietRunIsComplete
PROPERTIES
  OthersServe
  PrimaryStoppedOnlyIfElectedSince
  ImplementsPlan
CHECK_DEADLOCK FALSE
