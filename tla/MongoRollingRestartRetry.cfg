SPECIFICATION Spec
CONSTANTS
  N = 3
  Retries = 1
  MaxFailovers = 0
  MaxCrashes = 0
  MaxFaults = 0
  MaxRuns = 1
INVARIANT RetryHasConnection
CHECK_DEADLOCK FALSE
