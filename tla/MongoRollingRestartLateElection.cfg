SPECIFICATION Spec
CONSTANTS
  N = 3
  Retries = 1
  MaxFailovers = 1
  MaxCrashes = 0
  MaxFaults = 0
  MaxRuns = 1
INVARIANT DoneRestartsAll
CHECK_DEADLOCK FALSE
