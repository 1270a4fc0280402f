SPECIFICATION FairSpec
CONSTANTS
  N = 3
  Retries = 1
  MaxFailovers = 1
  MaxCrashes = 1
  MaxFaults = 0
  MaxRuns = 2
PROPERTIES
  Terminates
  RegainsPrimary
CHECK_DEADLOCK FALSE
