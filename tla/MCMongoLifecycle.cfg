SPECIFICATION Spec
CONSTANTS
  Proc = {r1, r2}
  Configs <- MCConfigs
  LeftBehind <- MCLeftBehind
  First <- Base
  MaxFaults = 1
INVARIANTS
  TypeOK
  RaceLeavesAllUp
PROPERTIES
  EndsCurrent
  StopGoesOn
SYMMETRY Symmetry
CHECK_DEADLOCK FALSE
