SPECIFICATION Spec
CONSTANTS
  Role = {"postgres", "admin", "app"}
  Db = {"postgres", "d1", "d2"}
  Password = {"p1", "p2"}
  Proc = {c1, c2}
  Configs <- MCConfigs
  MaxLaunches = 3
  MaxEdits = 1
  MaxFaults = 1
INVARIANTS
  TypeOK
  AdminGetsIn
PROPERTIES
  SetupKeepsAccess
  DoneAsConfigured
  GrantsAsConfigured
  StartRepeats
SYMMETRY Symmetry
CHECK_DEADLOCK FALSE
