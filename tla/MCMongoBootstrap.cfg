SPECIFICATION Spec
CONSTANTS
  Proc = {r1, r2}
  Name = {"admin", "cluster", "app"}
  Password = {"p1", "p2"}
  Host = {"h1", "h2", "h3", "h4"}
  Configs <- StableConfigs
  First <- Base
  MaxEdits = 1
  MaxFaults = 1
INVARIANTS
  TypeOK
  AdminKeepsRights
  RaceHasWinner
PROPERTIES
  FinishedAsConfigured
  OnlyStuckRunsFail
