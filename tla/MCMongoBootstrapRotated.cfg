SPECIFICATION Spec
CONSTANTS
  Proc = {r1}
  Name = {"admin", "cluster", "app"}
  Password = {"p1", "p2"}
  Host = {"h1", "h2", "h3", "h4"}
  Configs <- RotatedConfigs
  First <- Base
  MaxEdits = 1
  MaxFaults = 0
PROPERTY StartSyncsAdmins
