SPECIFICATION FairSpec
CONSTANTS
  Proc = {r1, r2}
  Name = {"admin", "cluster"}
  Password = {"p1", "p2"}
  Host = {"h1", "h2", "h3", "h4"}
  Configs <- LiveConfigs
  First <- Small
  MaxEdits = 1
  MaxFaults = 1
PROPERTY EventuallyConfigured
