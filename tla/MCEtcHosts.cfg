SPECIFICATION Spec
CONSTANTS
  Proc = {c1, c2, c3}
  Name = {"localhost", "h1", "h2", "h3"}
  Ip = {"lo", "v6", "lan", "scrap"}
  LoopbackIp = "lo"
  Commands <- MCCommands
  FirstFile <- MCFirstFile
  Empty = Empty
  NoFile = NoFile
  Scrap = "scrap"
  MaxFaults = 1
INVARIANTS
  TypeOK
  NoSilentLoss
  WinnerShows
PROPERTIES
  EffectShows
SYMMETRY Symmetry
CHECK_DEADLOCK FALSE
