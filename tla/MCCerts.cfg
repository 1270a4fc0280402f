SPECIFICATION Spec
CONSTANTS
  Proc = {r1, r2}
  Servers <- MCServers
  Flags <- MCFlags
  Nothing = Nothing
  Blank = Blank
  MaxId = 24
  MaxLaunches = 3
  MaxTogether = 2
  MaxKills = 2
INVARIANTS
  TypeOK
  EndsMatched
  RepairWorks
  SignsAgain
  OverlapsMatch
SYMMETRY Symmetry
CHECK_DEADLOCK FALSE
