SPECIFICATION Spec
CONSTANTS
  Pid = {p1, p2, p3, p4}
  InitPid = InitPid
  Gone = Gone
  NoFile = NoFile
  Blank = Blank
  Calls <- MCCalls
  MaxStarts = 2
  MaxForks = 2
  MaxOthers = 1
  MaxEnds = 1
INVARIANTS
  TypeOK
  OnlyOursHit
  EndReachesAll
SYMMETRY Symmetry
CHECK_DEADLOCK FALSE
