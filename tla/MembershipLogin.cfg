SPECIFICATION Spec
CONSTANTS
  Users = {u1, u2}
  Calls = {c1}
  MaxTeam = 1
  MaxBegun = 3
  MaxFaults = 0
PROPERTY SkippedWhenFull
CHECK_DEADLOCK FALSE
