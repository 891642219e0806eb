SPECIFICATION AllSpec
CONSTANTS
  Users = {u1, u2, u3}
  Calls = {c1, c2}
  MaxTeam = 2
  MaxBegun = 4
  Subs = {s1, s2}
  Plans = {p1, p2}
  MaxEvents = 3
  MaxDeliveries = 3
  MaxRetries = 1
  MaxFaults = 1
INVARIANTS
  TypesOK
  InSync
  CanceledIsFree
  ExecutedOnce
PROPERTIES
  LastOwnerKept
  TeamWithinPlan
  TakesOnlyNewcomers
SYMMETRY Identical
CHECK_DEADLOCK FALSE
