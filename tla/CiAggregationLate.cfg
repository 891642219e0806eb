SPECIFICATION Spec
CONSTANTS
  Checks = {c1, c2}
  Pollers = {p1}
  Limit = 2
  MaxFaults = 0
PROPERTY DeletesOnlyEnqueued
CHECK_DEADLOCK FALSE
