SPECIFICATION Spec
CONSTANTS
  Clicks = {c1, c2}
  MaxRetries = 1
  MaxFaults = 0
PROPERTY DismissedStays
CHECK_DEADLOCK FALSE
