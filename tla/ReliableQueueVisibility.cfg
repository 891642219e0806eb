SPECIFICATION FairSpec
CONSTANTS
  None = None
  Jobs = {j1}
  Workers = {w1, w2}
  Processes = {{w1}, {w2}}
  MaxRetries = 1
  MaxCrashes = 1
  MaxRedisErrors = 0
PROPERTIES VisibleAgain
CHECK_DEADLOCK FALSE
