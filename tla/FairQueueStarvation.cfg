SPECIFICATION FairSpec
CONSTANTS
  None = None
  Base = Base
  Tenants = {t1, t2}
  Jobs = {j1, j2, j3}
  Workers = {w1}
  MaxRetries = 0
  MaxTenantsPerRound = 2
  MaxCrashes = 0
  MaxRedisErrors = 0
PROPERTIES
  NoStarvation
CHECK_DEADLOCK FALSE
