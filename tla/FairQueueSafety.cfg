SPECIFICATION Spec
CONSTANTS
  None = None
  Base = Base
  Tenants = {t1}
  Jobs = {j1, j2}
  Workers = {w1, w2}
  MaxRetries = 1
  MaxTenantsPerRound = 1
  MaxCrashes = 2
  MaxRedisErrors = 2
INVARIANTS
  TypeOK
  WorkIsRegistered
  CopyBound
SYMMETRY Identical
CHECK_DEADLOCK FALSE
