SPECIFICATION Spec
CONSTANTS
  None = None
  Alerts = {a1}
  Fingerprints = {f1}
  Fingerprint <- OneIncident
  Plain = None
  Tenantless = {}
  Processes = {p1}
  Requests = {r1}
  MaxRetries = 1
  MaxReceipts = 1
  MaxExpiries = 0
  MaxFaults = 1
  MaxCrashes = 0
INVARIANT OnlyFutureAlerts
CHECK_DEADLOCK FALSE
