SPECIFICATION FairSpec
CONSTANTS
  None = None
  Alerts = {a1, a2, a3}
  Fingerprints = {f1}
  Fingerprint <- OneIncident
  Plain = None
  Tenantless = {a3}
  Processes = {p1, p2}
  Requests = {r1, r2}
  MaxRetries = 1
  MaxReceipts = 3
  MaxExpiries = 1
  MaxFaults = 1
  MaxCrashes = 1
INVARIANTS
  TypeOK
  SkippedIsQueued
  SuppressedIsCovered
  OneDispatchPerWindow
PROPERTIES
  EventuallySettled
CHECK_DEADLOCK FALSE
