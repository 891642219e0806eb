SPECIFICATION AllSpec
CONSTANTS
  Calls = {c1, c2, c3}
  Threshold = 3
  SuccessThreshold = 2
  Requests = {r1, r2}
  MaxRetries = 2
  Checks = {k1, k2}
  Pollers = {p1, p2}
  FailureLimit = 1
  Jobs = {j1, j2}
  Loops = {l1, l2}
  MaxConcurrent = 1
  AnalysisLimit = 2
  Handlers = {h1, h2}
  MaxAttempts = 3
  MaxFaults = 2
INVARIANTS
  TypesOK
  OnlyKnownLosses
  BoundedDuplicates
  JobsAccounted
  QuotaSound
  ReplaysSound
PROPERTIES
  TransitionsEarned
  CircuitsClose
  EveryRequestEnds
  EventuallyEnqueued
  EventuallyFinished
CHECK_DEADLOCK FALSE
