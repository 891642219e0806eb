SPECIFICATION FairSpec
CONSTANTS
  None = None
  Jobs = {j1, j2}
  Workers = {w1, w2, w3}
  Processes = {{w1, w2}, {w3}}
  MaxRetries = 1
  MaxCrashes = 2
  MaxRedisErrors = 1
INVARIANTS TypeOK OnePlace NoConcurrentRuns DeadJustified LossBound
PROPERTIES ImplementsLifecycle NeverRunAgain EventuallySettled
CHECK_DEADLOCK FALSE
