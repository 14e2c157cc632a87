SPECIFICATION Spec
CONSTANTS
  Web = web
  w1 = w1
  w2 = w2
  Workers <- TwoWorkers
  Acts <- TwoThenOne
  MaxAttempts = 2
  MaxJobs = 5
  MaxRetries = 1
  MaxCrashes = 1
INVARIANTS StepsExecutedOnce PausesPending
CHECK_DEADLOCK FALSE
