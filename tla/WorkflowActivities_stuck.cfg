SPECIFICATION Spec
CONSTANTS
  Web = web
  w1 = w1
  w2 = w2
  Workers <- OneWorker
  Acts <- Two
  MaxAttempts = 1
  MaxJobs = 2
  MaxRetries = 0
  MaxCrashes = 0
PROPERTIES WaitingEnds
CHECK_DEADLOCK FALSE
