SPECIFICATION Spec
CONSTANTS
  Web = web
  w1 = w1
  w2 = w2
  Workers <- TwoWorkers
  Acts <- TwoThenNo
  MaxAttempts = 1
  MaxJobs = 2
  MaxRetries = 0
  MaxCrashes = 0
INVARIANTS TypeOK NoAdvancePastUnfinished OutputsMerged
PROPERTIES LastEventWakes
CHECK_DEADLOCK FALSE
