SPECIFICATION Spec
CONSTANTS
  Records = {1, 2}
  PartitionCount = 2
  Existing = {1, 2}
  Requests = {q1}
  MaxRuns = 2
  Timer = timer
  Uses <- RebuildUses
  BatchSize = 1
  Crashes = FALSE
  MaxChanges = 0
INVARIANT CleanRebuild
CHECK_DEADLOCK FALSE
