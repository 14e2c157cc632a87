SPECIFICATION Spec
CONSTANTS
  Records = {1, 2}
  PartitionCount = 1
  Existing = {1}
  Requests = {q1}
  MaxRuns = 2
  Timer = timer
  Uses <- ReindexUses
  BatchSize = 1
  Crashes = TRUE
  MaxChanges = 1
INVARIANTS TypeOK RecordsIndexed ReindexRepairs CoverageRepaired JobsTracked
CHECK_DEADLOCK FALSE
ACTION_CONSTRAINT UsesInOrder
