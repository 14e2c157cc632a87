SPECIFICATION Spec
CONSTANTS
  MaxJobs = 3
  MaxStops = 2
INVARIANTS
  TypeOK
  RemovedStaysRemoved
  RedeliveryOnlyAfterStop
  CountsAccountForRemoved
PROPERTIES
  HandledInOrder
  StoredJobsAreHandled
