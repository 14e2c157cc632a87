SPECIFICATION Spec
CONSTANTS
  MaxJobs = 3
  MaxStops = 2
INVARIANT CreatedJobsPersist
