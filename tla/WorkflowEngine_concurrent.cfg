SPECIFICATION Spec
CONSTANTS
  r1 = r1
  r2 = r2
  ok = ok
  note = note
  NoKey = NoKey
  Proc <- TwoRequests
  Background = r1
  Step <- Names
  StepType <- Kind
  Start = "start"
  Key = {ok}
  Transitions <- Review
  Concurrent = TRUE
  MaxIterations = 3
  MaxRequests = 2
  MaxFaults = 1
INVARIANTS TypeOK VisitedConnected
CHECK_DEADLOCK FALSE
