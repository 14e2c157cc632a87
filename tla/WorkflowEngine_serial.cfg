SPECIFICATION Spec
CONSTANTS
  r1 = r1
  r2 = r2
  ok = ok
  note = note
  NoKey = NoKey
  Proc <- OneRequest
  Background = r1
  Step <- Names
  StepType <- Kind
  Start = "start"
  Key = {ok}
  Transitions <- Circle
  Concurrent = FALSE
  MaxIterations = 3
  MaxRequests = 3
  MaxFaults = 1
INVARIANTS HistoryAgrees CompletedAtEnd FormDataKept TasksAnswerSteps
PROPERTIES ImplementsLifecycle RequestsEnd
CHECK_DEADLOCK FALSE
