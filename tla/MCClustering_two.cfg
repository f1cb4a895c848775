\* Three reports, every pattern of pair scores, one or two dispatchers; score 1 is a duplicate,
\* score 2 a better match that is only possible.
CONSTANTS
  d1 = d1
  d2 = d2
  N = 3
  Dispatcher = {d1, d2}
  MaxScore = 2
  Confirmed = {1}
  MaxRepeats = 1
  MaxFailures = 1
SPECIFICATION Spec
INVARIANTS
  Consistent
  EvaluatedIsGrouped
PROPERTIES
  RepeatChangesNothing
  EveryEventHandled
CHECK_DEADLOCK FALSE
