\* One dispatcher suffices: a report anchors two clusters.
CONSTANTS
  d1 = d1
  d2 = d2
  N = 3
  Dispatcher = {d1}
  MaxScore = 2
  Confirmed = {1}
  MaxRepeats = 1
  MaxFailures = 1
SPECIFICATION Spec
INVARIANT OneAnchor
CHECK_DEADLOCK FALSE
