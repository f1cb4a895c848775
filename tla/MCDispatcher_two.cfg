\* Two events, one of them published twice, two processes reading two entries at
\* a time, two attempts, one lost call, a stream that keeps two entries.
CONSTANTS
  e1 = e1
  e2 = e2
  Event = {e1, e2}
  Process = {p1, p2}
  MaxAttempts = 2
  Count = 2
  StreamLength = 2
  MaxCopies <- FirstTwice
  MaxDrops = 1
SPECIFICATION Spec
INVARIANTS
  Consistent
  AcknowledgedIsAccounted
  FullBudget
PROPERTIES
  EveryEventFinishes
\* Publications are bounded, and the stream runs dry.
CHECK_DEADLOCK FALSE
