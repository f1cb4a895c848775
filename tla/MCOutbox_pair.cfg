\* One transaction with two rows; two workers that can lock both, and two of whose
\* sessions are lost.
CONSTANTS
  report = report
  created = created
  trigger = trigger
  Txn = {report}
  Event = {created, trigger}
  Staged <- MCStaged
  Worker = {w1, w2}
  MaxAttempts = 2
  BatchSize = 2
  MaxAborts = 2
SPECIFICATION Spec
INVARIANTS
  Consistent
  CommitFirst
  PublishedIsOnStream
  DuplicatesAccounted
PROPERTIES
  EverySettles
  ImplementsPromise
\* The handlers run once each: when every event is settled nothing is left to do.
CHECK_DEADLOCK FALSE
