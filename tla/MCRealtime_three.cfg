\* Three events of one report, three entries, two interruptions.
CONSTANTS
  created = created
  changed = changed
  ready = ready
  Event = {created, changed, ready}
  Kind <- MCKind
  MaxEntries = 3
  MaxReplay = 2
  MaxRead = 2
  MaxDedupe = 1
  MaxTrims = 1
  MaxBreaks = 2
SPECIFICATION Spec
INVARIANTS
  Consistent
  ReceivedIsShown
PROPERTIES
  NoGapAfterReplay
  EveryEntryArrives
\* When everything is delivered nothing is left to do.
CHECK_DEADLOCK FALSE
