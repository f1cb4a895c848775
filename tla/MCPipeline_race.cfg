\* A full pipeline and a trigger, two at a time.
CONSTANTS
  full = full
  article = article
  gauge = gauge
  None = None
  Run = {full, gauge}
  Kind <- RunKind
  MaxDispatchers = 2
  MaxRefetches = 0
  MayFail = {}
SPECIFICATION SafeSpec
PROPERTIES
  OnlyOwnStages
