\* A full pipeline and both targeted triggers, one or two at a time; one refetch.
CONSTANTS
  full = full
  article = article
  gauge = gauge
  None = None
  Run = {full, article, gauge}
  Kind <- RunKind
  MaxDispatchers = 2
  MaxRefetches = 1
  MayFail = {"LOCATION", "EVIDENCE", "CREDIBILITY"}
SPECIFICATION Spec
INVARIANTS
  Consistent
  ReadyScoreIsComplete
PROPERTIES
  FullRunAnswers
  OnlyOwnStagesAlone
  EveryRunEnds
