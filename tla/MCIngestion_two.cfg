\* Two records of a feed, each in one or two versions; a worker that reads two
\* entries at once; one hour passes; one call fails.
CONSTANTS
  None = None
  Worlds <- TwoWorlds
  Count = 2
  MaxQueue = 2
  MaxHour = 1
  MaxFaults = 1
SPECIFICATION Spec
INVARIANTS
  Consistent
  AlertsLandInIndia
PROPERTIES
  NothingLostSilently
  FeedIsReflected
\* When the feeds are empty and everything is stored nothing is left to do.
CHECK_DEADLOCK FALSE
