CONSTANTS
  Sent <- MCSent
  MaxMishaps = 1
  Now <- MCNow
  PageSize = 2
  Worlds <- MCWorlds
  Views <- MCViews
  Asks <- MCAsks
  Fed = {1, 3}
  Scores = {80}
  MaxChanges = 3
  MaxMoved = 1
SPECIFICATION Spec
CONSTRAINT Calm
INVARIANT FilesMatchRows
INVARIANT WalkIsComplete
INVARIANT ChartsAddUp
INVARIANT ReadyIsBacked
