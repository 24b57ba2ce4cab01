SPECIFICATION FairSpec
CONSTANTS
  c1 = c1
  c2 = c2
  lakeA = lakeA
  lakeB = lakeB
  week = week
  month = month
  x = x
  y = y
  None = None
  Left = Left
  Clients = {c1, c2}
  VarNames = {x, y}
  Programs <- MCPrograms
  Paths = {lakeA, lakeB}
  Durations = {week, month}
  Settings <- MCSettings
  MaxLanes = 2
  MaxStarts = 2
  MaxRefreshes = 1
CHECK_DEADLOCK FALSE
INVARIANT TypeOK
INVARIANT ConfiguredPasses
INVARIANT WriterHasPool
INVARIANT OneSchema
INVARIANT LanesClean
PROPERTY RefusedLeavesLake
PROPERTY Answered
PROPERTY RefreshEnds
