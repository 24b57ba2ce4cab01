SPECIFICATION FairSpec
CONSTANTS
  c1 = c1
  c2 = c2
  Sales = Sales
  Date = Date
  m1 = m1
  m2 = m2
  e1 = e1
  e2 = e2
  f1 = f1
  day = day
  None = None
  Clients = {c1, c2}
  Tables = {Sales, Date}
  Quoted = {Date}
  Joins <- MCJoins
  MeasureNames = {m1}
  Exprs = {e1}
  Formats = {}
  DateColumns <- MCDateColumns
  Objects <- MCObjects
  Documents <- MCDocuments
  TomlFiles <- MCTomlFiles
  FirstTables = {Sales, Date}
  MaxEvents = 3
CHECK_DEADLOCK FALSE
INVARIANT TypeOK
INVARIANT FlagsMatch
INVARIANT GraphUnambiguous
INVARIANT NothingUnstored
PROPERTY TablesFollowLake
