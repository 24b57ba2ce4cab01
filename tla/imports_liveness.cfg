SPECIFICATION FairSpec
CONSTANTS
  f1 = f1
  f2 = f2
  c1 = c1
  c2 = c2
  t1 = t1
  s1 = s1
  s2 = s2
  None = None
  Import = {1}
  Maintenance = {11}
  Key = {k1}
  File = {f1}
  Content = {c1}
  Table = {t1}
  Shape = {s1}
  ShapeOf <- MCOneShape
  Requests <- MCOneFile
  Caller = {h1, h2}
  MaxFiles = 2
  HistoryLimit = 1
  MaxStops = 1
  FaultKinds = {"lookup", "row", "receipt", "delete"}
  WriterOps = {"create", "drop", "compact"}
  ReuseNames = TRUE
  ListMissingFails = FALSE
INVARIANTS NoZombieRow JobTellsRow
PROPERTIES ImportsSettle LockFreed CloseEnds
