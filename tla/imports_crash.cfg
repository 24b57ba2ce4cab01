SPECIFICATION Spec
CONSTANTS
  f1 = f1
  f2 = f2
  c1 = c1
  c2 = c2
  t1 = t1
  s1 = s1
  s2 = s2
  None = None
  Import = {1, 2}
  Maintenance = {}
  Key = {k1, k2}
  File = {f1, f2}
  Content = {c1, c2}
  Table = {t1}
  Shape = {s1}
  ShapeOf <- MCOneShape
  Requests <- MCPairAndOne
  Caller = {h1, h2}
  MaxFiles = 2
  HistoryLimit = 1
  MaxStops = 2
  FaultKinds = {}
  WriterOps = {}
  ReuseNames = FALSE
  ListMissingFails = TRUE
SYMMETRY MCSymmetry
INVARIANTS TypeOK OneOwner RegisteredOnce LakeMatchesReceipts DataFilesExist SettledTruthfully NoZombieRow NoLeftoverPartial
PROPERTIES QuietAfterClose InboxKept DuplicateMeansRegistered ImplementsLedger
