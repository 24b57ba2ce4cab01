SPECIFICATION Spec
CONSTANTS
  c1 = c1
  c2 = c2
  d1 = d1
  d2 = d2
  neat = neat
  loose = loose
  other = other
  broken = broken
  NoText = NoText
  NoTag = NoTag
  Star = Star
  Theme = Theme
  Client = {c1, c2}
  Doc = {d1}
  Text <- MCTwoForms
  Pretty <- MCPretty
  Valid <- MCValid
  Size <- MCSize
  Reads = {"list"}
  Outside = TRUE
  Faults = TRUE
  Coarse = FALSE
  MaxClock = 2
SYMMETRY MCSymmetry
INVARIANT TypeOK
INVARIANT CacheHonest
PROPERTY ListFresh
