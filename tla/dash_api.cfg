SPECIFICATION Spec
CONSTANTS
  c1 = c1
  c2 = c2
  d1 = d1
  d2 = d2
  neat = neat
  loose = loose
  other = other
  broken = broken
  NoText = NoText
  NoTag = NoTag
  Star = Star
  Theme = Theme
  Client = {c1, c2}
  Doc = {d1}
  Text <- MCTwoTexts
  Pretty <- MCPretty
  Valid <- MCValid
  Size <- MCSize
  Reads = {"get", "raw"}
  Outside = FALSE
  Faults = TRUE
  Coarse = TRUE
  MaxClock = 0
SYMMETRY MCSymmetry
PROPERTY NoBlindOverwrite
PROPERTY RawNeverLost
PROPERTY ImplementsDocuments
