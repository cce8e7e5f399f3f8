SPECIFICATION Spec
CONSTANTS
  Null = Null
  Canonical <- MCCanonical
  Malformed = "malformed"
  MonthStart = 6
  DayLength = 4
  GasShift = 2
  ValueLimit = 40
  ShortestMscons = 2
  Filters <- MCFilters
  Depth <- MCDepth
  LastInstant = 8
  CoarseUnit = 4
  Writers = {w1, w2}
  Readers = {r1}
  Scenes <- MCReauthored
  Step = 4
  Frontier = 8
  MaxAsks = 1
  BoundaryAttempts = 2
  AuthoritativeAttempts = 2
  Collation <- MCCollation
CHECK_DEADLOCK FALSE
INVARIANTS
  OneRowPerVersion

SYMMETRY Symmetry
