SPECIFICATION Spec
CONSTANTS
  Rows <- MCRows
  Hot <- MCHot
  Queries = {q1}
  Ranges <- MCRanges
  Attempts = 2
  RetainFor = 0
  RetainLast = 1
  MaxSnaps = 4
  MaxForeign = 1
  MaxFiles = 4
  MaxClock = 1
  MaxFaults = 1
  None = None
INVARIANTS
  NothingDangling
  BoundaryReadable
  TwiceOnlyIfLate
  ElisionSound
  Reproducible
PROPERTY ImplementsColdLedger
