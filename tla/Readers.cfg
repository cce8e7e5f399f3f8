SPECIFICATION LoadedSpec
CONSTANTS
  r0 = r0
  r1 = r1
  p1 = p1
  p2 = p2
  Rows <- MCRows
  WindowOf <- MCWindowOf
  Unaligned <- MCUnaligned
  Deliveries <- Both
  Archivers = {a1}
  Appenders = {}
  Streamers = {h1}
  LastWindow = 1
  SettlementLag = 0
  PartitionHeadroom = 1
  ReaderGrace = 0
  MaxClock = 2
  BoundaryAttempts = 1
  CommitAttempts = 1
  Nobody = Nobody
  Late = {}
  LeftPins = {}
  Readers = {q1}
  Ranges <- MCRanges
  MaxPinAge = 1
  LastPin = 2
INVARIANTS
  WholeUnlessUnguarded
  NeverTwice
  PinProtects
