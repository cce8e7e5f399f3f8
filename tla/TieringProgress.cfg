SPECIFICATION LoadedFairSpec
CONSTANTS
  r0 = r0
  r1 = r1
  p1 = p1
  p2 = p2
  Rows <- MCRows
  WindowOf <- MCWindowOf
  Unaligned <- MCUnaligned
  Deliveries <- Early
  Archivers = {a1}
  Appenders = {p1}
  Streamers = {}
  LastWindow = 2
  SettlementLag = 1
  PartitionHeadroom = 1
  ReaderGrace = 1
  MaxClock = 4
  BoundaryAttempts = 1
  CommitAttempts = 1
  Nobody = Nobody
  Late = {r0}
  LeftPins <- Deceased
  Readers = {q1}
  Ranges = {}
  MaxPinAge = 3
  LastPin = 0
INVARIANTS
  TypeOK
  NeverWedged
PROPERTIES
  BoundaryReachesHorizon
  ArchivedIsReclaimed
