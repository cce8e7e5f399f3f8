SPECIFICATION Spec
CONSTANTS
  r0 = r0
  r1 = r1
  p1 = p1
  p2 = p2
  Rows <- MCRows
  WindowOf <- MCWindowOf
  Unaligned <- MCUnaligned
  Deliveries <- Every
  Archivers = {a1}
  Appenders = {p1}
  Streamers = {}
  LastWindow = 1
  SettlementLag = 0
  PartitionHeadroom = 1
  ReaderGrace = 1
  MaxClock = 2
  BoundaryAttempts = 2
  CommitAttempts = 2
  Nobody = Nobody
INVARIANTS
  AckedReadable
