SPECIFICATION FaultySpec
CONSTANTS
  r0 = r0
  r1 = r1
  p1 = p1
  p2 = p2
  Rows <- MCRows
  WindowOf <- MCWindowOf
  Unaligned <- MCUnaligned
  Deliveries <- EarlyAndBoth
  a1 = a1
  a2 = a2
  Archivers <- MCArchivers
  Appenders = {p1}
  Streamers = {}
  LastWindow = 1
  SettlementLag = 0
  PartitionHeadroom = 1
  ReaderGrace = 0
  MaxClock = 1
  BoundaryAttempts = 2
  CommitAttempts = 2
  Nobody = Nobody
SYMMETRY ArchiverSymmetry
INVARIANTS
  Durable
