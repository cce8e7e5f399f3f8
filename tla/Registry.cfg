SPECIFICATION FairSpec
CONSTANTS
  Subjects = {s1}
  Registrars = {g1}
  Erasers = {e1}
  Sweepers = {w1}
  LastYear = 2
  Years = 0
  SweepBatch = 2
  MaxKeys = 2
  MaxRefs = 2
  MaxAborts = 1
  None = None
INVARIANTS
  LinkedOrAudited
  SuppressedIsUnlinked
PROPERTIES
  ErasureHonoured
  DueIsSwept
