SPECIFICATION Spec
CONSTANTS
  Null = Null
  Environment <- MCEnvironment
  NameLength <- MCNameLength
  Stem <- MCStem
  PlainNames <- MCPlainNames
  WithComma = {}
  CodeBook <- MCCodeBook
  Core <- MCCore
  CoreKey <- MCCoreKey
  UnitSize <- MCUnitSize
  LargestNumber = 1000
  IdentifierRoom = 63
  PartitionSuffix = 14
  ConstraintSuffix = 21
  SecretBytes = 16
  CompiledCatalogs = {"sql", "rest", "s3tables"}
  CompiledStores = {"s3"}
  Defaults <- MCDefaults
  Processes = {p1, p2}
  Files <- MCFiles
  Offered <- MCOffered
  NewColumns = {"nz"}
  LastWindow = 0
  MaxRows = 1
  MaxTables = 4
  MaxStarts = 3
  MaxAltered = 2
CHECK_DEADLOCK FALSE
INVARIANTS
  
  DerivedAgrees
  ValuesKeepTheirNames
  OneMeaning
  DeclaredWorks
  

SYMMETRY Symmetry
