CONSTANTS
  Clusters = 2
  SPC = 1
  SU = 1
  ES = 3
  RootSectors = 1
  ByteRange = 8
  Names = {a, b}
  AppendData <- One
  Beyond <- LargeFat
  MaxDepth = 1
  DeviceMayFail = TRUE
  MkdirInFullDir = FALSE
  AppendToDamaged = FALSE
SPECIFICATION Spec
INVARIANTS TypeOK  
PROPERTY IsFileStore
SYMMETRY NameSymmetry
CHECK_DEADLOCK FALSE
