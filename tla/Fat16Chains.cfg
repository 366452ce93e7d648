CONSTANTS
  Clusters = 3
  SPC = 2
  SU = 1
  ES = 3
  RootSectors = 1
  ByteRange = 8
  Names = {a, b}
  AppendData <- Long
  Beyond <- LargeFat
  MaxDepth = 0
  DeviceMayFail = FALSE
  MkdirInFullDir = FALSE
  AppendToDamaged = FALSE
SPECIFICATION Spec
 
PROPERTY IsFileStore
SYMMETRY NameSymmetry
VIEW WithoutResult
