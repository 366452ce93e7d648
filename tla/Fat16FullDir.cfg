CONSTANTS
  Clusters = 3
  SPC = 1
  SU = 1
  ES = 3
  RootSectors = 1
  ByteRange = 8
  Names = {a, b}
  AppendData <- None
  Beyond <- LargeFat
  MaxDepth = 2
  DeviceMayFail = FALSE
  MkdirInFullDir = TRUE
  AppendToDamaged = FALSE
SPECIFICATION Spec
INVARIANT NoCrossLinks
SYMMETRY NameSymmetry
VIEW WithoutResult
