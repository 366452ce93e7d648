CONSTANTS
  Clusters = 2
  SPC = 2
  SU = 2
  ES = 3
  RootSectors = 1
  ByteRange = 8
  Names = {a}
  AppendData <- Stretches
  Beyond <- LargeFat
  MaxDepth = 0
  DeviceMayFail = FALSE
  MkdirInFullDir = FALSE
  AppendToDamaged = FALSE
SPECIFICATION Spec
INVARIANT AppendStaysInCluster
PROPERTY IsFileStore
VIEW WithoutResult
