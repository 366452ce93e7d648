CONSTANTS
  Keys <- MCKeys
  Code <- MCCode
  Extended = {"up"}
  QualCodes = {"shift"}
  E0 = "e0"
  E1 = "e1"
  F0 = "f0"
  NoKey = "none"
  Size = 3
  Frames = 2
  IrqsPerRead = 1
  MaxPresses = 4
  MaxWire = 3
SPECIFICATION Spec
INVARIANTS TypeOK ReadIsOnePress FlagsKept
 
