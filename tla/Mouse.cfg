CONSTANTS
  Moves <- MCMoves
  Buttons = {0, 5}
  Windows <- MCWindows
  MaxPackets = 3
  MaxWire = 6
  MaxLost = 0
  EnableMidPacket = FALSE
SPECIFICATION Spec
INVARIANT TypeOK
PROPERTY PointerClamped PointerFollowsMouse
VIEW Pointing
